------------------------- MODULE ConversationsProofs -------------------------
(***************************************************************************)
(* Proofs about the six components that MCConversations brings together:   *)
(* the opening of threads, a chat thread, a feed post, the reading of the  *)
(* feed, and in the browser the list of threads and the window on one      *)
(* thread.  The constants are any, the bounds among them.  A theorem says  *)
(* of Spec what a run of MCConversations checks.                           *)
(***************************************************************************)
EXTENDS MCConversations, Sequences, SequenceTheorems, FiniteSetTheorems, TLAPS

(* The opening of threads.  A key stands for a thread as it was asked for, *)
(* and what a request found stays: threads and records only grow.          *)

kind   == x1
keyed  == x2
joined == x3
oldest == x4
idem   == x5
group  == x6
pc     == x7
asked  == x8
USE DEF kind, keyed, joined, oldest, idem, group, pc, asked

CreateRows  == [kind : {"DIRECT", "GROUP"}, who : SUBSET People, by : People, key : Names,
                thread : Opening!Threads \cup {Opening!NoThread}]
ContextRows == [kind : {"CONTEXTUAL"}, who : SUBSET People, by : People,
                thread : Opening!Threads \cup {Opening!NoThread}]
RecordRows  == [kind : {"DIRECT", "GROUP"}, who : SUBSET People, thread : Opening!Threads]

Creates(r)  == asked[r] \in CreateRows /\ asked[r].by \in asked[r].who
Contexts(r) == asked[r] \in ContextRows /\ asked[r].by \in asked[r].who

ThreadsSound ==
    /\ kind \in [Opening!Threads -> {"NONE", "DIRECT", "GROUP", "CONTEXTUAL"}]
    /\ keyed \in [Opening!Threads -> BOOLEAN] /\ joined \in [Opening!Threads -> SUBSET People]
    /\ oldest # Opening!NoThread => oldest \in Opening!Threads /\ kind[oldest] = "CONTEXTUAL"
    /\ group \in SUBSET People

\* A key stands for a thread as it was asked for.
RecordsSound ==
    /\ DOMAIN idem = People \X Names
    /\ \A p \in People \X Names : idem[p] # Opening!NoRecord =>
          /\ idem[p] \in RecordRows
          /\ kind[idem[p].thread] = idem[p].kind
          /\ joined[idem[p].thread] = idem[p].who

Taken(r) == Opening!Recorded(r) # Opening!NoRecord /\ ~Opening!SameRequest(Opening!Recorded(r), asked[r])

\* What a request knows at the place it has reached.
Stands(r) ==
    /\ pc[r] \in {"lookup", "find", "attach", "insert", "again", "record", "refused"} => Creates(r)
    /\ pc[r] \in {"context", "join", "open"} => Contexts(r)
    /\ pc[r] = "done" => Creates(r) \/ Contexts(r)
    /\ pc[r] \in {"find", "attach", "again", "record"} => asked[r].kind = "DIRECT"
    /\ pc[r] \in {"attach", "record"} => asked[r].thread \in Opening!Directs(asked[r].who)
    /\ pc[r] = "insert" /\ asked[r].kind = "DIRECT" => \A t \in Opening!Directs(asked[r].who) : keyed[t]
    /\ pc[r] = "again" => Opening!Directs(asked[r].who) # {} \/ Taken(r)
    /\ pc[r] = "join" => asked[r].thread \in Opening!Threads /\ kind[asked[r].thread] = "CONTEXTUAL"
    /\ pc[r] = "refused" /\ asked[r].kind = "DIRECT" => Taken(r)
    /\ pc[r] = "done" => /\ asked[r].thread \in Opening!Threads /\ kind[asked[r].thread] = asked[r].kind
                         /\ asked[r].by \in joined[asked[r].thread]
                         /\ asked[r].kind # "CONTEXTUAL" => joined[asked[r].thread] = asked[r].who

\* The thread of a request is there when the request is done, a GROUP under its key.
Made(r) ==
    /\ kind[r] # "NONE" => pc[r] = "done"
    /\ kind[r] = "GROUP" => Creates(r) /\ Opening!Recorded(r) # Opening!NoRecord /\ Opening!Recorded(r).thread = r

OpenersSound ==
    /\ DOMAIN pc = Requests /\ DOMAIN asked = Requests
    /\ \A r \in Requests : Stands(r) /\ Made(r)

OpeningInv == Opening!Wellformed /\ ThreadsSound /\ RecordsSound /\ OpenersSound /\ Opening!OneDirectPerPair

-----------------------------------------------------------------------------
(* What every step leaves standing for the other requests.                 *)

ThreadsGrow ==
    /\ \A t \in Opening!Threads :
          kind[t] # "NONE" =>
             /\ kind'[t] = kind[t] /\ joined[t] \subseteq joined'[t]
             /\ kind[t] # "CONTEXTUAL" => joined'[t] = joined[t]
             /\ keyed[t] => keyed'[t]
    /\ \A t \in Opening!Threads : kind[t] = "NONE" /\ kind'[t] = "DIRECT" => keyed'[t]

RecordsGrow == \A p \in People \X Names : idem[p] # Opening!NoRecord => idem'[p] = idem[p]

Grows == ThreadsGrow /\ RecordsGrow

\* A step of another request, or of the group.
Elsewhere(r) == Grows /\ pc'[r] = pc[r] /\ asked'[r] = asked[r]

LEMMA OthersStand ==
    ASSUME OpeningInv, ThreadsSound', NEW r \in Requests, Elsewhere(r), kind'[r] = kind[r]
    PROVE  Stands(r)' /\ Made(r)'
  <1> USE DEF OpeningInv, ThreadsSound
  <1>1. Stands(r) /\ Made(r)
    BY DEF OpenersSound
  <1>2. (Creates(r)' <=> Creates(r)) /\ (Contexts(r)' <=> Contexts(r))
    BY DEF Creates, Contexts, Elsewhere
  <1>3. Creates(r) /\ Opening!Recorded(r) # Opening!NoRecord => Opening!Recorded(r)' = Opening!Recorded(r)
    BY DEF Creates, CreateRows, Opening!Recorded, Opening!Name, Elsewhere, Grows, ThreadsGrow, RecordsGrow
  <1>4. Opening!Directs(asked[r].who) \subseteq Opening!Directs(asked[r].who)'
    BY DEF Opening!Directs, Elsewhere, Grows, ThreadsGrow, RecordsGrow
  <1>5. (\A t \in Opening!Directs(asked[r].who) : keyed[t]) => (\A t \in Opening!Directs(asked[r].who)' : keyed'[t])
    BY DEF Opening!Directs, Elsewhere, Grows, ThreadsGrow, RecordsGrow
  <1>6. Creates(r) /\ Taken(r) => Taken(r)'
    BY <1>3 DEF Taken, Opening!SameRequest, Elsewhere
  <1>7. Made(r)'
    BY <1>1, <1>2, <1>3 DEF Made, Elsewhere
  <1>8. pc[r] = "done" => asked[r].kind # "NONE"
    BY <1>1 DEF Stands, Creates, Contexts, CreateRows, ContextRows
  <1>9. Stands(r)'
    BY <1>1, <1>2, <1>4, <1>5, <1>6, <1>8 DEF Stands, Elsewhere, Grows, ThreadsGrow, RecordsGrow
  <1> QED
    BY <1>7, <1>9

\* The step of request r: what it must show of itself.
Only(r) ==
    /\ DOMAIN pc' = Requests /\ DOMAIN asked' = Requests
    /\ \A q \in Requests \ {r} : pc'[q] = pc[q] /\ asked'[q] = asked[q]

LEMMA OneStands ==
    ASSUME OpeningInv, NEW r \in Requests, Only(r), Grows, ThreadsSound', RecordsSound',
           Opening!OneDirectPerPair', \A q \in Requests \ {r} : kind'[q] = kind[q],
           Stands(r)', Made(r)'
    PROVE  OpeningInv'
  <1>1. \A q \in Requests \ {r} : Stands(q)' /\ Made(q)'
    BY OthersStand DEF Only, Elsewhere
  <1>2. OpenersSound'
    BY <1>1 DEF OpenersSound, Only
  <1> QED
    BY <1>2 DEF OpeningInv, Opening!Wellformed

\* A step that only looks.
LEMMA LookKeeps ==
    ASSUME OpeningInv, NEW r \in Requests, Only(r), UNCHANGED <<Opening!threads, idem, group>>,
           pc[r] # "done", Stands(r)'
    PROVE  OpeningInv'
  <1> USE DEF Opening!threads
  <1>1. ThreadsSound' /\ RecordsSound'
    BY DEF OpeningInv, ThreadsSound, RecordsSound
  <1>2. Opening!OneDirectPerPair'
    BY DEF OpeningInv, Opening!OneDirectPerPair
  <1>3. Grows
    BY DEF Grows, ThreadsGrow, RecordsGrow
  <1>4. Made(r)'
    BY DEF Made, OpeningInv, OpenersSound
  <1> QED
    BY <1>1, <1>2, <1>3, <1>4, OneStands

-----------------------------------------------------------------------------
(* The steps of create.                                                    *)

LEMMA ArriveKeeps ==
    ASSUME OpeningInv, NEW r \in Requests, Opening!Arrive(r)
    PROVE  OpeningInv'
  <1>1. PICK u \in People, k \in Names, kd \in {"DIRECT", "GROUP"}, others \in SUBSET People :
           asked' = [asked EXCEPT ![r] = [kind |-> kd, who |-> others \cup {u},
                                      by |-> u, key |-> k, thread |-> Opening!NoThread]]
    BY DEF Opening!Arrive
  <1>2. pc[r] = "idle" /\ pc' = [pc EXCEPT ![r] = "lookup"] /\ UNCHANGED <<Opening!threads, idem, group>>
    BY DEF Opening!Arrive, Opening!Go
  <1>3. Creates(r)' /\ pc'[r] = "lookup"
    BY <1>1, <1>2 DEF Creates, CreateRows, OpeningInv, OpenersSound
  <1>4. Stands(r)'
    BY <1>3 DEF Stands
  <1>5. Only(r)
    BY <1>1, <1>2 DEF Only, OpeningInv, OpenersSound
  <1> QED
    BY <1>2, <1>4, <1>5, LookKeeps

LEMMA ReplayKeeps ==
    ASSUME OpeningInv, NEW r \in Requests, Opening!Replay(r)
    PROVE  OpeningInv'
  <1> DEFINE x == Opening!Recorded(r)
  <1>1. /\ pc[r] = "lookup" /\ Creates(r) /\ x # Opening!NoRecord
        /\ UNCHANGED <<Opening!threads, idem, group>>
    BY DEF Opening!Replay, OpeningInv, OpenersSound, Stands
  <1>2. /\ x \in RecordRows /\ kind[x.thread] = x.kind /\ joined[x.thread] = x.who
    BY <1>1 DEF OpeningInv, RecordsSound, Opening!Recorded, Opening!Name, Creates, CreateRows
  <1>3. CASE Opening!SameRequest(x, asked[r])
    <2>1. /\ pc' = [pc EXCEPT ![r] = "done"] /\ asked' = [asked EXCEPT ![r].thread = x.thread]
      BY <1>3 DEF Opening!Replay, Opening!Answer, Opening!Go
    <2>2. Only(r) /\ pc'[r] = "done" /\ Creates(r)' /\ asked'[r].thread = x.thread
          /\ asked'[r].by = asked[r].by /\ asked'[r].who = asked[r].who /\ asked'[r].kind = asked[r].kind
      BY <1>1, <1>2, <2>1 DEF Only, Creates, CreateRows, RecordRows, OpeningInv, OpenersSound
    <2>3. Stands(r)'
      BY <1>1, <1>2, <1>3, <2>2
      DEF Stands, Opening!SameRequest, Creates, CreateRows, RecordRows, Opening!threads
    <2> QED
      BY <1>1, <2>2, <2>3, LookKeeps
  <1>4. CASE ~Opening!SameRequest(x, asked[r])
    <2>1. /\ pc' = [pc EXCEPT ![r] = "refused"] /\ UNCHANGED asked
      BY <1>4 DEF Opening!Replay, Opening!Go
    <2>2. Only(r) /\ pc'[r] = "refused"
      BY <2>1 DEF Only, OpeningInv, OpenersSound
    <2>3. Stands(r)'
      BY <1>1, <1>4, <2>1, <2>2 DEF Stands, Taken, Opening!Recorded, Opening!Name, Creates
    <2> QED
      BY <1>1, <2>2, <2>3, LookKeeps
  <1> QED
    BY <1>3, <1>4

LEMMA LookUpKeeps ==
    ASSUME OpeningInv, NEW r \in Requests, Opening!LookUp(r)
    PROVE  OpeningInv'
  <1>1. /\ pc[r] = "lookup" /\ Creates(r) /\ UNCHANGED <<Opening!threads, idem, group, asked>>
        /\ pc' = [pc EXCEPT ![r] = IF asked[r].kind = "DIRECT" THEN "find" ELSE "insert"]
    BY DEF Opening!LookUp, Opening!Go, OpeningInv, OpenersSound, Stands
  <1>2. Only(r) /\ pc'[r] = IF asked[r].kind = "DIRECT" THEN "find" ELSE "insert"
    BY <1>1 DEF Only, OpeningInv, OpenersSound
  <1>3. Stands(r)'
    BY <1>1, <1>2 DEF Stands, Creates
  <1> QED
    BY <1>1, <1>2, <1>3, LookKeeps

LEMMA FindKeeps ==
    ASSUME OpeningInv, NEW r \in Requests, Opening!Find(r)
    PROVE  OpeningInv'
  <1>1. /\ pc[r] = "find" /\ Creates(r) /\ asked[r].kind = "DIRECT"
        /\ UNCHANGED <<Opening!threads, idem, group>>
    BY DEF Opening!Find, OpeningInv, OpenersSound, Stands
  <1>2. ASSUME NEW t \in Opening!Directs(asked[r].who), asked' = [asked EXCEPT ![r].thread = t], Opening!Go(r, "attach")
        PROVE  OpeningInv'
    <2>1. Only(r) /\ pc'[r] = "attach" /\ Creates(r)' /\ asked'[r].thread = t
          /\ asked'[r].who = asked[r].who /\ asked'[r].kind = asked[r].kind
      BY <1>1, <1>2 DEF Only, Opening!Go, Creates, CreateRows, Opening!Directs, OpeningInv, OpenersSound
    <2>2. Stands(r)'
      BY <1>1, <2>1 DEF Stands, Opening!Directs, Opening!threads
    <2> QED
      BY <1>1, <2>1, <2>2, LookKeeps
  <1>3. ASSUME Opening!Directs(asked[r].who) = {}, Opening!Go(r, "insert"), UNCHANGED asked
        PROVE  OpeningInv'
    <2>1. Only(r) /\ pc'[r] = "insert"
      BY <1>3 DEF Only, Opening!Go, OpeningInv, OpenersSound
    <2>2. Stands(r)'
      BY <1>1, <1>3, <2>1 DEF Stands, Opening!Directs, Opening!threads, Creates
    <2> QED
      BY <1>1, <2>1, <2>2, LookKeeps
  <1> QED
    BY <1>2, <1>3 DEF Opening!Find

LEMMA InsertFailsKeeps ==
    ASSUME OpeningInv, NEW r \in Requests, Opening!InsertFails(r)
    PROVE  OpeningInv'
  <1>1. /\ pc[r] = "insert" /\ Creates(r) /\ ~Opening!Insertable(r)
        /\ UNCHANGED <<Opening!threads, idem, group, asked>>
        /\ pc' = [pc EXCEPT ![r] = IF asked[r].kind = "DIRECT" THEN "again" ELSE "refused"]
    BY DEF Opening!InsertFails, Opening!Go, OpeningInv, OpenersSound, Stands
  <1>2. Only(r) /\ pc'[r] = IF asked[r].kind = "DIRECT" THEN "again" ELSE "refused"
    BY <1>1 DEF Only, OpeningInv, OpenersSound
  <1>3. Opening!Recorded(r) # Opening!NoRecord =>
           /\ Opening!Recorded(r) \in RecordRows /\ kind[Opening!Recorded(r).thread] = Opening!Recorded(r).kind
           /\ joined[Opening!Recorded(r).thread] = Opening!Recorded(r).who
    BY <1>1 DEF OpeningInv, RecordsSound, Opening!Recorded, Opening!Name, Creates, CreateRows
  <1>4. asked[r].kind = "DIRECT" => Opening!Directs(asked[r].who) # {} \/ Taken(r)
    BY <1>1, <1>3 DEF Opening!Insertable, Opening!Directs, Taken, Opening!SameRequest, RecordRows
  <1>5. (Opening!Directs(asked[r].who) # {} \/ Taken(r)) => (Opening!Directs(asked[r].who) # {} \/ Taken(r))'
    BY <1>1 DEF Opening!Directs, Taken, Opening!Recorded, Opening!Name, Opening!threads
  <1>6. Stands(r)'
    BY <1>1, <1>2, <1>4, <1>5 DEF Stands, Creates
  <1> QED
    BY <1>1, <1>2, <1>6, LookKeeps

LEMMA FindAgainKeeps ==
    ASSUME OpeningInv, NEW r \in Requests, Opening!FindAgain(r)
    PROVE  OpeningInv'
  <1>1. /\ pc[r] = "again" /\ Creates(r) /\ asked[r].kind = "DIRECT"
        /\ Opening!Directs(asked[r].who) # {} \/ Taken(r)
        /\ UNCHANGED <<Opening!threads, idem, group>>
    BY DEF Opening!FindAgain, OpeningInv, OpenersSound, Stands
  <1>2. ASSUME NEW t \in Opening!Directs(asked[r].who), asked' = [asked EXCEPT ![r].thread = t], Opening!Go(r, "record")
        PROVE  OpeningInv'
    <2>1. Only(r) /\ pc'[r] = "record" /\ Creates(r)' /\ asked'[r].thread = t
          /\ asked'[r].who = asked[r].who /\ asked'[r].kind = asked[r].kind
      BY <1>1, <1>2 DEF Only, Opening!Go, Creates, CreateRows, Opening!Directs, OpeningInv, OpenersSound
    <2>2. Stands(r)'
      BY <1>1, <2>1 DEF Stands, Opening!Directs, Opening!threads
    <2> QED
      BY <1>1, <2>1, <2>2, LookKeeps
  <1>3. ASSUME Opening!Directs(asked[r].who) = {}, Opening!Go(r, "refused"), UNCHANGED asked
        PROVE  OpeningInv'
    <2>1. Only(r) /\ pc'[r] = "refused"
      BY <1>3 DEF Only, Opening!Go, OpeningInv, OpenersSound
    <2>2. Stands(r)'
      BY <1>1, <1>3, <2>1 DEF Stands, Taken, Opening!Recorded, Opening!Name, Creates
    <2> QED
      BY <1>1, <2>1, <2>2, LookKeeps
  <1> QED
    BY <1>2, <1>3 DEF Opening!FindAgain

\* A record is kept; a new one is of a thread as it was asked for.
LEMMA RecordKeeps ==
    ASSUME OpeningInv, NEW r \in Requests, Creates(r), NEW t \in Opening!Threads, Opening!Record(r, t), ThreadsGrow,
           kind'[t] = asked[r].kind, joined'[t] = asked[r].who
    PROVE  /\ RecordsSound' /\ RecordsGrow
           /\ idem'[Opening!Name(r)] # Opening!NoRecord
           /\ Opening!Recorded(r) = Opening!NoRecord => idem'[Opening!Name(r)].thread = t
  <1> DEFINE new == [kind |-> asked[r].kind, who |-> asked[r].who, thread |-> t]
  <1>1. Opening!Name(r) \in People \X Names /\ new \in RecordRows /\ new # Opening!NoRecord
    BY DEF Creates, CreateRows, Opening!Name, RecordRows, Opening!NoRecord
  <1>2. DOMAIN idem = People \X Names
    BY DEF OpeningInv, RecordsSound
  <1>3. idem' = IF Opening!Recorded(r) # Opening!NoRecord THEN idem ELSE [idem EXCEPT ![Opening!Name(r)] = new]
    BY DEF Opening!Record
  <1>4. \A p \in People \X Names : idem[p] # Opening!NoRecord =>
           /\ idem[p] \in RecordRows
           /\ kind'[idem[p].thread] = idem[p].kind
           /\ joined'[idem[p].thread] = idem[p].who
    BY DEF OpeningInv, RecordsSound, ThreadsGrow, RecordRows
  <1>5. CASE Opening!Recorded(r) # Opening!NoRecord
    BY <1>1, <1>2, <1>3, <1>4, <1>5 DEF RecordsSound, RecordsGrow, Opening!Recorded
  <1>6. CASE Opening!Recorded(r) = Opening!NoRecord
    <2>1. DOMAIN idem' = People \X Names
      BY <1>2, <1>3, <1>6
    <2>2. idem'[Opening!Name(r)] = new /\ \A p \in People \X Names : p # Opening!Name(r) => idem'[p] = idem[p]
      BY <1>1, <1>2, <1>3, <1>6
    <2>3. RecordsGrow
      BY <1>6, <2>2 DEF RecordsGrow, Opening!Recorded
    <2>4. \A p \in People \X Names : idem'[p] # Opening!NoRecord =>
             /\ idem'[p] \in RecordRows
             /\ kind'[idem'[p].thread] = idem'[p].kind
             /\ joined'[idem'[p].thread] = idem'[p].who
      BY <1>1, <1>4, <2>2
    <2>5. RecordsSound'
      BY <2>1, <2>4 DEF RecordsSound
    <2> QED
      BY <1>1, <2>2, <2>3, <2>5
  <1> QED
    BY <1>5, <1>6

\* The thread of the pair answers, and gets its key if it had none.
LEMMA AnswersDirect ==
    ASSUME OpeningInv, NEW r \in Requests, pc[r] \in {"attach", "record"}, Opening!Record(r, asked[r].thread),
           keyed' \in {keyed, [keyed EXCEPT ![asked[r].thread] = TRUE]},
           Opening!Go(r, "done"), UNCHANGED <<kind, joined, oldest, group, asked>>
    PROVE  OpeningInv'
  <1> DEFINE t == asked[r].thread
  <1>1. Creates(r) /\ asked[r].kind = "DIRECT" /\ t \in Opening!Directs(asked[r].who)
    BY DEF OpeningInv, OpenersSound, Stands
  <1>2. t \in Opening!Threads /\ kind[t] = "DIRECT" /\ joined[t] = asked[r].who
    BY <1>1 DEF Opening!Directs
  <1>3. ThreadsSound' /\ ThreadsGrow
    BY <1>2 DEF OpeningInv, ThreadsSound, ThreadsGrow
  <1>4. RecordsSound' /\ RecordsGrow
    BY <1>1, <1>2, <1>3, RecordKeeps
  <1>5. Opening!OneDirectPerPair'
    BY DEF OpeningInv, Opening!OneDirectPerPair
  <1>6. Only(r) /\ pc'[r] = "done"
    BY DEF Only, Opening!Go, OpeningInv, OpenersSound
  <1>7. Stands(r)'
    BY <1>1, <1>2, <1>6 DEF Stands, Creates
  <1>8. kind[r] = "NONE"
    BY DEF OpeningInv, OpenersSound, Made
  <1>9. Made(r)'
    BY <1>8 DEF Made
  <1> QED
    BY <1>3, <1>4, <1>5, <1>6, <1>7, <1>9, OneStands DEF Grows

LEMMA InsertKeeps ==
    ASSUME OpeningInv, NEW r \in Requests, Opening!Insert(r)
    PROVE  OpeningInv'
  <1>1. /\ pc[r] = "insert" /\ Creates(r) /\ Opening!Insertable(r) /\ kind[r] = "NONE"
        /\ asked[r].kind = "DIRECT" => \A t \in Opening!Directs(asked[r].who) : keyed[t]
        /\ r \in Opening!Threads /\ r # Opening!NoThread
    BY DEF Opening!Insert, OpeningInv, OpenersSound, Stands, Made, Opening!Threads, Opening!Wellformed
  <1>2. /\ kind' = [kind EXCEPT ![r] = asked[r].kind]
        /\ keyed' = [keyed EXCEPT ![r] = (asked[r].kind = "DIRECT")]
        /\ joined' = [joined EXCEPT ![r] = asked[r].who]
        /\ Opening!Record(r, r) /\ UNCHANGED <<oldest, group>>
        /\ pc' = [pc EXCEPT ![r] = "done"] /\ asked' = [asked EXCEPT ![r].thread = r]
    BY DEF Opening!Insert, Opening!Answer, Opening!Go
  <1>3. /\ asked[r].kind \in {"DIRECT", "GROUP"} /\ asked[r].who \in SUBSET People
        /\ asked[r].by \in asked[r].who
    BY <1>1 DEF Creates, CreateRows
  <1>4. /\ kind'[r] = asked[r].kind /\ joined'[r] = asked[r].who /\ keyed'[r] = (asked[r].kind = "DIRECT")
        /\ \A t \in Opening!Threads \ {r} : kind'[t] = kind[t] /\ joined'[t] = joined[t] /\ keyed'[t] = keyed[t]
    BY <1>1, <1>2 DEF OpeningInv, ThreadsSound
  <1>5. ThreadsGrow
    BY <1>1, <1>4 DEF ThreadsGrow
  <1>6. ThreadsSound'
    <2>1. oldest' # Opening!NoThread => oldest' \in Opening!Threads /\ kind'[oldest'] = "CONTEXTUAL"
      BY <1>1, <1>2, <1>4 DEF OpeningInv, ThreadsSound
    <2> QED
      BY <1>1, <1>2, <1>3, <2>1 DEF OpeningInv, ThreadsSound
  <1>7. /\ RecordsSound' /\ RecordsGrow /\ idem'[Opening!Name(r)] # Opening!NoRecord /\ idem'[Opening!Name(r)].thread = r
    BY <1>1, <1>2, <1>4, <1>5, RecordKeeps DEF Opening!Insertable
  <1>8. asked[r].kind = "DIRECT" => Opening!Directs(asked[r].who) = {}
    BY <1>1 DEF Opening!Insertable
  <1>9. Opening!OneDirectPerPair'
    BY <1>1, <1>4, <1>8 DEF Opening!OneDirectPerPair, Opening!Directs, OpeningInv
  <1>10. /\ Only(r) /\ pc'[r] = "done" /\ Creates(r)' /\ asked'[r].thread = r
         /\ asked'[r].kind = asked[r].kind /\ asked'[r].who = asked[r].who
         /\ asked'[r].by = asked[r].by /\ asked'[r].key = asked[r].key
    BY <1>1, <1>2 DEF Only, Creates, CreateRows, OpeningInv, OpenersSound
  <1>11. Stands(r)'
    BY <1>1, <1>3, <1>4, <1>10 DEF Stands
  <1>12. Made(r)'
    BY <1>7, <1>10 DEF Made, Opening!Recorded, Opening!Name
  <1> QED
    BY <1>4, <1>5, <1>6, <1>7, <1>9, <1>10, <1>11, <1>12, OneStands DEF Grows, Opening!Threads

-----------------------------------------------------------------------------
(* The steps of groupThread.                                               *)

LEMMA GroupJoinKeeps ==
    ASSUME OpeningInv, NEW u \in People, Opening!GroupJoin(u)
    PROVE  OpeningInv'
  <1>1. UNCHANGED <<kind, keyed, joined, oldest, idem, pc, asked>> /\ group' = group \cup {u}
    BY DEF Opening!GroupJoin, Opening!threads
  <1>2. ThreadsSound' /\ RecordsSound' /\ Opening!OneDirectPerPair'
    BY <1>1 DEF OpeningInv, ThreadsSound, RecordsSound, Opening!OneDirectPerPair
  <1>3. \A r \in Requests : Stands(r)' /\ Made(r)'
    BY <1>1, <1>2, OthersStand DEF Elsewhere, Grows, ThreadsGrow, RecordsGrow
  <1> QED
    BY <1>1, <1>2, <1>3 DEF OpeningInv, OpenersSound, Opening!Wellformed

LEMMA ArriveContextKeeps ==
    ASSUME OpeningInv, NEW r \in Requests, Opening!ArriveContext(r)
    PROVE  OpeningInv'
  <1>1. PICK u \in group :
           asked' = [asked EXCEPT ![r] = [kind |-> "CONTEXTUAL", who |-> group,
                                      by |-> u, thread |-> Opening!NoThread]]
    BY DEF Opening!ArriveContext
  <1>2. pc[r] = "idle" /\ pc' = [pc EXCEPT ![r] = "context"] /\ UNCHANGED <<Opening!threads, idem, group>>
    BY DEF Opening!ArriveContext, Opening!Go
  <1>3. Contexts(r)' /\ pc'[r] = "context" /\ Only(r)
    BY <1>1, <1>2 DEF Contexts, ContextRows, Only, OpeningInv, ThreadsSound, OpenersSound
  <1>4. Stands(r)'
    BY <1>3 DEF Stands
  <1> QED
    BY <1>2, <1>3, <1>4, LookKeeps

LEMMA ReadContextKeeps ==
    ASSUME OpeningInv, NEW r \in Requests, Opening!ReadContext(r)
    PROVE  OpeningInv'
  <1>1. /\ pc[r] = "context" /\ Contexts(r) /\ oldest \in Opening!Threads /\ kind[oldest] = "CONTEXTUAL"
        /\ UNCHANGED <<Opening!threads, idem, group>>
    BY DEF Opening!ReadContext, OpeningInv, ThreadsSound, OpenersSound, Stands
  <1>2. /\ asked' = [asked EXCEPT ![r].thread = oldest]
        /\ pc' = [pc EXCEPT ![r] = IF asked[r].by \in joined[oldest] THEN "done" ELSE "join"]
    BY DEF Opening!ReadContext, Opening!Go
  <1>3. /\ Only(r) /\ Contexts(r)' /\ asked'[r].thread = oldest /\ asked'[r].by = asked[r].by
        /\ asked'[r].kind = "CONTEXTUAL"
        /\ pc'[r] = IF asked[r].by \in joined[oldest] THEN "done" ELSE "join"
    BY <1>1, <1>2 DEF Only, Contexts, ContextRows, OpeningInv, OpenersSound
  <1>4. Stands(r)'
    BY <1>1, <1>3 DEF Stands, Opening!threads
  <1> QED
    BY <1>1, <1>3, <1>4, LookKeeps

LEMMA ContextMissingKeeps ==
    ASSUME OpeningInv, NEW r \in Requests, Opening!ContextMissing(r)
    PROVE  OpeningInv'
  <1>1. /\ pc[r] = "context" /\ Contexts(r) /\ UNCHANGED <<Opening!threads, idem, group, asked>>
        /\ pc' = [pc EXCEPT ![r] = "open"]
    BY DEF Opening!ContextMissing, Opening!Go, OpeningInv, OpenersSound, Stands
  <1>2. Only(r) /\ pc'[r] = "open" /\ Contexts(r)'
    BY <1>1 DEF Only, Contexts, OpeningInv, OpenersSound
  <1>3. Stands(r)'
    BY <1>2 DEF Stands
  <1> QED
    BY <1>1, <1>2, <1>3, LookKeeps

LEMMA JoinKeeps ==
    ASSUME OpeningInv, NEW r \in Requests, Opening!Join(r)
    PROVE  OpeningInv'
  <1> DEFINE t == asked[r].thread
  <1>1. /\ pc[r] = "join" /\ Contexts(r) /\ t \in Opening!Threads /\ kind[t] = "CONTEXTUAL"
        /\ joined' = [joined EXCEPT ![t] = @ \cup {asked[r].by}]
        /\ pc' = [pc EXCEPT ![r] = "done"]
        /\ UNCHANGED <<kind, keyed, oldest, idem, group, asked>>
    BY DEF Opening!Join, Opening!Go, OpeningInv, OpenersSound, Stands
  <1>2. /\ joined'[t] = joined[t] \cup {asked[r].by} /\ asked[r].by \in People
        /\ \A o \in Opening!Threads \ {t} : joined'[o] = joined[o]
    BY <1>1 DEF Contexts, ContextRows, OpeningInv, ThreadsSound
  <1>3. ThreadsSound'
    BY <1>1, <1>2 DEF OpeningInv, ThreadsSound
  <1>4. Grows
    BY <1>1, <1>2 DEF Grows, ThreadsGrow, RecordsGrow
  <1>5. RecordsSound'
    BY <1>1, <1>2 DEF OpeningInv, RecordsSound, RecordRows
  <1>6. Opening!OneDirectPerPair'
    BY <1>1, <1>2 DEF OpeningInv, Opening!OneDirectPerPair
  <1>7. Only(r) /\ pc'[r] = "done" /\ Contexts(r)'
    BY <1>1 DEF Only, Contexts, OpeningInv, OpenersSound
  <1>8. Stands(r)'
    BY <1>1, <1>2, <1>7 DEF Stands, Contexts, ContextRows
  <1>9. Made(r)'
    BY <1>1 DEF Made, OpeningInv, OpenersSound
  <1> QED
    BY <1>1, <1>3, <1>4, <1>5, <1>6, <1>7, <1>8, <1>9, OneStands

LEMMA OpenKeeps ==
    ASSUME OpeningInv, NEW r \in Requests, Opening!Open(r)
    PROVE  OpeningInv'
  <1>1. /\ pc[r] = "open" /\ Contexts(r) /\ kind[r] = "NONE" /\ r \in Opening!Threads /\ r # Opening!NoThread
        /\ asked[r].kind = "CONTEXTUAL" /\ asked[r].who \in SUBSET People /\ asked[r].by \in asked[r].who
    BY DEF Opening!Open, OpeningInv, OpenersSound, Stands, Made, Contexts, ContextRows, Opening!Threads, Opening!Wellformed
  <1>2. /\ kind' = [kind EXCEPT ![r] = "CONTEXTUAL"]
        /\ joined' = [joined EXCEPT ![r] = asked[r].who]
        /\ oldest' = IF oldest = Opening!NoThread THEN r ELSE oldest
        /\ pc' = [pc EXCEPT ![r] = "done"] /\ asked' = [asked EXCEPT ![r].thread = r]
        /\ UNCHANGED <<keyed, idem, group>>
    BY DEF Opening!Open, Opening!Answer, Opening!Go
  <1>3. /\ kind'[r] = "CONTEXTUAL" /\ joined'[r] = asked[r].who
        /\ \A t \in Opening!Threads \ {r} : kind'[t] = kind[t] /\ joined'[t] = joined[t]
    BY <1>1, <1>2 DEF OpeningInv, ThreadsSound
  <1>4. ThreadsSound'
    <2>1. oldest' # Opening!NoThread => oldest' \in Opening!Threads /\ kind'[oldest'] = "CONTEXTUAL"
      BY <1>1, <1>2, <1>3 DEF OpeningInv, ThreadsSound
    <2> QED
      BY <1>1, <1>2, <2>1 DEF OpeningInv, ThreadsSound
  <1>5. Grows
    BY <1>1, <1>2, <1>3 DEF Grows, ThreadsGrow, RecordsGrow
  <1>6. RecordsSound'
    BY <1>1, <1>2, <1>3 DEF OpeningInv, RecordsSound, RecordRows
  <1>7. Opening!OneDirectPerPair'
    BY <1>1, <1>3 DEF OpeningInv, Opening!OneDirectPerPair
  <1>8. /\ Only(r) /\ pc'[r] = "done" /\ Contexts(r)' /\ asked'[r].thread = r
        /\ asked'[r].kind = "CONTEXTUAL" /\ asked'[r].by = asked[r].by
    BY <1>1, <1>2 DEF Only, Contexts, ContextRows, OpeningInv, OpenersSound
  <1>9. Stands(r)'
    BY <1>1, <1>3, <1>8 DEF Stands
  <1>10. Made(r)'
    BY <1>3, <1>8 DEF Made
  <1> QED
    BY <1>3, <1>4, <1>5, <1>6, <1>7, <1>8, <1>9, <1>10, OneStands DEF Opening!Threads

-----------------------------------------------------------------------------
(* The invariant.                                                          *)

LEMMA InitOpening == Opening!Wellformed /\ Opening!Init => OpeningInv
  <1> SUFFICES ASSUME Opening!Wellformed, Opening!Init PROVE OpeningInv
    OBVIOUS
  <1>1. ThreadsSound
    BY DEF Opening!Init, Opening!Wellformed, ThreadsSound, Opening!Threads
  <1>2. RecordsSound
    BY DEF Opening!Init, RecordsSound
  <1>3. OpenersSound
    BY DEF Opening!Init, OpenersSound, Stands, Made, Opening!Wellformed, Opening!Threads
  <1>4. Opening!OneDirectPerPair
    BY DEF Opening!Init, Opening!Wellformed, Opening!Threads, Opening!OneDirectPerPair
  <1> QED
    BY <1>1, <1>2, <1>3, <1>4 DEF OpeningInv

LEMMA StepKeepsOpening == OpeningInv /\ (Opening!Next \/ UNCHANGED Opening!vars) => OpeningInv'
  <1> SUFFICES ASSUME OpeningInv, (Opening!Next \/ UNCHANGED Opening!vars) PROVE OpeningInv'
    OBVIOUS
  <1>1. ASSUME NEW r \in Requests, Opening!Create(r) PROVE OpeningInv'
    <2>1. CASE Opening!Attach(r)
      BY <2>1, AnswersDirect DEF Opening!Attach
    <2>2. CASE Opening!RecordWinner(r)
      BY <2>2, AnswersDirect DEF Opening!RecordWinner, Opening!threads
    <2> QED
      BY <1>1, <2>1, <2>2, ArriveKeeps, ReplayKeeps, LookUpKeeps, FindKeeps, InsertKeeps,
         InsertFailsKeeps, FindAgainKeeps
      DEF Opening!Create
  <1>2. ASSUME NEW r \in Requests, Opening!GroupThread(r) PROVE OpeningInv'
    BY <1>2, ArriveContextKeeps, ReadContextKeeps, ContextMissingKeeps, JoinKeeps, OpenKeeps
    DEF Opening!GroupThread
  <1>3. CASE UNCHANGED Opening!vars
    <2>1. UNCHANGED <<kind, keyed, joined, oldest, idem, group, pc, asked>>
      BY <1>3 DEF Opening!vars, Opening!threads
    <2>2. ThreadsSound' /\ RecordsSound' /\ Opening!OneDirectPerPair'
      BY <2>1 DEF OpeningInv, ThreadsSound, RecordsSound, Opening!OneDirectPerPair
    <2>3. \A r \in Requests : Stands(r)' /\ Made(r)'
      BY <2>1, <2>2, OthersStand DEF Elsewhere, Grows, ThreadsGrow, RecordsGrow
    <2> QED
      BY <2>1, <2>2, <2>3 DEF OpeningInv, OpenersSound, Opening!Wellformed
  <1> QED
    BY <1>1, <1>2, <1>3, GroupJoinKeeps DEF Opening!Next

LEMMA OpeningsFollow ==
    OpeningInv => /\ Opening!OneDirectPerPair /\ Opening!OneGroupPerKey
                  /\ Opening!AnswersFit /\ Opening!DirectRefusedForKeyOnly
  <1> SUFFICES ASSUME OpeningInv
               PROVE  /\ Opening!OneDirectPerPair /\ Opening!OneGroupPerKey
                      /\ Opening!AnswersFit /\ Opening!DirectRefusedForKeyOnly
    OBVIOUS
  <1>1. Opening!OneGroupPerKey
    <2> SUFFICES ASSUME NEW t \in Requests, NEW u \in Requests,
                        kind[t] = "GROUP", kind[u] = "GROUP", Opening!Name(t) = Opening!Name(u)
                 PROVE  t = u
      BY DEF Opening!OneGroupPerKey, Opening!Name
    <2>1. Opening!Recorded(t).thread = t /\ Opening!Recorded(u).thread = u
      BY DEF OpeningInv, OpenersSound, Made
    <2> QED
      BY <2>1 DEF Opening!Recorded
  <1>2. Opening!AnswersFit
    BY DEF OpeningInv, Opening!Wellformed, Opening!Threads, OpenersSound, Stands, Opening!AnswersFit
  <1>3. Opening!DirectRefusedForKeyOnly
    BY DEF OpeningInv, OpenersSound, Stands, Taken, Opening!DirectRefusedForKeyOnly
  <1> QED
    BY <1>1, <1>2, <1>3 DEF OpeningInv

\* However many requests open threads at once, and whichever threads without a key
\* were stored before: two people share one direct thread, one key makes one group
\* thread, an answer is a thread of the kind and the people asked for with the caller
\* in it, and a direct request is refused only for a key that stands for another.
THEOREM OpeningsSound == Spec => []OpeningsMeet
  <1> DEFINE Inv == focus = "opening" => OpeningInv
  <1>1. Init => Inv
    BY InitOpening, OpeningAssumption DEF Init
  <1>2. Inv /\ [Next]_vars => Inv'
    BY StepKeepsOpening DEF Next, vars, Opening!vars, Opening!threads
  <1>3. Inv => OpeningsMeet
    BY OpeningsFollow DEF OpeningsMeet
  <1> QED
    BY <1>1, <1>2, <1>3, PTL DEF Spec

-----------------------------------------------------------------------------
(* A thread.  What a handler checked on its snapshot holds at its commit   *)
(* as long as the thread has the version it saw (Standing), because every  *)
(* change of the participants makes a version (Steady).  Messages and read *)
(* cursors are not tied to that version: what is said of them without      *)
(* overlap rests on the one request in flight (Fresh).                     *)

membership    == x1
role          == x2
mode          == x3
lastRead      == x4
rowVersion    == x5
count         == x6
author        == x7
keyOf         == x8
replyTo       == x9
deleted       == x10
msgVersion    == x11
notified      == x12
threadVersion == x13
events        == x14
req           == x15
started       == x16
serial        == x17
USE DEF membership, role, mode, lastRead, rowVersion, count, author, keyOf, replyTo, deleted,
        msgVersion, notified, threadVersion, events, req, started, serial

\* The thread counts as the library does.
LEMMA ThreadCounts == \A S : /\ Thread!Cardinality(S) = Cardinality(S)
                             /\ Thread!IsFiniteSet(S) <=> IsFiniteSet(S)
  BY DEF Cardinality, Thread!Cardinality, IsFiniteSet, Thread!IsFiniteSet

LEMMA CountedType == ASSUME NEW S, Thread!IsFiniteSet(S) PROVE Thread!Cardinality(S) \in Nat
  BY ThreadCounts, FS_CardinalityType

LEMMA CountedSubset ==
    ASSUME NEW S, Thread!IsFiniteSet(S), NEW T \in SUBSET S
    PROVE  Thread!IsFiniteSet(T)
  BY ThreadCounts, FS_Subset

LEMMA CountedEmpty == Thread!Cardinality({}) = 0
  BY ThreadCounts, FS_EmptySet

LEMMA CountedAdd ==
    ASSUME NEW S, NEW x, Thread!IsFiniteSet(S)
    PROVE  Thread!Cardinality(S \cup {x}) =
             IF x \in S THEN Thread!Cardinality(S) ELSE Thread!Cardinality(S) + 1
  BY ThreadCounts, FS_AddElement

LEMMA CountedRemove ==
    ASSUME NEW S, NEW x, Thread!IsFiniteSet(S)
    PROVE  Thread!Cardinality(S \ {x}) =
             IF x \in S THEN Thread!Cardinality(S) - 1 ELSE Thread!Cardinality(S)
  BY ThreadCounts, FS_RemoveElement

LEMMA CountedOne == \A x : Thread!Cardinality({x}) = 1
  BY ThreadCounts, FS_Singleton

Roles   == {"OWNER", "MEMBER"}
Willing == {v \in Thread!Actives : mode[v] = "ALL"}
Posting == {t \in Slots : req[t].op = "post"}

\* A request names what exists.
Requested(r) ==
    /\ r.op \in {"post", "add", "role", "remove", "edit", "delete", "read", "mode"}
    /\ r.op = "post" => r.by \in Everyone /\ r.msg \in Nat /\ r.to \in SUBSET Everyone
    /\ r.op \in {"add", "role", "remove"} => r.on \in Everyone /\ r.seen \in Nat /\ r.seen <= threadVersion
    /\ r.op \in {"add", "role"} => r.role \in Roles
    /\ r.op = "read" => r.by \in Everyone /\ r.msg \in 1..count
    /\ r.op = "mode" => r.by \in Everyone /\ r.mode \in {"ALL", "NONE"}

\* What was checked when a change to the participants began, at the same version.
Standing(r) ==
    r.op \in {"add", "role", "remove"} /\ Thread!Unmoved(r) =>
        /\ r.op = "add" => ~Thread!Active(r.on) /\ Thread!Cardinality(Thread!Actives) < ThreadLimit
        /\ r.op = "role" /\ r.role # "OWNER" => Thread!Dispensable(r.on)
        /\ r.op = "remove" => Thread!Cardinality(Thread!Actives) > 2 /\ Thread!Dispensable(r.on)

RequestsSound ==
    DOMAIN req = Slots /\ \A s \in Slots : req[s] # Thread!None => Requested(req[s]) /\ Standing(req[s])

\* There is room for the posts under way.
Room == DOMAIN keyOf = Thread!Msgs /\ count + Thread!Cardinality(Posting) <= ThreadMessages

OneInFlight == serial => \A s, t \in Slots : req[s] # Thread!None /\ req[t] # Thread!None => s = t

UpToDate(r) ==
    /\ r.op = "post" => r.to = Willing \ {r.by}
    /\ r.op = "read" => r.msg > lastRead[r.by]
Fresh == serial => \A s \in Slots : req[s] # Thread!None => UpToDate(req[s])

\* Each version of the thread has its one event.
Evented ==
    /\ \A e \in events : e[1] \in 1..threadVersion
    /\ \A v \in 1..threadVersion : \E x \in events : {e \in events : e[1] = v} = {x}

ThreadInv == /\ Thread!Wellformed /\ Thread!TypeOK /\ RequestsSound /\ Room /\ OneInFlight /\ Fresh
        /\ Evented /\ Thread!GroupShape /\ Thread!OnePostPerKey

-----------------------------------------------------------------------------
LEMMA ActivesFinite ==
    ASSUME Thread!Wellformed
    PROVE  Thread!IsFiniteSet(Thread!Actives) /\ Thread!Cardinality(Thread!Actives) \in Nat
  BY CountedSubset, CountedType DEF Thread!Wellformed, Thread!Actives

LEMMA PostingFinite ==
    ASSUME Thread!Wellformed
    PROVE  Thread!IsFiniteSet(Posting) /\ Thread!Cardinality(Posting) \in Nat
  BY CountedSubset, CountedType DEF Thread!Wellformed, Posting

LEMMA InitThread == Thread!Wellformed /\ Thread!Init => ThreadInv
  <1> SUFFICES ASSUME Thread!Wellformed, Thread!Init PROVE ThreadInv
    OBVIOUS
  <1>1. Thread!TypeOK
    BY DEF Thread!Init, Thread!TypeOK, Thread!Wellformed, Thread!Msgs
  <1>2. RequestsSound /\ OneInFlight /\ Fresh
    BY DEF Thread!Init, RequestsSound, OneInFlight, Fresh, Thread!None
  <1>3. Room
    <2>1. Posting = {}
      BY DEF Thread!Init, Posting, Thread!None
    <2> QED
      BY <2>1, CountedEmpty DEF Thread!Init, Room, Thread!Wellformed
  <1>4. Evented
    BY DEF Thread!Init, Evented
  <1>5. Thread!GroupShape
    <2>1. Thread!Actives = People
      BY DEF Thread!Init, Thread!Wellformed, Thread!Actives, Thread!Active
    <2>2. Creator \in Thread!Owners
      BY <2>1 DEF Thread!Init, Thread!Wellformed, Thread!Owners
    <2> QED
      BY <2>1, <2>2 DEF Thread!GroupShape, Thread!Wellformed
  <1>6. Thread!OnePostPerKey
    BY DEF Thread!Init, Thread!OnePostPerKey
  <1> QED
    BY <1>1, <1>2, <1>3, <1>4, <1>5, <1>6 DEF ThreadInv

-----------------------------------------------------------------------------
(* Requests come and go.                                                   *)

LEMMA StartKeeps ==
    ASSUME ThreadInv, NEW s \in Slots, NEW r, Thread!Free(s), Thread!Start(s, r), UNCHANGED serial,
           Requested(r), Standing(r), UpToDate(r),
           r.op = "post" => count + Thread!Cardinality(Posting) < ThreadMessages
    PROVE  ThreadInv'
  <1> USE DEF ThreadInv
  <1>1. /\ UNCHANGED <<membership, role, mode, lastRead, rowVersion, threadVersion, events>>
        /\ UNCHANGED <<count, author, keyOf, replyTo, deleted, msgVersion, notified>>
        /\ req[s] = Thread!None /\ started' = started + 1
        /\ DOMAIN req' = Slots /\ req'[s] = r /\ \A t \in Slots \ {s} : req'[t] = req[t]
    BY DEF Thread!Start, Thread!Free, RequestsSound, Thread!members, Thread!messages, Thread!thread
  <1>2. Thread!Wellformed' /\ Thread!TypeOK'
    BY <1>1 DEF Thread!Wellformed, Thread!TypeOK
  <1>3. Evented' /\ Thread!GroupShape' /\ Thread!OnePostPerKey'
    BY <1>1 DEF Evented, Thread!GroupShape, Thread!Owners, Thread!Actives, Thread!Active, Thread!OnePostPerKey
  <1>4. \A x : (Requested(x)' <=> Requested(x)) /\ (Standing(x)' <=> Standing(x))
    BY <1>1 DEF Requested, Standing, Thread!Unmoved, Thread!Dispensable, Thread!Owners, Thread!Actives, Thread!Active
  <1>5. RequestsSound'
    BY <1>1, <1>4 DEF RequestsSound
  <1>6. serial => \A t \in Slots \ {s} : req'[t] = Thread!None
    BY <1>1 DEF Thread!Free
  <1>7. OneInFlight'
    BY <1>6 DEF OneInFlight
  <1>8. UpToDate(r)'
    BY <1>1 DEF UpToDate, Willing, Thread!Actives, Thread!Active
  <1>9. Fresh'
    BY <1>1, <1>6, <1>8 DEF Fresh
  <1>10. Room'
    <2>1. Thread!IsFiniteSet(Posting) /\ Thread!Cardinality(Posting) \in Nat
      BY PostingFinite
    <2>2. Posting' = IF r.op = "post" THEN Posting \cup {s} ELSE Posting
      BY <1>1 DEF Posting, Thread!None
    <2>3. s \notin Posting
      BY <1>1 DEF Posting, Thread!None
    <2>4. Thread!Cardinality(Posting \cup {s}) = Thread!Cardinality(Posting) + 1
      BY <2>1, <2>3, CountedAdd
    <2>5. r.op = "post" => Thread!Cardinality(Posting') = Thread!Cardinality(Posting) + 1
      BY <2>2, <2>4
    <2>6. r.op # "post" => Thread!Cardinality(Posting') = Thread!Cardinality(Posting)
      BY <2>2
    <2>7. count \in Int /\ ThreadMessages \in Int /\ count' = count
      BY <1>1 DEF Thread!TypeOK, Thread!Wellformed
    <2>8. count + Thread!Cardinality(Posting') <= ThreadMessages
      BY <2>1, <2>5, <2>6, <2>7 DEF Room
    <2> QED
      BY <1>1, <2>7, <2>8 DEF Room
  <1> QED
    BY <1>2, <1>3, <1>5, <1>7, <1>9, <1>10

\* Every change of who takes part, and as what, makes a version of the thread.
Steady ==
    /\ threadVersion' \in {threadVersion, threadVersion + 1}
    /\ threadVersion' = threadVersion => UNCHANGED <<membership, role>>

LEMMA DoneKeepsWaiting ==
    ASSUME ThreadInv, NEW s \in Slots, req[s] # Thread!None, Thread!Done(s), UNCHANGED serial, Steady, count' >= count,
           count' \in Nat
    PROVE  /\ RequestsSound' /\ OneInFlight' /\ Fresh'
           /\ Thread!Cardinality(Posting') =
                Thread!Cardinality(Posting) - (IF req[s].op = "post" THEN 1 ELSE 0)
           /\ started' = started
  <1> USE DEF ThreadInv
  <1>1. DOMAIN req' = Slots /\ req'[s] = Thread!None /\ \A t \in Slots \ {s} : req'[t] = req[t]
    BY DEF Thread!Done, RequestsSound
  <1>2. \A x : Requested(x) => Requested(x)'
    BY DEF Requested, Steady, Thread!TypeOK
  <1>3. \A x : Requested(x) /\ Standing(x) => Standing(x)'
    <2>1. \A x : Requested(x) /\ x.op \in {"add", "role", "remove"} /\ Thread!Unmoved(x)' =>
             Thread!Unmoved(x) /\ threadVersion' = threadVersion
      BY DEF Requested, Steady, Thread!Unmoved, Thread!TypeOK
    <2>2. ASSUME threadVersion' = threadVersion
          PROVE  Thread!Actives' = Thread!Actives /\ Thread!Owners' = Thread!Owners /\ UNCHANGED <<membership, role>>
      BY <2>2 DEF Steady, Thread!Actives, Thread!Owners, Thread!Active
    <2>3. ASSUME threadVersion' = threadVersion, NEW x
          PROVE  (Thread!Active(x.on)' <=> Thread!Active(x.on)) /\ (Thread!Dispensable(x.on)' <=> Thread!Dispensable(x.on))
      BY <2>2, <2>3 DEF Thread!Active, Thread!Dispensable
    <2> QED
      BY <2>1, <2>2, <2>3 DEF Standing
  <1>4. RequestsSound'
    BY <1>1, <1>2, <1>3 DEF RequestsSound
  <1>5. serial => \A t \in Slots : req'[t] = Thread!None
    BY <1>1 DEF OneInFlight
  <1>6. OneInFlight' /\ Fresh'
    BY <1>5 DEF OneInFlight, Fresh
  <1>7. Posting' = Posting \ {s}
    BY <1>1 DEF Posting, Thread!None
  <1>8. s \in Posting <=> req[s].op = "post"
    BY DEF Posting
  <1>9. Thread!Cardinality(Posting \ {s}) = IF s \in Posting THEN Thread!Cardinality(Posting) - 1 ELSE Thread!Cardinality(Posting)
    BY PostingFinite, CountedRemove
  <1> QED
    BY <1>4, <1>6, <1>7, <1>8, <1>9, PostingFinite DEF Thread!Done

LEMMA BumpKeeps ==
    ASSUME Evented, threadVersion \in Nat, NEW type, Thread!Bump(type)
    PROVE  Evented'
  <1> DEFINE new == <<threadVersion + 1, type>>
  <1>1. threadVersion' = threadVersion + 1 /\ events' = events \cup {new} /\ new[1] = threadVersion + 1
    BY DEF Thread!Bump
  <1>2. \A e \in events' : e[1] \in 1..threadVersion'
    BY <1>1 DEF Evented
  <1>3. ASSUME NEW v \in 1..threadVersion'
        PROVE  \E x \in events' : {e \in events' : e[1] = v} = {x}
    <2>1. CASE v = threadVersion + 1
      <3>1. {e \in events' : e[1] = v} = {new}
        BY <1>1, <2>1 DEF Evented
      <3> QED
        BY <1>1, <3>1
    <2>2. CASE v # threadVersion + 1
      <3>1. v \in 1..threadVersion
        BY <1>1, <2>2
      <3>2. {e \in events' : e[1] = v} = {e \in events : e[1] = v}
        BY <1>1, <2>2
      <3> QED
        BY <1>1, <3>1, <3>2 DEF Evented
    <2> QED
      BY <2>1, <2>2
  <1> QED
    BY <1>2, <1>3 DEF Evented

-----------------------------------------------------------------------------
(* The requests.                                                           *)

LEMMA BeginKeeps ==
    ASSUME ThreadInv, NEW s \in Slots, Thread!Free(s), Thread!Begin(s), UNCHANGED serial
    PROVE  ThreadInv'
  <1> USE DEF ThreadInv
  <1>0. threadVersion \in Nat /\ count \in Nat
    BY DEF Thread!TypeOK
  <1>1. ASSUME NEW u \in Everyone, NEW k \in PostKeys, NEW p \in 0..count, Thread!BeginPost(s, u, k, p)
        PROVE  ThreadInv'
    <2>1. PICK r : r = [op |-> "post", by |-> u, key |-> k, msg |-> p,
                        to |-> {v \in Thread!Actives \ {u} : mode[v] = "ALL"}]
      OBVIOUS
    <2>2. r.to = Willing \ {u} /\ r.to \in SUBSET Everyone
      BY <2>1 DEF Willing, Thread!Actives
    <2>3. Requested(r) /\ Standing(r) /\ UpToDate(r)
      BY <1>0, <2>1, <2>2 DEF Requested, Standing, UpToDate
    <2>4. Thread!Start(s, r) /\ count + Thread!Cardinality(Posting) < ThreadMessages
      BY <1>1, <2>1 DEF Thread!BeginPost, Thread!RoomForPost, Posting
    <2> QED
      BY <2>3, <2>4, StartKeeps
  <1>2. ASSUME NEW a \in Everyone, NEW u \in Everyone, NEW x \in Roles, Thread!BeginAdd(s, a, u, x)
        PROVE  ThreadInv'
    <2>1. PICK r : r = [op |-> "add", on |-> u, role |-> x, seen |-> threadVersion]
      OBVIOUS
    <2>2. Requested(r) /\ Standing(r) /\ UpToDate(r)
      BY <1>0, <1>2, <2>1 DEF Thread!BeginAdd, Requested, Standing, UpToDate
    <2>3. Thread!Start(s, r)
      BY <1>2, <2>1 DEF Thread!BeginAdd
    <2> QED
      BY <2>1, <2>2, <2>3, StartKeeps
  <1>3. ASSUME NEW a \in Everyone, NEW u \in Everyone, NEW x \in Roles, Thread!BeginRole(s, a, u, x)
        PROVE  ThreadInv'
    <2>1. PICK r : r = [op |-> "role", on |-> u, role |-> x, seen |-> threadVersion,
                        row |-> rowVersion[u]]
      OBVIOUS
    <2>2. Requested(r) /\ Standing(r) /\ UpToDate(r)
      BY <1>0, <1>3, <2>1 DEF Thread!BeginRole, Requested, Standing, UpToDate
    <2>3. Thread!Start(s, r)
      BY <1>3, <2>1 DEF Thread!BeginRole
    <2> QED
      BY <2>1, <2>2, <2>3, StartKeeps
  <1>4. ASSUME NEW a \in Everyone, NEW u \in Everyone, Thread!BeginRemove(s, a, u)
        PROVE  ThreadInv'
    <2>1. PICK r : r = [op |-> "remove", on |-> u, seen |-> threadVersion, row |-> rowVersion[u]]
      OBVIOUS
    <2>2. Requested(r) /\ Standing(r) /\ UpToDate(r)
      BY <1>0, <1>4, <2>1 DEF Thread!BeginRemove, Requested, Standing, UpToDate
    <2>3. Thread!Start(s, r)
      BY <1>4, <2>1 DEF Thread!BeginRemove
    <2> QED
      BY <2>1, <2>2, <2>3, StartKeeps
  <1>5. ASSUME NEW u \in Everyone, NEW m \in 1..count, NEW op \in {"edit", "delete"},
               Thread!BeginChange(s, u, m, op)
        PROVE  ThreadInv'
    <2>1. PICK r : r = [op |-> op, msg |-> m, row |-> msgVersion[m]]
      OBVIOUS
    <2>2. Requested(r) /\ Standing(r) /\ UpToDate(r)
      BY <2>1 DEF Requested, Standing, UpToDate
    <2>3. Thread!Start(s, r)
      BY <1>5, <2>1 DEF Thread!BeginChange
    <2> QED
      BY <2>1, <2>2, <2>3, StartKeeps
  <1>6. ASSUME NEW u \in Everyone, NEW m \in Thread!Msgs, Thread!BeginMarkRead(s, u, m)
        PROVE  ThreadInv'
    <2>1. PICK r : r = [op |-> "read", by |-> u, msg |-> m]
      OBVIOUS
    <2>2. Requested(r) /\ Standing(r) /\ UpToDate(r)
      BY <1>6, <2>1 DEF Thread!BeginMarkRead, Requested, Standing, UpToDate
    <2>3. Thread!Start(s, r)
      BY <1>6, <2>1 DEF Thread!BeginMarkRead
    <2> QED
      BY <2>1, <2>2, <2>3, StartKeeps
  <1>7. ASSUME NEW u \in Everyone, NEW md \in {"ALL", "NONE"}, Thread!BeginMode(s, u, md)
        PROVE  ThreadInv'
    <2>1. PICK r : r = [op |-> "mode", by |-> u, mode |-> md, row |-> rowVersion[u]]
      OBVIOUS
    <2>2. Requested(r) /\ Standing(r) /\ UpToDate(r)
      BY <2>1 DEF Requested, Standing, UpToDate
    <2>3. Thread!Start(s, r)
      BY <1>7, <2>1 DEF Thread!BeginMode
    <2> QED
      BY <2>1, <2>2, <2>3, StartKeeps
  <1> QED
    BY <1>1, <1>2, <1>3, <1>4, <1>5, <1>6, <1>7 DEF Thread!Begin, Roles

\* A request in flight is served by the commit of its kind.
LEMMA InFlight ==
    ASSUME ThreadInv, NEW s \in Slots, req[s].op # "none"
    PROVE  req[s] # Thread!None /\ Requested(req[s]) /\ Standing(req[s])
  BY DEF ThreadInv, RequestsSound, Thread!None

LEMMA CommitPostKeeps ==
    ASSUME ThreadInv, NEW s \in Slots, Thread!CommitPost(s), UNCHANGED serial
    PROVE  ThreadInv'
  <1> DEFINE r == req[s]
  <1> USE DEF ThreadInv
  <1>1. /\ r.op = "post" /\ Thread!PostAllowed(r) /\ r.by \in Everyone /\ r.msg \in Nat /\ r.to \in SUBSET Everyone
        /\ count' = count + 1 /\ count \in Nat /\ threadVersion \in Nat
    BY InFlight DEF Thread!CommitPost, Requested, Thread!TypeOK
  <1>2. /\ author' = [author EXCEPT ![count + 1] = r.by]
        /\ keyOf' = [keyOf EXCEPT ![count + 1] = r.key]
        /\ replyTo' = [replyTo EXCEPT ![count + 1] = r.msg]
        /\ notified' = [notified EXCEPT ![count + 1] = r.to]
        /\ lastRead' = [lastRead EXCEPT ![r.by] = count + 1]
        /\ rowVersion' = [rowVersion EXCEPT ![r.by] = @ + 1]
        /\ Thread!Bump("message.created") /\ Thread!Done(s)
        /\ UNCHANGED <<membership, role, mode, deleted, msgVersion>>
    BY DEF Thread!CommitPost
  <1>3. Steady /\ threadVersion' \in Nat
    BY <1>1, <1>2 DEF Steady, Thread!Bump
  <1>4. /\ RequestsSound' /\ OneInFlight' /\ Fresh' /\ started' = started
        /\ Thread!Cardinality(Posting') = Thread!Cardinality(Posting) - 1
    BY <1>1, <1>2, <1>3, InFlight, DoneKeepsWaiting
  <1>5. Thread!Wellformed'
    BY DEF Thread!Wellformed
  <1>6. Thread!IsFiniteSet(Posting) /\ Thread!Cardinality(Posting) \in Nat /\ Thread!Cardinality(Posting') \in Nat
    <2>1. Thread!IsFiniteSet(Posting')
      BY CountedSubset DEF Posting, Thread!Wellformed
    <2> QED
      BY <2>1, PostingFinite, CountedType
  <1>7. ThreadMessages \in Nat /\ count' + Thread!Cardinality(Posting') <= ThreadMessages /\ count' <= ThreadMessages
    BY <1>1, <1>4, <1>6 DEF Room, Thread!Wellformed
  <1>8. Thread!TypeOK'
    <2>1. lastRead' \in [Everyone -> 0..count'] /\ rowVersion' \in [Everyone -> Nat]
      BY <1>1, <1>2 DEF Thread!TypeOK
    <2>2. count' \in 0..ThreadMessages
      BY <1>1, <1>7
    <2>3. /\ author' \in [Thread!Msgs -> Everyone] /\ replyTo' \in [Thread!Msgs -> Nat]
          /\ notified' \in [Thread!Msgs -> SUBSET Everyone]
      BY <1>1, <1>2 DEF Thread!TypeOK
    <2> QED
      BY <1>2, <1>3, <1>4, <2>1, <2>2, <2>3 DEF Thread!TypeOK
  <1>9. Evented'
    BY <1>1, <1>2, BumpKeeps
  <1>10. Thread!GroupShape'
    BY <1>2 DEF Thread!GroupShape, Thread!Owners, Thread!Actives, Thread!Active
  <1>11. Thread!OnePostPerKey'
    <2>1. count + 1 \in Thread!Msgs
      BY <1>1, <1>7 DEF Thread!Msgs
    <2>2. author'[count + 1] = r.by /\ \A m \in 1..count : author'[m] = author[m]
      BY <1>1, <1>2, <2>1 DEF Thread!TypeOK
    <2>3. \A m \in 1..count : keyOf'[m] = keyOf[m]
      BY <1>1, <1>2
    <2>4. \A m \in 1..count : ~(author'[m] = author'[count + 1] /\ keyOf'[m] = keyOf'[count + 1])
      <3>1. keyOf'[count + 1] = r.key
        BY <1>2, <2>1 DEF Room
      <3> QED
        BY <1>1, <2>2, <2>3, <3>1 DEF Thread!PostAllowed, Thread!FreshKey
    <2> QED
      BY <1>1, <2>2, <2>3, <2>4 DEF Thread!OnePostPerKey
  <1>12. Room'
    BY <1>2, <1>7 DEF Room
  <1> QED
    BY <1>4, <1>5, <1>8, <1>9, <1>10, <1>11, <1>12

\* A commit that posts nothing.
LEMMA QuietKeeps ==
    ASSUME ThreadInv, NEW s \in Slots, req[s] # Thread!None, req[s].op # "post", Thread!Done(s),
           UNCHANGED <<serial, count, author, keyOf>>, Steady, Thread!TypeOK', Evented', Thread!GroupShape'
    PROVE  ThreadInv'
  <1> USE DEF ThreadInv
  <1>1. /\ RequestsSound' /\ OneInFlight' /\ Fresh'
        /\ Thread!Cardinality(Posting') = Thread!Cardinality(Posting)
    <2>1. Thread!Cardinality(Posting') = Thread!Cardinality(Posting) - 0
      BY DoneKeepsWaiting DEF Thread!TypeOK
    <2>2. Thread!Cardinality(Posting) \in Nat
      BY PostingFinite
    <2> QED
      BY <2>1, <2>2, DoneKeepsWaiting DEF Thread!TypeOK
  <1>2. Room'
    BY <1>1 DEF Room
  <1>3. Thread!Wellformed' /\ Thread!OnePostPerKey'
    BY DEF Thread!Wellformed, Thread!OnePostPerKey
  <1> QED
    BY <1>1, <1>2, <1>3

LEMMA RefuseKeeps ==
    ASSUME ThreadInv, NEW s \in Slots, Thread!Refuse(s), UNCHANGED serial
    PROVE  ThreadInv'
  <1> USE DEF ThreadInv, Thread!members, Thread!messages, Thread!thread
  <1>1. req[s].op # "none" /\ Thread!Done(s) /\ UNCHANGED <<Thread!members, Thread!messages, Thread!thread>>
    BY DEF Thread!Refuse, Thread!Overtaken
  <1>2. Thread!TypeOK' /\ Evented' /\ Thread!GroupShape' /\ Steady
    BY <1>1 DEF Thread!TypeOK, Evented, Thread!GroupShape, Thread!Owners, Thread!Actives, Thread!Active, Steady, Thread!Done
  <1>3. CASE req[s].op # "post"
    BY <1>1, <1>2, <1>3, InFlight, QuietKeeps
  <1>4. CASE req[s].op = "post"
    <2>1. /\ RequestsSound' /\ OneInFlight' /\ Fresh'
          /\ Thread!Cardinality(Posting') = Thread!Cardinality(Posting) - 1
      BY <1>1, <1>2, <1>4, InFlight, DoneKeepsWaiting DEF Thread!TypeOK
    <2>2. Thread!Cardinality(Posting) \in Nat /\ count \in Int /\ ThreadMessages \in Int
      BY PostingFinite DEF Thread!TypeOK, Thread!Wellformed
    <2>3. Room'
      BY <1>1, <2>1, <2>2 DEF Room
    <2>4. Thread!Wellformed' /\ Thread!OnePostPerKey'
      BY <1>1 DEF Thread!Wellformed, Thread!OnePostPerKey
    <2> QED
      BY <1>2, <2>1, <2>3, <2>4
  <1> QED
    BY <1>3, <1>4

LEMMA CommitAddKeeps ==
    ASSUME ThreadInv, NEW s \in Slots, Thread!CommitAdd(s), UNCHANGED serial
    PROVE  ThreadInv'
  <1> DEFINE r == req[s]
  <1> USE DEF ThreadInv
  <1>1. /\ r.op = "add" /\ r.on \in Everyone /\ r.role \in Roles /\ threadVersion \in Nat
        /\ ~Thread!Active(r.on) /\ Thread!Cardinality(Thread!Actives) < ThreadLimit
    BY InFlight DEF Thread!CommitAdd, Requested, Standing, Thread!TypeOK
  <1>2. /\ membership' = [membership EXCEPT ![r.on] = "active"]
        /\ role' = [role EXCEPT ![r.on] = r.role]
        /\ mode' = [mode EXCEPT ![r.on] = "ALL"]
        /\ rowVersion' = [rowVersion EXCEPT ![r.on] = IF membership[r.on] = "left" THEN @ + 1 ELSE 1]
        /\ Thread!Bump("message.participant_added") /\ Thread!Done(s)
        /\ UNCHANGED <<lastRead, count, author, keyOf, replyTo, deleted, msgVersion, notified>>
    BY DEF Thread!CommitAdd, Thread!messages
  <1>3. Steady /\ threadVersion' \in Nat /\ Evented'
    <2>1. threadVersion' = threadVersion + 1 /\ threadVersion' \in Nat /\ threadVersion' # threadVersion
      BY <1>1, <1>2 DEF Thread!Bump
    <2>2. Steady
      BY <2>1 DEF Steady
    <2>3. Evented'
      BY <1>1, <1>2, BumpKeeps
    <2> QED
      BY <2>1, <2>2, <2>3
  <1>4. Thread!TypeOK'
    BY <1>1, <1>2, <1>3 DEF Thread!TypeOK, Roles, Thread!Done
  <1>5. Thread!GroupShape'
    <2>1. Thread!Actives' = Thread!Actives \cup {r.on} /\ r.on \notin Thread!Actives
      BY <1>1, <1>2 DEF Thread!Actives, Thread!Active, Thread!TypeOK
    <2>2. Thread!Cardinality(Thread!Actives \cup {r.on}) = Thread!Cardinality(Thread!Actives) + 1
      BY <2>1, ActivesFinite, CountedAdd
    <2>3. Thread!Cardinality(Thread!Actives') \in 2..ThreadLimit
      BY <1>1, <2>1, <2>2, ActivesFinite DEF Thread!GroupShape, Thread!Wellformed
    <2>4. Thread!Owners \subseteq Thread!Owners'
      BY <1>1, <1>2, <2>1 DEF Thread!Owners, Thread!Actives, Thread!Active, Thread!TypeOK
    <2> QED
      BY <2>3, <2>4 DEF Thread!GroupShape
  <1> QED
    BY <1>1, <1>2, <1>3, <1>4, <1>5, InFlight, QuietKeeps

LEMMA CommitRoleKeeps ==
    ASSUME ThreadInv, NEW s \in Slots, Thread!CommitRole(s), UNCHANGED serial
    PROVE  ThreadInv'
  <1> DEFINE r == req[s]
  <1> USE DEF ThreadInv
  <1>1. /\ r.op = "role" /\ r.on \in Everyone /\ r.role \in Roles /\ threadVersion \in Nat
        /\ Thread!Active(r.on) /\ (r.role # "OWNER" => Thread!Dispensable(r.on))
    BY InFlight DEF Thread!CommitRole, Thread!RowUnmoved, Requested, Standing, Thread!TypeOK
  <1>2. /\ role' = [role EXCEPT ![r.on] = r.role]
        /\ rowVersion' = [rowVersion EXCEPT ![r.on] = @ + 1]
        /\ Thread!Bump("message.participant_role_changed") /\ Thread!Done(s)
        /\ UNCHANGED <<membership, mode, lastRead>>
        /\ UNCHANGED <<count, author, keyOf, replyTo, deleted, msgVersion, notified>>
    BY DEF Thread!CommitRole, Thread!messages
  <1>3. Steady /\ threadVersion' \in Nat /\ Evented'
    <2>1. threadVersion' = threadVersion + 1 /\ threadVersion' \in Nat /\ threadVersion' # threadVersion
      BY <1>1, <1>2 DEF Thread!Bump
    <2>2. Steady
      BY <2>1 DEF Steady
    <2>3. Evented'
      BY <1>1, <1>2, BumpKeeps
    <2> QED
      BY <2>1, <2>2, <2>3
  <1>4. Thread!TypeOK'
    BY <1>1, <1>2, <1>3 DEF Thread!TypeOK, Roles, Thread!Done
  <1>5. Thread!GroupShape'
    <2>1. Thread!Actives' = Thread!Actives
      BY <1>2 DEF Thread!Actives, Thread!Active
    <2>2. \E o \in Thread!Owners : o # r.on \/ r.role = "OWNER"
      BY <1>1 DEF Thread!Dispensable, Thread!GroupShape, Thread!Owners
    <2>3. Thread!Owners' # {}
      BY <1>1, <1>2, <2>1, <2>2 DEF Thread!Owners, Thread!Actives, Thread!TypeOK
    <2> QED
      BY <2>1, <2>3 DEF Thread!GroupShape
  <1> QED
    BY <1>1, <1>2, <1>3, <1>4, <1>5, InFlight, QuietKeeps

LEMMA CommitRemoveKeeps ==
    ASSUME ThreadInv, NEW s \in Slots, Thread!CommitRemove(s), UNCHANGED serial
    PROVE  ThreadInv'
  <1> DEFINE r == req[s]
  <1> USE DEF ThreadInv
  <1>1. /\ r.op = "remove" /\ r.on \in Everyone /\ threadVersion \in Nat
        /\ Thread!Active(r.on) /\ Thread!Dispensable(r.on) /\ Thread!Cardinality(Thread!Actives) > 2
    BY InFlight DEF Thread!CommitRemove, Thread!RowUnmoved, Requested, Standing, Thread!TypeOK
  <1>2. /\ membership' = [membership EXCEPT ![r.on] = "left"]
        /\ rowVersion' = [rowVersion EXCEPT ![r.on] = @ + 1]
        /\ Thread!Bump("message.participant_removed") /\ Thread!Done(s)
        /\ UNCHANGED <<role, mode, lastRead>>
        /\ UNCHANGED <<count, author, keyOf, replyTo, deleted, msgVersion, notified>>
    BY DEF Thread!CommitRemove, Thread!messages
  <1>3. Steady /\ threadVersion' \in Nat /\ Evented'
    <2>1. threadVersion' = threadVersion + 1 /\ threadVersion' \in Nat /\ threadVersion' # threadVersion
      BY <1>1, <1>2 DEF Thread!Bump
    <2>2. Steady
      BY <2>1 DEF Steady
    <2>3. Evented'
      BY <1>1, <1>2, BumpKeeps
    <2> QED
      BY <2>1, <2>2, <2>3
  <1>4. Thread!TypeOK'
    BY <1>1, <1>2, <1>3 DEF Thread!TypeOK, Thread!Done
  <1>5. Thread!GroupShape'
    <2>1. Thread!Actives' = Thread!Actives \ {r.on} /\ r.on \in Thread!Actives
      BY <1>1, <1>2 DEF Thread!Actives, Thread!Active, Thread!TypeOK
    <2>2. Thread!Cardinality(Thread!Actives \ {r.on}) = Thread!Cardinality(Thread!Actives) - 1
      BY <2>1, ActivesFinite, CountedRemove
    <2>3. Thread!Cardinality(Thread!Actives') \in 2..ThreadLimit
      BY <1>1, <2>1, <2>2, ActivesFinite DEF Thread!GroupShape, Thread!Wellformed
    <2>4. \E o \in Thread!Owners : o # r.on
      BY <1>1 DEF Thread!Dispensable, Thread!GroupShape, Thread!Owners
    <2>5. Thread!Owners' # {}
      BY <1>2, <2>1, <2>4 DEF Thread!Owners
    <2> QED
      BY <2>3, <2>5 DEF Thread!GroupShape
  <1> QED
    BY <1>1, <1>2, <1>3, <1>4, <1>5, InFlight, QuietKeeps

\* The commits that leave alone who takes part.
LEMMA SameShape ==
    ASSUME Thread!GroupShape, UNCHANGED <<membership, role>>
    PROVE  Thread!GroupShape'
  BY DEF Thread!GroupShape, Thread!Owners, Thread!Actives, Thread!Active

LEMMA CommitChangeKeeps ==
    ASSUME ThreadInv, NEW s \in Slots, Thread!CommitEdit(s) \/ Thread!CommitDelete(s), UNCHANGED serial
    PROVE  ThreadInv'
  <1> DEFINE r == req[s]
  <1> USE DEF ThreadInv
  <1>1. /\ r.op \in {"edit", "delete"}
        /\ msgVersion' = [msgVersion EXCEPT ![r.msg] = @ + 1]
        /\ deleted' \in {deleted, [deleted EXCEPT ![r.msg] = TRUE]}
        /\ Thread!Done(s) /\ UNCHANGED <<membership, role, mode, lastRead, rowVersion>>
        /\ UNCHANGED <<count, author, keyOf, replyTo, notified>>
    BY DEF Thread!CommitEdit, Thread!CommitDelete, Thread!members
  <1>2. PICK type : Thread!Bump(type)
    BY DEF Thread!CommitEdit, Thread!CommitDelete
  <1>v. threadVersion \in Nat
    BY DEF Thread!TypeOK
  <1>e. Evented'
    BY <1>2, <1>v, BumpKeeps
  <1>s. Steady
    BY <1>1, <1>2, <1>v DEF Steady, Thread!Bump
  <1>3. Steady /\ threadVersion' \in Nat /\ Evented'
    BY <1>e, <1>s, <1>2, <1>v DEF Thread!Bump
  <1>d. deleted' \in [Thread!Msgs -> BOOLEAN]
    <2>1. CASE deleted' = deleted
      BY <2>1 DEF Thread!TypeOK
    <2>2. CASE deleted' = [deleted EXCEPT ![r.msg] = TRUE]
      BY <2>2 DEF Thread!TypeOK
    <2> QED
      BY <1>1, <2>1, <2>2
  <1>m. msgVersion' \in [Thread!Msgs -> Nat]
    <2>1. msgVersion \in [Thread!Msgs -> Nat]
      BY DEF Thread!TypeOK
    <2>2. \A m \in Thread!Msgs : msgVersion'[m] \in {msgVersion[m], msgVersion[m] + 1}
      BY <1>1, <2>1
    <2>3. \A m \in Thread!Msgs : msgVersion'[m] \in Nat
      BY <2>1, <2>2
    <2> QED
      BY <1>1, <2>1, <2>3
  <1>4. Thread!TypeOK'
    BY <1>1, <1>3, <1>d, <1>m DEF Thread!TypeOK, Thread!Done
  <1>5. Thread!GroupShape'
    BY <1>1, SameShape
  <1> QED
    BY <1>1, <1>3, <1>4, <1>5, InFlight, QuietKeeps

LEMMA CommitMarkReadKeeps ==
    ASSUME ThreadInv, NEW s \in Slots, Thread!CommitMarkRead(s), UNCHANGED serial
    PROVE  ThreadInv'
  <1> DEFINE r == req[s]
  <1> USE DEF ThreadInv
  <1>1. /\ r.op = "read" /\ r.by \in Everyone /\ r.msg \in 1..count
        /\ lastRead' = [lastRead EXCEPT ![r.by] = r.msg]
        /\ rowVersion' = [rowVersion EXCEPT ![r.by] = @ + 1]
        /\ Thread!Done(s) /\ UNCHANGED <<membership, role, mode, threadVersion, events>>
        /\ UNCHANGED <<count, author, keyOf, replyTo, deleted, msgVersion, notified>>
    BY InFlight DEF Thread!CommitMarkRead, Requested, Thread!messages, Thread!thread
  <1>2. Thread!TypeOK'
    BY <1>1 DEF Thread!TypeOK, Thread!Done
  <1>3. Steady /\ Evented'
    BY <1>1 DEF Steady, Evented
  <1>4. Thread!GroupShape'
    BY <1>1, SameShape
  <1> QED
    BY <1>1, <1>2, <1>3, <1>4, InFlight, QuietKeeps

LEMMA CommitModeKeeps ==
    ASSUME ThreadInv, NEW s \in Slots, Thread!CommitMode(s), UNCHANGED serial
    PROVE  ThreadInv'
  <1> DEFINE r == req[s]
  <1> USE DEF ThreadInv
  <1>1. /\ r.op = "mode" /\ r.by \in Everyone /\ r.mode \in {"ALL", "NONE"}
        /\ mode' = [mode EXCEPT ![r.by] = r.mode]
        /\ rowVersion' = [rowVersion EXCEPT ![r.by] = @ + 1]
        /\ Thread!Done(s) /\ UNCHANGED <<membership, role, lastRead, threadVersion, events>>
        /\ UNCHANGED <<count, author, keyOf, replyTo, deleted, msgVersion, notified>>
    BY InFlight DEF Thread!CommitMode, Requested, Thread!messages, Thread!thread
  <1>2. Thread!TypeOK'
    BY <1>1 DEF Thread!TypeOK, Thread!Done
  <1>3. Steady /\ Evented'
    BY <1>1 DEF Steady, Evented
  <1>4. Thread!GroupShape'
    BY <1>1, SameShape
  <1> QED
    BY <1>1, <1>2, <1>3, <1>4, InFlight, QuietKeeps

-----------------------------------------------------------------------------
(* The invariant and what follows.                                         *)

LEMMA StepKeepsThread == ThreadInv /\ (Thread!Next \/ UNCHANGED Thread!vars) => ThreadInv'
  <1> SUFFICES ASSUME ThreadInv, (Thread!Next \/ UNCHANGED Thread!vars) PROVE ThreadInv'
    OBVIOUS
  <1>1. CASE UNCHANGED Thread!vars
    <2> USE <1>1 DEF Thread!vars, Thread!members, Thread!messages, Thread!thread, ThreadInv
    <2>1. Thread!Wellformed' /\ Thread!TypeOK' /\ OneInFlight' /\ Evented' /\ Thread!OnePostPerKey'
      BY DEF Thread!Wellformed, Thread!TypeOK, OneInFlight, Evented, Thread!OnePostPerKey
    <2>2. RequestsSound'
      BY DEF RequestsSound, Requested, Standing, Thread!Unmoved, Thread!Dispensable, Thread!Owners, Thread!Actives, Thread!Active
    <2>3. Room'
      BY DEF Room, Posting
    <2>4. Fresh'
      BY DEF Fresh, UpToDate, Willing, Thread!Actives, Thread!Active
    <2>5. Thread!GroupShape'
      BY SameShape
    <2> QED
      BY <2>1, <2>2, <2>3, <2>4, <2>5
  <1>2. CASE Thread!Next
    <2>1. PICK s \in Slots : (Thread!Free(s) /\ Thread!Begin(s)) \/ Thread!Commit(s) \/ Thread!Refuse(s)
      BY <1>2 DEF Thread!Next
    <2>2. UNCHANGED serial
      BY <1>2 DEF Thread!Next
    <2> QED
      BY <2>1, <2>2, BeginKeeps, RefuseKeeps, CommitPostKeeps, CommitAddKeeps, CommitRoleKeeps,
         CommitRemoveKeeps, CommitChangeKeeps, CommitMarkReadKeeps, CommitModeKeeps
      DEF Thread!Commit
  <1> QED
    BY <1>1, <1>2

LEMMA ThreadFollows ==
    ThreadInv => Thread!GroupShape /\ Thread!OneEventPerVersion /\ Thread!OnePostPerKey
  <1>1. ThreadInv => Thread!OneEventPerVersion
    <2> SUFFICES ASSUME ThreadInv, NEW v \in 1..threadVersion
                 PROVE  Thread!Cardinality({e \in events : e[1] = v}) = 1
      BY DEF Thread!OneEventPerVersion
    <2>1. PICK x \in events : {e \in events : e[1] = v} = {x}
      BY DEF ThreadInv, Evented
    <2> QED
      BY <2>1, CountedOne
  <1> QED
    BY <1>1 DEF ThreadInv

\* However removals, demotions, additions and posts overlap, a thread keeps an owner,
\* two active participants and its limit, each of its versions has exactly one outbox
\* row, and however often a post is retried its key makes one message.
THEOREM ThreadSound == Spec => []ThreadHolds
  <1> DEFINE Inv == focus = "thread" => ThreadInv
  <1>1. Init => Inv
    BY InitThread, ThreadAssumption DEF Init
  <1>2. Inv /\ [Next]_vars => Inv'
    BY StepKeepsThread DEF Next, vars, from9, Thread!vars, Thread!members, Thread!messages, Thread!thread
  <1>3. Inv => ThreadHolds
    BY ThreadFollows DEF ThreadHolds
  <1> QED
    BY <1>1, <1>2, <1>3, PTL DEF Spec

-----------------------------------------------------------------------------
(* What a single step of a thread may do.                                  *)

LEMMA BeginChangesNothing ==
    ASSUME NEW s \in Slots, Thread!Begin(s)
    PROVE  UNCHANGED <<Thread!members, Thread!messages, Thread!thread>>
  BY DEF Thread!Begin, Thread!BeginPost, Thread!BeginAdd, Thread!BeginRole, Thread!BeginRemove, Thread!BeginChange, Thread!BeginMarkRead,
         Thread!BeginMode, Thread!Start

\* No step edits a deleted message, deletes it again or brings it back.
LEMMA DeletionIsFinal == ThreadInv /\ (Thread!Next \/ UNCHANGED Thread!vars) => Thread!DeletedIsFinal
  <1>i. SUFFICES ASSUME ThreadInv, Thread!Next \/ UNCHANGED Thread!vars PROVE Thread!DeletedIsFinal
    OBVIOUS
  <1> USE DEF Thread!members, Thread!messages, Thread!thread, Thread!vars
  <1>1. CASE UNCHANGED Thread!vars
    BY <1>1 DEF Thread!DeletedIsFinal
  <1>2. ASSUME NEW s \in Slots, Thread!Begin(s) \/ Thread!Refuse(s) PROVE Thread!DeletedIsFinal
    BY <1>2, BeginChangesNothing DEF Thread!Refuse, Thread!DeletedIsFinal
  <1>3. ASSUME NEW s \in Slots, Thread!Commit(s) PROVE Thread!DeletedIsFinal
    <2>1. CASE Thread!CommitEdit(s) \/ Thread!CommitDelete(s)
      <3> SUFFICES ASSUME NEW m \in Thread!Msgs, deleted[m]
                   PROVE  deleted'[m] /\ msgVersion'[m] = msgVersion[m]
        BY DEF Thread!DeletedIsFinal
      <3>1. PICK n : n = req[s].msg
        OBVIOUS
      <3>2. ~deleted[n] /\ n # m
        BY <2>1, <3>1 DEF Thread!CommitEdit, Thread!CommitDelete, Thread!MessageUnmoved
      <3>3. /\ msgVersion' = [msgVersion EXCEPT ![n] = @ + 1]
            /\ deleted' \in {deleted, [deleted EXCEPT ![n] = TRUE]}
        BY <2>1, <3>1 DEF Thread!CommitEdit, Thread!CommitDelete
      <3>4. deleted \in [Thread!Msgs -> BOOLEAN] /\ msgVersion \in [Thread!Msgs -> Nat]
        BY <1>i DEF ThreadInv, Thread!TypeOK
      <3>5. msgVersion'[m] = msgVersion[m]
        BY <3>2, <3>3, <3>4
      <3>6. deleted'[m] = deleted[m]
        BY <3>2, <3>3, <3>4
      <3> QED
        BY <3>5, <3>6
    <2>2. CASE ~(Thread!CommitEdit(s) \/ Thread!CommitDelete(s))
      <3>1. UNCHANGED <<deleted, msgVersion>>
        BY <1>3, <2>2 DEF Thread!Commit, Thread!CommitPost, Thread!CommitAdd, Thread!CommitRole, Thread!CommitRemove,
                          Thread!CommitMarkRead, Thread!CommitMode
      <3> QED
        BY <3>1 DEF Thread!DeletedIsFinal
    <2> QED
      BY <2>1, <2>2
  <1> QED
    BY <1>i, <1>1, <1>2, <1>3 DEF Thread!Next

\* While requests do not overlap a read cursor only advances: the message was newer
\* than the cursor when the request began, and nothing came in between.
LEMMA CursorsAdvanceAlone == ThreadInv /\ (Thread!Next \/ UNCHANGED Thread!vars) => Thread!CursorAdvancesAlone
  <1>i. SUFFICES ASSUME ThreadInv, Thread!Next \/ UNCHANGED Thread!vars PROVE Thread!CursorAdvancesAlone
    OBVIOUS
  <1> USE DEF Thread!members, Thread!messages, Thread!thread, Thread!vars
  <1>0. lastRead \in [Everyone -> 0..count] /\ count \in Nat
    BY <1>i DEF ThreadInv, Thread!TypeOK
  <1>1. CASE UNCHANGED lastRead
    BY <1>0, <1>1 DEF Thread!CursorAdvancesAlone
  <1>2. ASSUME NEW s \in Slots, Thread!Begin(s) \/ Thread!Refuse(s) PROVE UNCHANGED lastRead
    BY <1>2, BeginChangesNothing DEF Thread!Refuse
  <1>3. ASSUME NEW s \in Slots, Thread!Commit(s) PROVE Thread!CursorAdvancesAlone
    <2>1. CASE Thread!CommitPost(s)
      <3>1. lastRead' = [lastRead EXCEPT ![req[s].by] = count + 1]
        BY <2>1 DEF Thread!CommitPost
      <3> QED
        BY <1>0, <3>1 DEF Thread!CursorAdvancesAlone
    <2>2. CASE Thread!CommitMarkRead(s)
      <3>1. req[s].op = "read" /\ lastRead' = [lastRead EXCEPT ![req[s].by] = req[s].msg]
        BY <2>2 DEF Thread!CommitMarkRead
      <3>2. Requested(req[s])
        BY <1>i, <3>1, InFlight
      <3>3. serial => req[s].msg > lastRead[req[s].by]
        BY <1>i, <3>1, InFlight DEF ThreadInv, Fresh, UpToDate
      <3>4. req[s].by \in Everyone /\ req[s].msg \in 1..count
        BY <3>1, <3>2 DEF Requested
      <3> QED
        BY <1>0, <3>1, <3>3, <3>4 DEF Thread!CursorAdvancesAlone
    <2>3. CASE ~(Thread!CommitPost(s) \/ Thread!CommitMarkRead(s))
      <3>1. UNCHANGED lastRead
        BY <1>3, <2>3 DEF Thread!Commit, Thread!CommitAdd, Thread!CommitRole, Thread!CommitRemove, Thread!CommitEdit,
                          Thread!CommitDelete, Thread!CommitMode
      <3> QED
        BY <1>1, <3>1
    <2> QED
      BY <2>1, <2>2, <2>3
  <1> QED
    BY <1>i, <1>1, <1>2, <1>3 DEF Thread!Next

\* While requests do not overlap a message notifies exactly the active participants
\* who did not mute the thread and did not write it.
LEMMA WillingAreNotified == ThreadInv /\ (Thread!Next \/ UNCHANGED Thread!vars) => Thread!NotifiesTheWilling
  <1>i. SUFFICES ASSUME ThreadInv, Thread!Next \/ UNCHANGED Thread!vars PROVE Thread!NotifiesTheWilling
    OBVIOUS
  <1> USE DEF Thread!members, Thread!messages, Thread!thread, Thread!vars
  <1>0. count \in Nat
    BY <1>i DEF ThreadInv, Thread!TypeOK
  <1>1. CASE UNCHANGED count
    BY <1>0, <1>1 DEF Thread!NotifiesTheWilling
  <1>2. ASSUME NEW s \in Slots, Thread!Begin(s) \/ Thread!Refuse(s) PROVE UNCHANGED count
    BY <1>2, BeginChangesNothing DEF Thread!Refuse
  <1>3. ASSUME NEW s \in Slots, Thread!Commit(s) PROVE Thread!NotifiesTheWilling
    <2>1. CASE Thread!CommitPost(s)
      <3> SUFFICES ASSUME serial, count + 1 \in Thread!Msgs
                   PROVE  notified'[count + 1] = Willing \ {author'[count + 1]}
        BY DEF Thread!NotifiesTheWilling, Willing
      <3>1. /\ req[s].op = "post"
            /\ notified' = [notified EXCEPT ![count + 1] = req[s].to]
            /\ author' = [author EXCEPT ![count + 1] = req[s].by]
        BY <2>1 DEF Thread!CommitPost
      <3>2. req[s].to = Willing \ {req[s].by}
        BY <1>i, <3>1, InFlight DEF ThreadInv, Fresh, UpToDate
      <3>3. notified'[count + 1] = req[s].to /\ author'[count + 1] = req[s].by
        BY <1>i, <3>1 DEF ThreadInv, Thread!TypeOK
      <3> QED
        BY <3>2, <3>3
    <2>2. CASE ~Thread!CommitPost(s)
      <3>1. UNCHANGED count
        BY <1>3, <2>2 DEF Thread!Commit, Thread!CommitAdd, Thread!CommitRole, Thread!CommitRemove, Thread!CommitEdit,
                          Thread!CommitDelete, Thread!CommitMarkRead, Thread!CommitMode
      <3> QED
        BY <1>1, <3>1
    <2> QED
      BY <2>1, <2>2
  <1> QED
    BY <1>i, <1>1, <1>2, <1>3 DEF Thread!Next

-----------------------------------------------------------------------------
(* A post.  A request that still finds the version it read finds the       *)
(* acknowledgement it read; what was asked for is only ever added to; and  *)
(* the text in the card belongs to the version of the card.                *)

post         == x1
named        == x2
inGroup      == x3
groupOpen    == x4
active       == x5
wanted       == x6
acked        == x7
like         == x8
likes        == x9
subscription == x10
bell         == x11
comments     == x12
card         == x13
draft        == x14
lost         == x15
request      == x16
begun        == x17
moves        == x18
USE DEF post, named, inGroup, groupOpen, active, wanted, acked, like, likes, subscription, bell,
        comments, card, draft, lost, request, begun, moves

PostRows == [version : Nat, ack : Nat, needs : BOOLEAN, live : BOOLEAN, to : Post!Kinds]

\* A post is asked to be acknowledged for versions it has had, if at all.
PostSound ==
    /\ post \in PostRows
    /\ post.version = 0 => post.ack = 0 /\ ~post.live
    /\ named \subseteq People /\ inGroup \subseteq People /\ active \subseteq People
    /\ wanted \subseteq People \X (1 .. post.ack) /\ acked \subseteq wanted
    /\ ~post.needs => wanted = {} /\ post.ack = 0

\* What a request has read is no newer than the post.
ReadBefore(p) ==
    /\ p \in PostRows /\ p.version \in 1 .. post.version
    /\ p.version = post.version => p = post

PostRequest(r) ==
    /\ ReadBefore(r.v)
    /\ r.op = "update" => r.x = r.v.version /\ r.y \subseteq People
    /\ r.op = "ack" => <<r.by, r.v.ack>> \in wanted
    /\ r.op = "like" => r.by \in People

PostRequestsSound ==
    /\ DOMAIN request = Slots
    /\ \A s \in Slots : request[s] # Idle => PostRequest(request[s])

LikesSound ==
    /\ like \in [People -> Nat] /\ likes \in [People -> [rows : Nat, toggles : Nat]]
    /\ Post!EachToggleCounts

CardSound == card \in 0 .. post.version /\ draft = card /\ ~lost

PostInv == PostSound /\ PostRequestsSound /\ LikesSound /\ CardSound

LEMMA InitPost == Post!Init => PostInv
  <1> SUFFICES ASSUME Post!Init PROVE PostInv
    OBVIOUS
  <1>1. PostSound
    BY DEF Post!Init, PostSound, PostRows, Post!Kinds, People
  <1>2. PostRequestsSound /\ CardSound
    BY DEF Post!Init, PostRequestsSound, CardSound
  <1>3. LikesSound
    BY DEF Post!Init, LikesSound, Post!EachToggleCounts
  <1> QED
    BY <1>1, <1>2, <1>3 DEF PostInv

\* The steps that leave the post and its acknowledgements alone.
LEMMA PostRests ==
    ASSUME PostInv, UNCHANGED <<post, wanted, acked>>
    PROVE  /\ \A p : ReadBefore(p) => ReadBefore(p)'
           /\ \A r : PostRequest(r) => PostRequest(r)'
  BY DEF ReadBefore, PostRequest

\* A request begins with the post as it is.
LEMMA BeginsPost ==
    ASSUME PostInv, NEW s \in Slots, NEW op, NEW u, NEW a, NEW b, post.live,
           Post!Begin(s, op, u, a, b),
           op = "update" => a = post.version /\ b \subseteq People,
           op = "ack" => <<u, post.ack>> \in wanted,
           op = "like" => u \in People
    PROVE  PostInv'
  <1>1. PICK r : r = [op |-> op, by |-> u, x |-> a, y |-> b, v |-> post]
    OBVIOUS
  <1>2. /\ request' = [request EXCEPT ![s] = r]
        /\ UNCHANGED <<post, named, inGroup, groupOpen, active, wanted, acked, like, likes,
                       subscription, bell, comments, card, draft, lost>>
    BY <1>1 DEF Post!Begin, Post!rows, Post!people, Post!talk, Post!page, Post!liking
  <1>3. ReadBefore(post)
    BY DEF PostInv, PostSound, PostRows, ReadBefore
  <1>4. PostRequest(r)
    BY <1>1, <1>3 DEF PostRequest
  <1>5. PostRequestsSound'
    BY <1>2, <1>4, PostRests DEF PostInv, PostRequestsSound
  <1>6. PostSound' /\ LikesSound' /\ CardSound'
    BY <1>2 DEF PostInv, PostSound, LikesSound, Post!EachToggleCounts, CardSound
  <1> QED
    BY <1>5, <1>6 DEF PostInv

\* A request is over, and nothing moved but what is said.
LEMMA EndsPost ==
    ASSUME PostInv, NEW s \in Slots, Post!End(s), UNCHANGED post, acked \subseteq acked',
           acked' \subseteq wanted, UNCHANGED <<wanted, named, inGroup, active, card, draft, lost>>, LikesSound'
    PROVE  PostInv'
  <1>1. DOMAIN request' = Slots /\ request'[s] = Idle /\ \A t \in Slots \ {s} : request'[t] = request[t]
    BY DEF Post!End, PostInv, PostRequestsSound
  <1>2. \A r : PostRequest(r) => PostRequest(r)'
    BY DEF PostRequest, ReadBefore
  <1>3. PostRequestsSound'
    BY <1>1, <1>2 DEF PostInv, PostRequestsSound
  <1>4. PostSound' /\ CardSound'
    BY DEF PostInv, PostSound, CardSound
  <1> QED
    BY <1>3, <1>4 DEF PostInv

\* Nothing of the post, its requests and its likes moves, or only who sees it.
LEMMA PeopleMovePost ==
    ASSUME PostInv, UNCHANGED <<post, wanted, acked, request, like, likes, card, draft, lost>>,
           named' \subseteq People, inGroup' \subseteq People, active' \subseteq People
    PROVE  PostInv'
  <1>1. PostRequestsSound'
    BY PostRests DEF PostInv, PostRequestsSound
  <1>2. PostSound' /\ LikesSound' /\ CardSound'
    BY DEF PostInv, PostSound, LikesSound, Post!EachToggleCounts, CardSound
  <1> QED
    BY <1>1, <1>2 DEF PostInv

LEMMA CreateKeepsPost == ASSUME PostInv, Post!Create PROVE PostInv'
  <1>1. PICK to \in Post!Kinds, needs \in BOOLEAN, names \in SUBSET active :
           /\ post.version = 0
           /\ post' = [version |-> 1, ack |-> IF needs THEN 1 ELSE 0, needs |-> needs, live |-> TRUE, to |-> to]
           /\ named' = names /\ wanted' = Post!Owed(Post!Expand(to, names), 1, needs)
    BY Zenon DEF Post!Create
  <1>2. UNCHANGED <<acked, inGroup, groupOpen, active, card, draft, lost, like, likes, request>>
    BY DEF Post!Create, Post!page, Post!liking
  <1>3. /\ post' \in PostRows /\ post'.version = 1 /\ post'.needs = needs
        /\ post'.ack = IF needs THEN 1 ELSE 0
    BY <1>1 DEF PostRows
  <1>4. wanted = {} /\ acked = {} /\ card = 0 /\ draft = 0
    BY <1>1 DEF PostInv, PostSound, CardSound
  <1>5. Post!Expand(to, names) \subseteq People
    BY DEF Post!Expand, PostInv, PostSound
  <1>6. PostSound'
    BY <1>1, <1>2, <1>3, <1>4, <1>5 DEF PostSound, PostInv, Post!Owed
  <1>7. \A s \in Slots : request[s] = Idle
    BY <1>1 DEF PostInv, PostRequestsSound, PostRequest, ReadBefore
  <1>8. PostRequestsSound'
    BY <1>2, <1>7 DEF PostRequestsSound, PostInv
  <1>9. LikesSound' /\ CardSound'
    BY <1>2, <1>3, <1>4 DEF PostInv, LikesSound, Post!EachToggleCounts, CardSound
  <1> QED
    BY <1>6, <1>8, <1>9 DEF PostInv

LEMMA AudienceOfPeople == PostInv => Post!Audience \subseteq People
  BY DEF Post!Audience, Post!Expand, PostInv, PostSound

\* A new version of the post: what was read before stays older than it.
LEMMA NewVersion ==
    ASSUME PostInv, NEW s \in Slots, Post!End(s), post' \in PostRows, post'.version = post.version + 1,
           post'.ack >= post.ack, wanted \subseteq wanted', UNCHANGED <<like, likes, card, draft>>, ~lost', PostSound'
    PROVE  PostInv'
  <1>1. DOMAIN request' = Slots /\ request'[s] = Idle /\ \A t \in Slots \ {s} : request'[t] = request[t]
    BY DEF Post!End, PostInv, PostRequestsSound
  <1>2. post.version \in Nat
    BY DEF PostInv, PostSound, PostRows
  <1>3. \A p : ReadBefore(p) => ReadBefore(p)'
    BY <1>2 DEF ReadBefore
  <1>4. \A r : PostRequest(r) => PostRequest(r)'
    BY <1>3 DEF PostRequest
  <1>5. PostRequestsSound'
    BY <1>1, <1>4 DEF PostInv, PostRequestsSound
  <1>6. LikesSound' /\ CardSound'
    BY <1>2 DEF PostInv, LikesSound, Post!EachToggleCounts, CardSound
  <1> QED
    BY <1>5, <1>6 DEF PostInv

LEMMA CommitUpdateKeepsPost == ASSUME PostInv, NEW s \in Slots, Post!CommitUpdate(s) PROVE PostInv'
  <1>1. PICK r : r = request[s]
    OBVIOUS
  <1>2. /\ r # Idle /\ r.op = "update" /\ post.live /\ post.version = r.v.version
        /\ wanted' = wanted \cup Post!Owed(r.y, Post!NextAck(r.v), post.needs)
        /\ lost' = (lost \/ r.x # post.version)
        /\ Post!End(s) /\ UNCHANGED <<acked, named, inGroup, active, card, draft, like, likes>>
    BY <1>1 DEF Post!CommitUpdate, Post!At, Post!Unmoved, Post!people, Post!liking
  <1>3. post' = [post EXCEPT !.version = r.v.version + 1, !.ack = Post!NextAck(r.v)]
    BY <1>1 DEF Post!CommitUpdate
  <1>4. PostRequest(r)
    BY <1>1, <1>2 DEF PostInv, PostRequestsSound
  <1>5. r.v = post /\ r.x = post.version /\ r.y \subseteq People
    BY <1>2, <1>4 DEF PostRequest, ReadBefore
  <1>6. post \in PostRows /\ wanted \subseteq People \X (1 .. post.ack) /\ acked \subseteq wanted
        /\ (~post.needs => wanted = {} /\ post.ack = 0)
    BY DEF PostInv, PostSound
  <1>7. PICK n : n = Post!NextAck(post)
    OBVIOUS
  <1>8. n \in Nat /\ n = IF post.needs THEN post.ack + 1 ELSE 0
    BY <1>6, <1>7 DEF Post!NextAck, PostRows
  <1>k. PICK k : k = post.version + 1
    OBVIOUS
  <1>p. post' = [post EXCEPT !.version = k, !.ack = n] /\ k \in Nat /\ k # 0
    BY <1>3, <1>5, <1>6, <1>7, <1>k DEF PostRows
  <1>9. /\ post' \in PostRows /\ post'.version = k /\ post'.ack = n /\ post'.needs = post.needs
    BY <1>6, <1>8, <1>p DEF PostRows
  <1>10. wanted' \subseteq People \X (1 .. n) /\ (~post.needs => wanted' = {})
    <2>1. CASE post.needs
      <3>1. wanted' = wanted \cup ((r.y \ {Creator}) \X {n})
        BY <1>2, <1>5, <1>7, <2>1 DEF Post!Owed
      <3>2. 1 .. post.ack \subseteq 1 .. n /\ n \in 1 .. n
        BY <1>6, <1>8, <2>1 DEF PostRows
      <3> QED
        BY <1>5, <1>6, <2>1, <3>1, <3>2
    <2>2. CASE ~post.needs
      BY <1>2, <1>6, <2>2 DEF Post!Owed
    <2> QED
      BY <2>1, <2>2
  <1>11. PostSound'
    <2>1. named' \subseteq People /\ inGroup' \subseteq People /\ active' \subseteq People
      BY <1>2 DEF PostInv, PostSound
    <2>2. acked' \subseteq wanted' /\ (~post'.needs => wanted' = {} /\ post'.ack = 0)
      BY <1>2, <1>6, <1>8, <1>9, <1>10
    <2> QED
      BY <1>9, <1>10, <1>p, <2>1, <2>2 DEF PostSound
  <1>12. ~lost'
    BY <1>2, <1>5 DEF PostInv, CardSound
  <1>13. post'.ack >= post.ack /\ wanted \subseteq wanted'
    BY <1>2, <1>6, <1>8, <1>9 DEF PostRows
  <1> QED
    BY <1>2, <1>9, <1>11, <1>12, <1>13, <1>k, NewVersion

LEMMA CommitArchiveKeepsPost == ASSUME PostInv, NEW s \in Slots, Post!CommitArchive(s) PROVE PostInv'
  <1>1. /\ post' = [post EXCEPT !.version = @ + 1, !.live = FALSE] /\ post.live
        /\ Post!End(s) /\ UNCHANGED <<wanted, acked, named, inGroup, active, card, draft, lost, like, likes>>
    BY DEF Post!CommitArchive, Post!Unmoved, Post!rows, Post!people, Post!page, Post!liking
  <1>2. post \in PostRows
    BY DEF PostInv, PostSound
  <1>3. PICK n : n = post.version + 1
    OBVIOUS
  <1>4. post' = [post EXCEPT !.version = n, !.live = FALSE] /\ n \in Nat /\ n # 0
    BY <1>1, <1>2, <1>3 DEF PostRows
  <1>5. /\ post' \in PostRows /\ post'.version = n /\ post'.ack = post.ack /\ post'.needs = post.needs
    BY <1>2, <1>4 DEF PostRows
  <1>6. PostSound'
    BY <1>1, <1>4, <1>5 DEF PostInv, PostSound
  <1>7. post'.ack >= post.ack
    BY <1>2, <1>5 DEF PostRows
  <1>8. ~lost'
    BY <1>1 DEF PostInv, CardSound
  <1> QED
    BY <1>1, <1>3, <1>5, <1>6, <1>7, <1>8, NewVersion

LEMMA CommitAckKeepsPost == ASSUME PostInv, NEW s \in Slots, Post!CommitAck(s) PROVE PostInv'
  <1>1. PICK r : r = request[s]
    OBVIOUS
  <1>2. /\ r # Idle /\ r.op = "ack" /\ acked' = acked \cup {<<r.by, r.v.ack>>}
        /\ Post!End(s) /\ UNCHANGED <<post, wanted, named, inGroup, active, card, draft, lost, like, likes>>
    BY <1>1 DEF Post!CommitAck, Post!At, Post!people, Post!page, Post!liking
  <1>3. <<r.by, r.v.ack>> \in wanted
    BY <1>1, <1>2 DEF PostInv, PostRequestsSound, PostRequest
  <1>4. acked \subseteq acked' /\ acked' \subseteq wanted
    BY <1>2, <1>3 DEF PostInv, PostSound
  <1>5. LikesSound'
    BY <1>2 DEF PostInv, LikesSound, Post!EachToggleCounts
  <1> QED
    BY <1>2, <1>4, <1>5, EndsPost

LEMMA OddsAndEvens == \A t \in Nat : ((t + 1) % 2 = 1) <=> ~(t % 2 = 1)
  OBVIOUS

LEMMA CommitToggleKeepsPost == ASSUME PostInv, NEW s \in Slots, Post!CommitToggle(s) PROVE PostInv'
  <1>1. PICK r : r = request[s]
    OBVIOUS
  <1>2. PICK u : u = r.by
    OBVIOUS
  <1>3. PICK n : n = likes[u].rows + 1
    OBVIOUS
  <1>4. PICK t : t = likes[u].toggles
    OBVIOUS
  <1>5. /\ r # Idle /\ r.op = "like"
        /\ Post!End(s) /\ UNCHANGED <<post, wanted, acked, named, inGroup, active, card, draft, lost>>
    BY <1>1 DEF Post!CommitToggle, Post!At, Post!rows, Post!people, Post!page
  <1>6. u \in People /\ like[u] \in Nat /\ likes[u] \in [rows : Nat, toggles : Nat]
    BY <1>1, <1>2, <1>5 DEF PostInv, PostRequestsSound, PostRequest, LikesSound
  <1>7. t \in Nat /\ n \in Nat /\ n # 0
    BY <1>3, <1>4, <1>6
  <1>8. \/ r.x = 0 /\ like[u] = 0 /\ like' = [like EXCEPT ![u] = n]
        \/ r.x # 0 /\ like[u] = r.x /\ like' = [like EXCEPT ![u] = 0]
    BY <1>1, <1>2, <1>3 DEF Post!CommitToggle, Post!Unique
  <1>9. PICK y : y = [rows |-> IF r.x = 0 THEN n ELSE likes[u].rows, toggles |-> t + 1]
    OBVIOUS
  <1>10. likes' = [likes EXCEPT ![u] = y]
    BY <1>1, <1>2, <1>3, <1>4, <1>6, <1>9 DEF Post!CommitToggle, PostInv, LikesSound
  <1>11. y \in [rows : Nat, toggles : Nat] /\ y.toggles = t + 1
    BY <1>6, <1>7, <1>9
  <1>12. /\ like' \in [People -> Nat] /\ likes' \in [People -> [rows : Nat, toggles : Nat]]
         /\ \A o \in People \ {u} : like'[o] = like[o] /\ likes'[o] = likes[o]
         /\ likes'[u] = y /\ (like'[u] # 0 <=> ~(like[u] # 0))
    BY <1>6, <1>7, <1>8, <1>10, <1>11 DEF PostInv, LikesSound
  <1>13. (like[u] # 0) <=> (t % 2 = 1)
    BY <1>4, <1>6 DEF PostInv, LikesSound, Post!EachToggleCounts
  <1>14. (like'[u] # 0) <=> (likes'[u].toggles % 2 = 1)
    BY <1>7, <1>11, <1>12, <1>13, OddsAndEvens
  <1>15. Post!EachToggleCounts'
    BY <1>12, <1>14 DEF PostInv, LikesSound, Post!EachToggleCounts
  <1>16. acked \subseteq wanted
    BY DEF PostInv, PostSound
  <1> QED
    BY <1>5, <1>12, <1>15, <1>16, EndsPost DEF LikesSound

LEMMA RequestsKeepPost ==
    ASSUME PostInv, NEW s \in Slots,
           \/ Post!BeginUpdate(s) \/ Post!BeginOther(s) \/ Post!BeginArchive(s) \/ Post!BeginAck(s)
           \/ Post!BeginToggle(s) \/ Post!BeginComment(s)
    PROVE  PostInv'
  <1>1. \A u : Post!Accessible(u) => post.live
    BY DEF Post!Accessible
  <1>2. CASE Post!BeginUpdate(s)
    <2>1. /\ post.live /\ draft = post.version /\ Post!Begin(s, "update", Creator, draft, Post!Audience)
      BY <1>1, <1>2 DEF Post!BeginUpdate, PostInv, CardSound
    <2> QED
      BY <2>1, AudienceOfPeople, BeginsPost
  <1>3. CASE Post!BeginOther(s)
    <2>1. post.live /\ Post!Begin(s, "update", Creator, post.version, Post!Audience)
      BY <1>1, <1>3 DEF Post!BeginOther
    <2> QED
      BY <2>1, AudienceOfPeople, BeginsPost
  <1>4. CASE Post!BeginArchive(s)
    <2>1. post.live /\ Post!Begin(s, "archive", Creator, 0, {})
      BY <1>1, <1>4 DEF Post!BeginArchive
    <2> QED
      BY <2>1, BeginsPost
  <1>5. CASE Post!BeginAck(s)
    <2>1. PICK u \in People : post.live /\ <<u, post.ack>> \in wanted /\ Post!Begin(s, "ack", u, 0, {})
      BY <1>1, <1>5 DEF Post!BeginAck, Post!Asked
    <2> QED
      BY <2>1, BeginsPost
  <1>6. CASE Post!BeginToggle(s)
    <2>1. PICK u \in People : post.live /\ Post!Begin(s, "like", u, like[u], {})
      BY <1>1, <1>6 DEF Post!BeginToggle
    <2> QED
      BY <2>1, BeginsPost
  <1>7. CASE Post!BeginComment(s)
    <2>1. PICK u \in People : \E m \in SUBSET ((Post!Audience \cup {u}) \ {Creator}) :
             Post!Accessible(u) /\ Post!Begin(s, "comment", u, m, (Post!Audience \cup {Creator}) \cap active)
      BY <1>7, Zenon DEF Post!BeginComment
    <2>2. PICK m \in SUBSET ((Post!Audience \cup {u}) \ {Creator}) :
             Post!Accessible(u) /\ Post!Begin(s, "comment", u, m, (Post!Audience \cup {Creator}) \cap active)
      BY <2>1
    <2> QED
      BY <1>1, <2>2, BeginsPost
  <1> QED
    BY <1>2, <1>3, <1>4, <1>5, <1>6, <1>7

LEMMA QuietCommitsKeepPost ==
    ASSUME PostInv, NEW s \in Slots, Post!CommitComment(s) \/ Post!Refuse(s)
    PROVE  PostInv'
  <1>1. /\ Post!End(s)
        /\ UNCHANGED <<post, wanted, acked, named, inGroup, active, card, draft, lost, like, likes>>
    BY DEF Post!CommitComment, Post!Refuse, Post!rows, Post!people, Post!page, Post!liking
  <1>2. LikesSound' /\ acked \subseteq acked' /\ acked' \subseteq wanted
    BY <1>1 DEF PostInv, LikesSound, Post!EachToggleCounts, PostSound
  <1> QED
    BY <1>1, <1>2, EndsPost

LEMMA RefetchKeepsPost == ASSUME PostInv, Post!Refetch PROVE PostInv'
  <1>1. /\ card' = post.version /\ draft' = card'
        /\ UNCHANGED <<post, named, inGroup, active, wanted, acked, like, likes, request, lost>>
    BY DEF Post!Refetch, Post!Body, Post!rows, Post!people, Post!talk, Post!liking
  <1>2. CardSound'
    BY <1>1 DEF PostInv, PostSound, PostRows, CardSound
  <1>3. PostRequestsSound'
    BY <1>1, PostRests DEF PostInv, PostRequestsSound
  <1>4. PostSound' /\ LikesSound'
    BY <1>1 DEF PostInv, PostSound, LikesSound, Post!EachToggleCounts
  <1> QED
    BY <1>2, <1>3, <1>4 DEF PostInv

LEMMA AudienceMovesKeepPost == ASSUME PostInv, Post!Move \/ Post!Subscribe PROVE PostInv'
  <1>1. UNCHANGED <<post, named, wanted, acked, request, like, likes, card, draft, lost>>
    BY DEF Post!Move, Post!Subscribe, Post!rows, Post!page, Post!people, Post!liking
  <1>2. active \subseteq People /\ inGroup \subseteq People /\ named \subseteq People
    BY DEF PostInv, PostSound
  <1>3. active' \subseteq People /\ inGroup' \subseteq People
    BY <1>2 DEF Post!Move, Post!Subscribe, Post!people
  <1> QED
    BY <1>1, <1>2, <1>3, PeopleMovePost

LEMMA StepKeepsPost ==
    PostInv /\ (Post!TextNext \/ Post!TalkNext \/ UNCHANGED Post!vars) => PostInv'
  <1> SUFFICES ASSUME PostInv, Post!TextNext \/ Post!TalkNext \/ UNCHANGED Post!vars PROVE PostInv'
    OBVIOUS
  <1>1. CASE UNCHANGED Post!vars
    <2>1. UNCHANGED <<post, named, inGroup, active, wanted, acked, request, like, likes, card, draft, lost>>
      BY <1>1 DEF Post!vars, Post!rows, Post!people, Post!talk, Post!page, Post!liking
    <2> QED
      BY <2>1, PeopleMovePost DEF PostInv, PostSound
  <1> QED
    BY <1>1, CreateKeepsPost, RefetchKeepsPost, AudienceMovesKeepPost, RequestsKeepPost,
       CommitUpdateKeepsPost, CommitArchiveKeepsPost, CommitAckKeepsPost, CommitToggleKeepsPost,
       QuietCommitsKeepPost
    DEF Post!TextNext, Post!TalkNext

\* The post counts as the library does.
LEMMA PostCounts == \A S : Post!Cardinality(S) = Cardinality(S)
  BY DEF Cardinality, Post!Cardinality

LEMMA PostFollows == PostInv => Post!AcksHonest /\ Post!EachToggleCounts /\ Post!NoLostEdit
  <1> SUFFICES ASSUME PostInv PROVE Post!AcksHonest /\ Post!EachToggleCounts /\ Post!NoLostEdit
    OBVIOUS
  <1>0. /\ wanted \subseteq People \X (1 .. post.ack) /\ acked \subseteq wanted
        /\ ~post.needs => wanted = {}
    BY DEF PostInv, PostSound
  <1>1. ASSUME NEW u \in People
        PROVE  Post!PendingCount(u) = IF Post!AwaitsInList(u) THEN 1 ELSE 0
    <2> DEFINE Due == {r \in wanted : r[1] = u /\ r[2] = post.ack} \ acked
    <2>1. CASE <<u, post.ack>> \in wanted /\ <<u, post.ack>> \notin acked
      <3>1. Due = {<<u, post.ack>>}
        BY <1>0, <2>1
      <3>2. Post!Cardinality(Due) = 1
        BY <3>1, PostCounts, FS_Singleton
      <3>3. post.needs /\ \E v \in 1 .. post.ack : <<u, v>> \in wanted
        BY <1>0, <2>1
      <3> QED
        BY <2>1, <3>2, <3>3 DEF Post!PendingCount, Post!AwaitsInList
    <2>2. CASE ~(<<u, post.ack>> \in wanted /\ <<u, post.ack>> \notin acked)
      <3>1. Due = {}
        BY <1>0, <2>2
      <3>2. Post!Cardinality(Due) = 0
        BY <3>1, PostCounts, FS_EmptySet
      <3> QED
        BY <2>2, <3>2 DEF Post!PendingCount, Post!AwaitsInList
    <2> QED
      BY <2>1, <2>2
  <1>2. \A r \in wanted : r[2] \in 1 .. post.ack
    BY <1>0
  <1>3. ASSUME NEW u \in People, Post!Accessible(u)
        PROVE  (Post!Button(u) <=> Post!AwaitsInList(u)) /\ Post!View(u).given <= Post!View(u).of
    <2>1. PICK given : given = {r \in acked : Post!OfNow(r)}
      OBVIOUS
    <2>2. PICK of : of = {r \in wanted : Post!OfNow(r)}
      OBVIOUS
    <2>3. given \subseteq of /\ of \subseteq People \X {post.ack}
      BY <1>0, <2>1, <2>2 DEF Post!OfNow
    <2>4. IsFiniteSet(People \X {post.ack})
      <3>1. IsFiniteSet(Everyone) /\ People \in SUBSET Everyone
        BY ThreadAssumption, ThreadCounts DEF Thread!Wellformed, Everyone
      <3>2. IsFiniteSet(People) /\ IsFiniteSet({post.ack})
        BY <3>1, FS_Subset, FS_Singleton
      <3> QED
        BY <3>2, FS_Product
    <2>5. Cardinality(given) <= Cardinality(of)
      BY <2>3, <2>4, FS_Subset
    <2>6. Post!View(u) = [asked |-> <<u, post.ack>> \in wanted, has |-> <<u, post.ack>> \in acked,
                          given |-> Cardinality(given), of |-> Cardinality(of)]
      BY <2>1, <2>2, PostCounts DEF Post!View
    <2>7. Post!View(u).given <= Post!View(u).of
      BY <2>5, <2>6
    <2>8. <<u, post.ack>> \in wanted => post.needs /\ \E v \in 1 .. post.ack : <<u, v>> \in wanted
      BY <1>0
    <2>9. Post!Button(u) <=> post.needs /\ <<u, post.ack>> \in wanted /\ <<u, post.ack>> \notin acked
      BY DEF Post!Button, Post!View
    <2>10. Post!AwaitsInList(u) <=> post.needs /\ <<u, post.ack>> \in wanted /\ <<u, post.ack>> \notin acked
      BY <1>3, <2>8 DEF Post!AwaitsInList
    <2> QED
      BY <2>7, <2>9, <2>10
  <1> QED
    BY <1>0, <1>1, <1>2, <1>3 DEF Post!AcksHonest, PostInv, LikesSound, CardSound, Post!NoLostEdit

\* Whatever crosses an edit of a post: only who was asked has acknowledged, what
\* awaits an acknowledgement is what is counted; every toggle of a like counts; and
\* an edit replaces only the text it was made from.
THEOREM PostSafe == Spec => []PostHonest
  <1> DEFINE Inv == focus \in {"text", "talk"} => PostInv
  <1>1. Init => Inv
    BY InitPost DEF Init
  <1>2. Inv /\ [Next]_vars => Inv'
    BY StepKeepsPost
    DEF Next, vars, from9, Post!vars, Post!rows, Post!people, Post!talk, Post!page, Post!liking
  <1>3. Inv => PostHonest
    BY PostFollows DEF PostHonest
  <1> QED
    BY <1>1, <1>2, <1>3, PTL DEF Spec

\* A comment rings for the willing among those it was written for.
LEMMA CommentsRingTheWilling ==
    Post!TextNext \/ Post!TalkNext \/ UNCHANGED Post!vars => Post!OnlyWillingNotified
  <1> SUFFICES ASSUME Post!TextNext \/ Post!TalkNext \/ UNCHANGED Post!vars
               PROVE  Post!OnlyWillingNotified
    OBVIOUS
  <1>1. CASE UNCHANGED bell
    BY <1>1 DEF Post!OnlyWillingNotified
  <1>2. ASSUME NEW s \in Slots, Post!CommitComment(s) PROVE Post!OnlyWillingNotified
    <2>1. bell' = bell \cup
             {[user |-> u, mentioned |-> u \in request[s].x, on |-> comments'] :
              u \in {w \in request[s].y \ {request[s].by} :
                        Post!Willing(subscription'[w], w \in request[s].x)}}
      BY <1>2 DEF Post!CommitComment
    <2>2. ASSUME NEW n \in bell' \ bell
          PROVE  subscription'[n.user] = "ALL" \/ (subscription'[n.user] = "MENTIONS" /\ n.mentioned)
      <3>1. PICK w : /\ n = [user |-> w, mentioned |-> w \in request[s].x, on |-> comments']
                     /\ Post!Willing(subscription'[w], w \in request[s].x)
        BY <2>1, <2>2, Zenon
      <3>2. n.user = w /\ (n.mentioned <=> w \in request[s].x)
        BY <3>1, Zenon
      <3> QED
        BY <3>1, <3>2, Zenon DEF Post!Willing
    <2> QED
      BY <2>2 DEF Post!OnlyWillingNotified
  <1>3. CASE Post!Create \/ Post!Refetch \/ Post!Move \/ Post!Subscribe \/ UNCHANGED Post!vars
    BY <1>1, <1>3 DEF Post!Create, Post!Refetch, Post!Move, Post!Subscribe, Post!vars, Post!talk
  <1>4. ASSUME NEW s \in Slots,
               \/ Post!BeginUpdate(s) \/ Post!BeginOther(s) \/ Post!BeginArchive(s)
               \/ Post!BeginAck(s) \/ Post!BeginToggle(s) \/ Post!BeginComment(s)
        PROVE  UNCHANGED bell
    BY <1>4, Zenon DEF Post!BeginUpdate, Post!BeginOther, Post!BeginArchive, Post!BeginAck, Post!BeginToggle,
       Post!BeginComment, Post!Begin, Post!talk
  <1>5. ASSUME NEW s \in Slots,
               \/ Post!CommitUpdate(s) \/ Post!CommitArchive(s) \/ Post!CommitAck(s)
               \/ Post!CommitToggle(s) \/ Post!Refuse(s)
        PROVE  UNCHANGED bell
    BY <1>5 DEF Post!CommitUpdate, Post!CommitArchive, Post!CommitAck, Post!CommitToggle, Post!Refuse, Post!talk
  <1> QED
    BY <1>1, <1>2, <1>3, <1>4, <1>5 DEF Post!TextNext, Post!TalkNext

-----------------------------------------------------------------------------
(* The pages of the feed.  Places order the heads, so that a source has a  *)
(* rank among others: as many as stand above it.                           *)

Above(h, S, s) == {o \in S : h[o] > h[s]}
Rank(h, S, s)  == Cardinality(Above(h, S, s))
Ranked(h, S)   == /\ IsFiniteSet(S) /\ \A s \in S : h[s] \in Nat
                  /\ \A s, o \in S : h[s] = h[o] => s = o

LEMMA AboveFinite ==
    ASSUME NEW h, NEW S, Ranked(h, S), NEW s \in S
    PROVE  /\ IsFiniteSet(Above(h, S, s)) /\ Rank(h, S, s) \in Nat
           /\ Rank(h, S, s) < Cardinality(S)
  <1>1. IsFiniteSet(S) /\ Above(h, S, s) \in SUBSET S /\ s \notin Above(h, S, s)
    BY DEF Above, Ranked
  <1>2. /\ IsFiniteSet(Above(h, S, s)) /\ Cardinality(Above(h, S, s)) <= Cardinality(S)
        /\ (Cardinality(S) = Cardinality(Above(h, S, s)) => S = Above(h, S, s))
    BY <1>1, FS_Subset
  <1>3. Cardinality(S) \in Nat /\ Cardinality(Above(h, S, s)) \in Nat
    BY <1>1, <1>2, FS_CardinalityType
  <1> QED
    BY <1>1, <1>2, <1>3 DEF Rank

LEMMA RankFollowsPlace ==
    ASSUME NEW h, NEW S, Ranked(h, S), NEW s \in S, NEW o \in S
    PROVE  (h[o] > h[s]) <=> (Rank(h, S, o) < Rank(h, S, s))
  <1>0. h[s] \in Nat /\ h[o] \in Nat /\ \A x \in S : h[x] \in Nat
    BY DEF Ranked
  <1>1. ASSUME NEW x \in S, NEW y \in S, h[x] > h[y]
        PROVE  Rank(h, S, x) < Rank(h, S, y)
    <2>1. Above(h, S, x) \in SUBSET Above(h, S, y) /\ x \in Above(h, S, y) /\ x \notin Above(h, S, x)
      BY <1>0, <1>1 DEF Above
    <2>2. IsFiniteSet(Above(h, S, y)) /\ Rank(h, S, x) \in Nat /\ Rank(h, S, y) \in Nat
      BY AboveFinite
    <2>3. /\ Cardinality(Above(h, S, x)) <= Cardinality(Above(h, S, y))
          /\ Cardinality(Above(h, S, y)) = Cardinality(Above(h, S, x)) => Above(h, S, y) = Above(h, S, x)
      BY <2>1, <2>2, FS_Subset
    <2> QED
      BY <2>1, <2>2, <2>3 DEF Rank
  <1>2. Rank(h, S, s) \in Nat /\ Rank(h, S, o) \in Nat
    BY AboveFinite
  <1>3. CASE h[o] > h[s]
    BY <1>1, <1>3
  <1>4. CASE h[s] > h[o]
    BY <1>0, <1>1, <1>2, <1>4
  <1>5. CASE h[s] = h[o]
    BY <1>0, <1>2, <1>5 DEF Ranked
  <1> QED
    BY <1>0, <1>3, <1>4, <1>5

\* Every rank is taken.
LEMMA RanksTaken ==
    ASSUME NEW h, NEW S, Ranked(h, S), NEW k \in Nat, k < Cardinality(S)
    PROVE  \E s \in S : Rank(h, S, s) = k
  <1>1. IsFiniteSet(S) /\ Cardinality(S) \in Nat
    BY FS_CardinalityType DEF Ranked
  <1>2. PICK n : n = Cardinality(S)
    OBVIOUS
  <1>3. PICK T : T = 0 .. n - 1
    OBVIOUS
  <1>4. IsFiniteSet(T) /\ Cardinality(T) = n
    <2>1. n \in Nat /\ 0 \in Int /\ n - 1 \in Int
      BY <1>1, <1>2
    <2>2. IsFiniteSet(0 .. n - 1) /\ Cardinality(0 .. n - 1) = IF 0 > n - 1 THEN 0 ELSE n - 1 - 0 + 1
      BY <2>1, FS_Interval
    <2> QED
      BY <1>3, <2>1, <2>2
  <1>5. PICK f : f = [s \in S |-> Rank(h, S, s)]
    OBVIOUS
  <1>6. \A s \in S : f[s] = Rank(h, S, s) /\ f[s] \in T
    BY <1>1, <1>2, <1>3, <1>5, AboveFinite
  <1>7. \A s, o \in S : f[s] = f[o] => s = o
    <2> SUFFICES ASSUME NEW s \in S, NEW o \in S, f[s] = f[o] PROVE s = o
      OBVIOUS
    <2>1. Rank(h, S, s) = Rank(h, S, o) /\ Rank(h, S, s) \in Nat
      BY <1>6, AboveFinite
    <2>2. ~(h[o] > h[s]) /\ ~(h[s] > h[o])
      BY <2>1, RankFollowsPlace
    <2>3. h[s] \in Nat /\ h[o] \in Nat
      BY DEF Ranked
    <2> QED
      BY <2>2, <2>3 DEF Ranked
  <1>8. f \in Injection(S, T)
    BY <1>5, <1>6, <1>7 DEF Injection, IsInjective
  <1>9. f \in Surjection(S, T)
    BY <1>2, <1>4, <1>8, FS_Injection
  <1>10. k \in T
    BY <1>1, <1>2, <1>3
  <1> QED
    BY <1>6, <1>9, <1>10 DEF Surjection

\* One stands above all others, and one below.
LEMMA Extremes ==
    ASSUME NEW h, NEW S, Ranked(h, S), S # {}
    PROVE  /\ \E s \in S : \A o \in S : h[o] <= h[s]
           /\ \E s \in S : \A o \in S : h[s] <= h[o]
  <1>1. Cardinality(S) \in Nat /\ Cardinality(S) # 0
    BY FS_CardinalityType, FS_EmptySet DEF Ranked
  <1>2. \A s, o \in S : Rank(h, S, o) >= Rank(h, S, s) => h[o] <= h[s]
    BY RankFollowsPlace, AboveFinite DEF Ranked
  <1>3. PICK s \in S : Rank(h, S, s) = 0
    BY <1>1, RanksTaken
  <1>4. PICK n : n = Cardinality(S) - 1
    OBVIOUS
  <1>5. PICK o \in S : Rank(h, S, o) = n
    BY <1>1, <1>4, RanksTaken
  <1>6. \A x \in S : h[x] <= h[s]
    BY <1>2, <1>3, AboveFinite
  <1>7. \A x \in S : Rank(h, S, x) <= n
    BY <1>1, <1>4, AboveFinite
  <1>8. \A x \in S : h[o] <= h[x]
    BY <1>2, <1>4, <1>5, <1>7
  <1> QED
    BY <1>6, <1>8

\* The first n of a set: nothing that stands above one of them is left out, and if
\* they are not n they are all.
First(h, S, n) == {s \in S : Rank(h, S, s) < n}

LEMMA FirstOnes ==
    ASSUME NEW h, NEW S, Ranked(h, S), NEW n \in Nat \ {0}
    PROVE  /\ \A s \in First(h, S, n) : \A o \in S : h[o] >= h[s] => o \in First(h, S, n)
           /\ S # {} => First(h, S, n) # {}
           /\ Cardinality(First(h, S, n)) # n => First(h, S, n) = S
  <1>0. \A s \in S : h[s] \in Nat /\ Rank(h, S, s) \in Nat
    BY AboveFinite DEF Ranked
  <1>1. ASSUME NEW s \in First(h, S, n), NEW o \in S, h[o] >= h[s] PROVE o \in First(h, S, n)
    <2>1. s \in S /\ Rank(h, S, s) < n
      BY DEF First
    <2>2. Rank(h, S, o) <= Rank(h, S, s)
      <3>1. CASE h[o] > h[s]
        BY <1>0, <2>1, <3>1, RankFollowsPlace
      <3>2. CASE h[o] = h[s]
        BY <1>0, <2>1, <3>2 DEF Ranked
      <3> QED
        BY <1>0, <1>1, <2>1, <3>1, <3>2
    <2> QED
      BY <1>0, <2>1, <2>2 DEF First
  <1>2. ASSUME S # {} PROVE First(h, S, n) # {}
    <2>1. Cardinality(S) \in Nat /\ Cardinality(S) # 0
      BY <1>2, FS_CardinalityType, FS_EmptySet DEF Ranked
    <2>2. PICK s \in S : Rank(h, S, s) = 0
      BY <2>1, RanksTaken
    <2> QED
      BY <2>2 DEF First
  <1>3. ASSUME NEW x \in S, x \notin First(h, S, n) PROVE Cardinality(First(h, S, n)) = n
    <2>1. Rank(h, S, x) >= n /\ Rank(h, S, x) < Cardinality(S) /\ Cardinality(S) \in Nat
      BY <1>0, <1>3, AboveFinite, FS_CardinalityType DEF First, Ranked
    <2>2. PICK F : F = First(h, S, n)
      OBVIOUS
    <2>3. IsFiniteSet(F)
      BY <2>2, FS_Subset DEF First, Ranked
    <2>4. PICK T : T = 0 .. n - 1
      OBVIOUS
    <2>5. IsFiniteSet(T) /\ Cardinality(T) = n
      <3>1. 0 \in Int /\ n - 1 \in Int
        OBVIOUS
      <3>2. IsFiniteSet(0 .. n - 1) /\ Cardinality(0 .. n - 1) = IF 0 > n - 1 THEN 0 ELSE n - 1 - 0 + 1
        BY <3>1, FS_Interval
      <3> QED
        BY <2>4, <3>1, <3>2
    <2>6. PICK f : f = [s \in F |-> Rank(h, S, s)]
      OBVIOUS
    <2>7. \A s \in F : f[s] = Rank(h, S, s) /\ f[s] \in T /\ s \in S
      BY <1>0, <2>2, <2>4, <2>6 DEF First
    <2>8. \A s, o \in F : f[s] = f[o] => s = o
      <3> SUFFICES ASSUME NEW s \in F, NEW o \in F, f[s] = f[o] PROVE s = o
        OBVIOUS
      <3>1. Rank(h, S, s) = Rank(h, S, o) /\ s \in S /\ o \in S
        BY <2>7
      <3>2. ~(h[o] > h[s]) /\ ~(h[s] > h[o])
        BY <1>0, <3>1, RankFollowsPlace
      <3> QED
        BY <1>0, <3>1, <3>2 DEF Ranked
    <2>9. f \in Injection(F, T)
      BY <2>6, <2>7, <2>8 DEF Injection, IsInjective
    <2>10. \A k \in T : \E s \in F : f[s] = k
      <3> SUFFICES ASSUME NEW k \in T PROVE \E s \in F : f[s] = k
        OBVIOUS
      <3>1. k \in Nat /\ k < n /\ k < Cardinality(S)
        BY <1>0, <2>1, <2>4
      <3>2. PICK s \in S : Rank(h, S, s) = k
        BY <3>1, RanksTaken
      <3> QED
        BY <2>2, <2>7, <3>1, <3>2 DEF First
    <2>11. f \in Surjection(F, T)
      BY <2>6, <2>7, <2>10 DEF Surjection
    <2> QED
      BY <2>2, <2>5, <2>9, <2>11, FS_Injection
  <1> QED
    BY <1>1, <1>2, <1>3 DEF First

(* A user who reads the feed.                                              *)

head   == x1
counts == x2
row    == x3
shown  == x4
cursor == x5
clock  == x6
walk   == x7
marker == x8
sent   == x9
calm   == x10
past   == x12
seed   == x13
marking == x14
heard  == x15
USE DEF head, counts, row, shown, cursor, clock, walk, marker, sent, calm, past, seed, marking, heard

\* Live places come after all others, and a place is taken once.
PlacesSound ==
    /\ head \in [Sources -> Nat] /\ clock \in Nat /\ cursor \in Nat
    /\ Cutover <= clock /\ clock <= Places /\ marker <= clock /\ sent <= clock
    /\ \A s \in Sources : head[s] <= clock
    /\ \A s, o \in Sources : head[s] = head[o] /\ head[s] # 0 => s = o
    /\ marker \in Nat /\ sent \in Nat /\ row \subseteq Sources /\ shown \subseteq Sources

\* The marker is the newest entry, and once it has been taken the cursor is there.
MarkersSound ==
    /\ calm /\ marker # 0 =>
          /\ \E s \in Reading!Heads : head[s] = marker
          /\ \A s \in Reading!Heads \cap shown : head[s] <= marker
    /\ heard /\ marker # 0 => marker <= cursor

\* What the pages so far have shown is what there was above the cursor.
WalkShown(w) ==
    /\ \A i \in 1 .. Len(w.seen) : w.seen[i] \in w.calm => w.next <= head[w.seen[i]]
    /\ \A i, j \in 1 .. Len(w.seen) :
          i < j /\ w.seen[i] \in w.calm /\ w.seen[j] \in w.calm => head[w.seen[i]] > head[w.seen[j]]
    /\ \A s \in w.calm \cap Reading!Heads \cap shown :
          w.next <= head[s] => \E i \in 1 .. Len(w.seen) : w.seen[i] = s

Walks     == [seen : Seq(Sources), next : Nat, calm : SUBSET Sources]
WalkSound == walk \in Walks /\ WalkShown(walk)

\* The importer writes what is newer than the cursor, unless a marker was taken.
SeedSound ==
    /\ past \in [Sources -> 0 .. Cutover]
    /\ seed \in [latest : 0 .. Cutover, behind : BOOLEAN, crossed : BOOLEAN]
    /\ seed.crossed => seed.behind
    /\ seed.behind /\ ~seed.crossed => cursor < seed.latest
    /\ \A q \in marking : q \in [to : Nat, found : BOOLEAN] /\ q.to # 0 /\ q.to <= clock

ReadingInv == PlacesSound /\ MarkersSound /\ WalkSound /\ SeedSound

LEMMA ReadingCounts == \A S : Reading!Cardinality(S) = Cardinality(S)
  BY DEF Cardinality, Reading!Cardinality

LEMMA HeadsRanked ==
    ASSUME PlacesSound, NEW S \in SUBSET Reading!Heads
    PROVE  Ranked(head, S)
  <1>1. IsFiniteSet(S)
    BY PagesAssumption, FS_Subset DEF Reading!Heads
  <1> QED
    BY <1>1 DEF Ranked, Reading!Heads, PlacesSound

LEMMA NewestAreFirst ==
    ASSUME NEW S, NEW n PROVE Reading!Newest(S, n) = First(head, S, n)
  BY ReadingCounts DEF Reading!Newest, First, Rank, Above

\* The entries of a page, from the newest on.
LEMMA Ordering ==
    ASSUME PlacesSound, NEW S \in SUBSET Reading!Heads
    PROVE  /\ Reading!Ordered(S) \in Seq(Sources) /\ Len(Reading!Ordered(S)) = Cardinality(S)
           /\ \A i \in 1 .. Cardinality(S) : Reading!Ordered(S)[i] \in S
           /\ \A i, j \in 1 .. Cardinality(S) :
                 i < j => head[Reading!Ordered(S)[i]] > head[Reading!Ordered(S)[j]]
           /\ \A s \in S : \E i \in 1 .. Cardinality(S) : Reading!Ordered(S)[i] = s
  <1>1. Ranked(head, S) /\ Cardinality(S) \in Nat
    BY HeadsRanked, FS_CardinalityType DEF Ranked
  <1>2. PICK n \in Nat : n = Cardinality(S)
    BY <1>1
  <1>3. PICK q : q = Reading!Ordered(S)
    OBVIOUS
  <1>4. q = [i \in 1 .. n |-> CHOOSE s \in S : Rank(head, S, s) = i - 1]
    BY <1>2, <1>3 DEF Reading!Ordered, Rank, Above, Cardinality, Reading!Cardinality
  <1>5. \A i \in 1 .. n : q[i] \in S /\ Rank(head, S, q[i]) = i - 1
    <2> SUFFICES ASSUME NEW i \in 1 .. n PROVE q[i] \in S /\ Rank(head, S, q[i]) = i - 1
      OBVIOUS
    <2>1. i - 1 \in Nat /\ i - 1 < Cardinality(S)
      BY <1>2
    <2>2. \E s \in S : Rank(head, S, s) = i - 1
      BY <1>1, <2>1, RanksTaken
    <2> QED
      BY <1>4, <2>2
  <1>6. S \subseteq Sources
    BY DEF Reading!Heads
  <1>7. q \in Seq(Sources) /\ Len(q) = n
    <2>1. DOMAIN q = 1 .. n /\ \A i \in 1 .. n : q[i] \in Sources
      BY <1>4, <1>5, <1>6
    <2>2. q \in [1 .. n -> Sources]
      BY <1>4, <2>1
    <2>3. q \in Seq(Sources)
      BY <2>2, SeqDef, Zenon
    <2> QED
      BY <2>1, <2>3, LenProperties
  <1>8. ASSUME NEW i \in 1 .. n, NEW j \in 1 .. n, i < j PROVE head[q[i]] > head[q[j]]
    BY <1>1, <1>5, <1>8, RankFollowsPlace
  <1>9. ASSUME NEW s \in S PROVE \E i \in 1 .. n : q[i] = s
    <2>1. Rank(head, S, s) \in Nat /\ Rank(head, S, s) < n
      BY <1>1, <1>2, AboveFinite
    <2>2. PICK i \in 1 .. n : i = Rank(head, S, s) + 1
      BY <2>1
    <2>3. q[i] \in S /\ Rank(head, S, q[i]) = Rank(head, S, s)
      BY <1>5, <2>1, <2>2
    <2>4. ~(head[q[i]] > head[s]) /\ ~(head[s] > head[q[i]])
      BY <1>1, <2>1, <2>3, RankFollowsPlace
    <2> QED
      BY <1>1, <2>3, <2>4 DEF Ranked
  <1> QED
    BY <1>2, <1>3, <1>5, <1>7, <1>8, <1>9

LEMMA LastIsLeast ==
    ASSUME PlacesSound, NEW S \in SUBSET Reading!Heads, S # {}
    PROVE  \E s \in S : Reading!Last(S) = head[s] /\ \A o \in S : head[s] <= head[o]
  <1>1. PICK s \in S : \A o \in S : head[s] <= head[o]
    BY HeadsRanked, Extremes
  <1>2. \E n \in {head[o] : o \in S} : \A o \in S : n <= head[o]
    BY <1>1
  <1>3. /\ Reading!Last(S) \in {head[o] : o \in S}
        /\ \A o \in S : Reading!Last(S) <= head[o]
    BY <1>2, Zenon DEF Reading!Last
  <1>4. PICK x \in S : Reading!Last(S) = head[x]
    BY <1>3
  <1> QED
    BY <1>3, <1>4

\* A page shows, in order, all that stands between the cursors and can be read.
LEMMA PageShows ==
    ASSUME PlacesSound, NEW from \in Nat, NEW p, p = Reading!Page(from)
    PROVE  /\ p.items \in Seq(Sources) /\ p.next \in Nat /\ p.next <= from
           /\ \A i \in 1 .. Len(p.items) :
                 /\ p.items[i] \in Reading!Heads \cap shown
                 /\ head[p.items[i]] < from /\ p.next <= head[p.items[i]]
           /\ \A i, j \in 1 .. Len(p.items) : i < j => head[p.items[i]] > head[p.items[j]]
           /\ \A s \in Reading!Heads \cap shown :
                 head[s] < from /\ p.next <= head[s] => \E i \in 1 .. Len(p.items) : p.items[i] = s
  <1>1. PICK before : before = {s \in Reading!Heads : head[s] < from}
    OBVIOUS
  <1>2. PICK raw : raw = Reading!Newest(before, PageScan)
    OBVIOUS
  <1>3. PICK visible : visible = raw \cap shown
    OBVIOUS
  <1>4. PICK page : page = Reading!Newest(visible, PageLimit)
    OBVIOUS
  <1>5. p = [items |-> Reading!Ordered(page), next |-> Reading!After(raw, visible, page)]
    BY <1>1, <1>2, <1>3, <1>4 DEF Reading!Page, Reading!Readable
  <1>6. p.items = Reading!Ordered(page) /\ p.next = Reading!After(raw, visible, page)
    BY <1>5
  <1>7. raw = First(head, before, PageScan) /\ page = First(head, visible, PageLimit)
    BY <1>2, <1>4, NewestAreFirst
  <1>8. /\ before \subseteq Reading!Heads /\ raw \subseteq before /\ visible \subseteq raw
        /\ page \subseteq visible
    BY <1>1, <1>3, <1>7 DEF First
  <1>9. Ranked(head, before) /\ Ranked(head, raw) /\ Ranked(head, visible) /\ Ranked(head, page)
    BY <1>8, HeadsRanked
  <1>10. \A s \in Reading!Heads : head[s] \in Nat
    BY DEF Reading!Heads, PlacesSound
  <1>11. /\ \A s \in raw : \A o \in before : head[o] >= head[s] => o \in raw
         /\ before # {} => raw # {}
         /\ Cardinality(raw) # PageScan => raw = before
    BY <1>7, <1>9, PagesAssumption, FirstOnes
  <1>12. /\ \A s \in page : \A o \in visible : head[o] >= head[s] => o \in page
         /\ visible # {} => page # {}
    BY <1>7, <1>9, PagesAssumption, FirstOnes
  <1>13. /\ p.next \in Nat /\ p.next <= from /\ \A s \in page : p.next <= head[s]
         /\ \A s \in before \cap shown : p.next <= head[s] => s \in page
    <2>1. CASE page # visible
      <3>1. page # {} /\ p.next = Reading!Last(page)
        BY <1>6, <1>8, <1>12, <2>1 DEF Reading!After
      <3>2. PICK x \in page : Reading!Last(page) = head[x] /\ \A o \in page : head[x] <= head[o]
        BY <1>8, <3>1, LastIsLeast
      <3>3. ASSUME NEW s \in before \cap shown, p.next <= head[s] PROVE s \in page
        <4>1. head[s] >= head[x]
          BY <3>1, <3>2, <3>3
        <4>2. s \in raw
          BY <1>8, <1>11, <3>2, <4>1
        <4> QED
          BY <1>3, <1>12, <3>2, <4>1, <4>2
      <3> QED
        BY <1>1, <1>8, <1>10, <3>1, <3>2, <3>3
    <2>2. CASE page = visible /\ Cardinality(raw) = PageScan
      <3>1. raw # {} /\ p.next = Reading!Last(raw)
        BY <1>6, <2>2, ReadingCounts, PagesAssumption, FS_EmptySet DEF Reading!After
      <3>2. PICK x \in raw : Reading!Last(raw) = head[x] /\ \A o \in raw : head[x] <= head[o]
        BY <1>8, <3>1, LastIsLeast
      <3>3. ASSUME NEW s \in before \cap shown, p.next <= head[s] PROVE s \in page
        BY <1>3, <1>11, <2>2, <3>1, <3>2, <3>3
      <3> QED
        BY <1>1, <1>8, <1>10, <3>1, <3>2, <3>3
    <2>3. CASE page = visible /\ Cardinality(raw) # PageScan
      <3>1. p.next = 0 /\ raw = before
        BY <1>6, <1>11, <2>3, ReadingCounts DEF Reading!After
      <3> QED
        BY <1>3, <1>8, <1>10, <2>3, <3>1
    <2> QED
      BY <2>1, <2>2, <2>3
  <1>14. PICK q : q = p.items
    OBVIOUS
  <1>15. /\ q \in Seq(Sources) /\ Len(q) = Cardinality(page)
         /\ \A i \in 1 .. Len(q) : q[i] \in page
         /\ \A i, j \in 1 .. Len(q) : i < j => head[q[i]] > head[q[j]]
         /\ \A s \in page : \E i \in 1 .. Len(q) : q[i] = s
    <2>1. page \in SUBSET Reading!Heads /\ q = Reading!Ordered(page)
      BY <1>6, <1>8, <1>14
    <2> QED
      BY <2>1, Ordering
  <1>16. \A s \in page : s \in Reading!Heads \cap shown /\ head[s] < from
    BY <1>1, <1>3, <1>8
  <1>17. \A s \in Reading!Heads \cap shown : head[s] < from => s \in before \cap shown
    BY <1>1
  <1> QED
    BY <1>13, <1>14, <1>15, <1>16, <1>17

\* A page's cursor is a place that was given, or none.
LEMMA PageBounded ==
    ASSUME PlacesSound, NEW from \in Nat, NEW p, p = Reading!Page(from) PROVE p.next <= Places
  <1>1. PICK before : before = {s \in Reading!Heads : head[s] < from}
    OBVIOUS
  <1>2. PICK raw : raw = Reading!Newest(before, PageScan)
    OBVIOUS
  <1>3. PICK visible : visible = raw \cap shown
    OBVIOUS
  <1>4. PICK page : page = Reading!Newest(visible, PageLimit)
    OBVIOUS
  <1>5. p.next = Reading!After(raw, visible, page)
    BY <1>1, <1>2, <1>3, <1>4 DEF Reading!Page, Reading!Readable
  <1>6. raw = First(head, before, PageScan) /\ page = First(head, visible, PageLimit)
    BY <1>2, <1>4, NewestAreFirst
  <1>7. before \subseteq Reading!Heads /\ raw \subseteq before /\ visible \subseteq raw /\ page \subseteq visible
    BY <1>1, <1>3, <1>6 DEF First
  <1>8. visible # {} => page # {}
    BY <1>6, <1>7, HeadsRanked, PagesAssumption, FirstOnes
  <1>9. \A s \in Reading!Heads : head[s] \in Nat /\ head[s] <= Places
    BY PagesAssumption DEF Reading!Heads, PlacesSound
  <1>10. CASE page # visible
    <2>1. page # {} /\ p.next = Reading!Last(page)
      BY <1>5, <1>7, <1>8, <1>10 DEF Reading!After
    <2>2. PICK x \in page : Reading!Last(page) = head[x]
      BY <1>7, <2>1, LastIsLeast
    <2> QED
      BY <1>7, <1>9, <2>1, <2>2
  <1>11. CASE page = visible /\ Cardinality(raw) = PageScan
    <2>1. raw # {} /\ p.next = Reading!Last(raw)
      BY <1>5, <1>11, ReadingCounts, PagesAssumption, FS_EmptySet DEF Reading!After
    <2>2. PICK x \in raw : Reading!Last(raw) = head[x]
      BY <1>7, <2>1, LastIsLeast
    <2> QED
      BY <1>7, <1>9, <2>1, <2>2
  <1>12. CASE page = visible /\ Cardinality(raw) # PageScan
    BY <1>5, <1>12, ReadingCounts, PagesAssumption DEF Reading!After
  <1> QED
    BY <1>10, <1>11, <1>12

-----------------------------------------------------------------------------
LEMMA InitReading == Reading!Init => ReadingInv
  <1> SUFFICES ASSUME Reading!Init PROVE ReadingInv
    OBVIOUS
  <1>1. PlacesSound
    BY PagesAssumption DEF Reading!Init, PlacesSound
  <1>2. MarkersSound
    BY DEF Reading!Init, MarkersSound, Reading!Heads
  <1>3. walk = [seen |-> <<>>, next |-> 0, calm |-> {}]
    BY DEF Reading!Init
  <1>4. walk \in Walks /\ walk.calm = {} /\ walk.seen = <<>>
    BY <1>3 DEF Walks
  <1>5. WalkSound
    BY <1>4 DEF WalkSound, WalkShown
  <1>6. SeedSound
    <2>1. seed = [latest |-> 0, behind |-> FALSE, crossed |-> FALSE] /\ past = [s \in Sources |-> 0] /\ marking = {}
      BY DEF Reading!Init, Reading!Unseeded
    <2> QED
      BY <2>1, PagesAssumption DEF SeedSound
  <1> QED
    BY <1>1, <1>2, <1>5, <1>6 DEF ReadingInv

\* What happens to a source takes it out of what the walk says.
LEMMA TouchKeepsWalk ==
    ASSUME WalkSound, NEW s \in Sources, Reading!Touch(s),
           \A o \in Sources \ {s} : /\ head'[o] = head[o]
                                    /\ o \in row' <=> o \in row
                                    /\ o \in shown' <=> o \in shown
    PROVE  WalkSound'
  <1>1. walk \in Walks /\ walk' = [walk EXCEPT !.calm = @ \ {s}]
    BY DEF WalkSound, Reading!Touch
  <1>2. /\ walk' \in Walks /\ walk'.seen = walk.seen /\ walk'.next = walk.next
        /\ walk'.calm = walk.calm \ {s} /\ walk.calm \subseteq Sources
    BY <1>1 DEF Walks
  <1>3. \A o \in walk'.calm : head'[o] = head[o]
    BY <1>2
  <1>4. walk'.calm \cap Reading!Heads' \cap shown' \subseteq walk.calm \cap Reading!Heads \cap shown
    BY <1>2 DEF Reading!Heads
  <1> QED
    BY <1>2, <1>3, <1>4 DEF WalkSound, WalkShown

LEMMA LiveKeepsReading ==
    ASSUME ReadingInv, NEW s \in Sources, Reading!Live(s)
    PROVE  ReadingInv'
  <1>1. /\ clock < Places /\ clock' = clock + 1 /\ head' = [head EXCEPT ![s] = clock']
        /\ Reading!Touch(s) /\ UNCHANGED <<cursor, marker, sent, past, seed, marking, heard>> /\ calm' = FALSE
    BY DEF Reading!Live, Reading!Touch, Reading!marks
  <1>2. /\ row' \in {row \cup {s}, row \ {s}} /\ shown' \in {shown \cup {s}, shown \ {s}}
    BY DEF Reading!Live
  <1>3. PlacesSound
    BY DEF ReadingInv
  <1>4. head'[s] = clock + 1 /\ \A o \in Sources \ {s} : head'[o] = head[o]
    BY <1>1, <1>3 DEF PlacesSound
  <1>5. PlacesSound'
    BY <1>1, <1>2, <1>3, <1>4, PagesAssumption DEF PlacesSound
  <1>6. MarkersSound'
    BY <1>1 DEF ReadingInv, MarkersSound
  <1>7. WalkSound'
    BY <1>1, <1>2, <1>4, TouchKeepsWalk DEF ReadingInv
  <1>8. SeedSound'
    BY <1>1, <1>3 DEF ReadingInv, PlacesSound, SeedSound
  <1> QED
    BY <1>5, <1>6, <1>7, <1>8 DEF ReadingInv

LEMMA MoveKeepsReading ==
    ASSUME ReadingInv, NEW s \in Sources, Reading!Move(s)
    PROVE  ReadingInv'
  <1>1. /\ shown' = (shown \ {s}) \cup ({s} \ shown)
        /\ Reading!Touch(s) /\ UNCHANGED <<head, counts, row, cursor, clock, marker, sent, past, seed, marking, heard>>
        /\ calm' = FALSE
    BY DEF Reading!Move, Reading!Touch, Reading!marks
  <1>2. PlacesSound' /\ MarkersSound' /\ SeedSound'
    BY <1>1 DEF ReadingInv, PlacesSound, MarkersSound, SeedSound, Reading!Heads
  <1>3. WalkSound'
    BY <1>1, TouchKeepsWalk DEF ReadingInv
  <1> QED
    BY <1>2, <1>3 DEF ReadingInv

\* A source that is imported gets a place that was free, or keeps its head.
LEMMA ImportIs ==
    ASSUME ReadingInv, NEW s \in Sources, Reading!Import(s)
    PROVE  /\ \/ UNCHANGED <<head, counts, row, shown, walk, calm>>
              \/ /\ head[s] = 0 /\ head'[s] \in 1 .. Cutover /\ \A o \in Sources : head[o] # head'[s]
                 /\ \A o \in Sources \ {s} : head'[o] = head[o]
                 /\ head' \in [Sources -> Nat]
                 /\ counts' = counts \ {s} /\ row' = row \cup {s} /\ shown' = shown \cup {s}
                 /\ Reading!Touch(s) /\ calm' = FALSE
           /\ past' \in [Sources -> 0 .. Cutover]
           /\ UNCHANGED <<cursor, clock, marker, sent, seed, marking, heard>>
  <1>0. PlacesSound /\ SeedSound
    BY DEF ReadingInv
  <1>1. PICK place \in 1 .. Cutover :
           /\ \A o \in Sources : place \notin {head[o], past[o]}
           /\ past' = [past EXCEPT ![s] = place]
           /\ IF head[s] # 0 THEN UNCHANGED <<head, counts, row, shown, walk, calm>>
              ELSE /\ Reading!Touch(s)
                   /\ head' = [head EXCEPT ![s] = place] /\ counts' = counts \ {s}
                   /\ row' = row \cup {s} /\ shown' = shown \cup {s}
           /\ UNCHANGED <<cursor, clock, marker, sent, seed, marking, heard>>
    BY DEF Reading!Import, Reading!Silent, Reading!marks
  <1>2. past' \in [Sources -> 0 .. Cutover]
    BY <1>0, <1>1, PagesAssumption DEF SeedSound
  <1>3. CASE head[s] # 0
    BY <1>1, <1>2, <1>3
  <1>4. CASE head[s] = 0
    <2>1. /\ head'[s] = place /\ place \in Nat /\ head' \in [Sources -> Nat]
          /\ \A o \in Sources \ {s} : head'[o] = head[o]
      BY <1>0, <1>1, <1>4, PagesAssumption DEF PlacesSound
    <2>2. calm' = FALSE
      BY <1>1, <1>4 DEF Reading!Touch
    <2> QED
      BY <1>1, <1>2, <1>4, <2>1, <2>2
  <1> QED
    BY <1>3, <1>4

LEMMA ImportKeepsReading ==
    ASSUME ReadingInv, NEW s \in Sources, Reading!Import(s)
    PROVE  ReadingInv'
  <1>0. PlacesSound /\ SeedSound
    BY DEF ReadingInv
  <1>1. past' \in [Sources -> 0 .. Cutover] /\ UNCHANGED <<cursor, clock, marker, sent, seed, marking, heard>>
    BY ImportIs
  <1>2. SeedSound'
    BY <1>0, <1>1 DEF SeedSound
  <1>3. CASE UNCHANGED <<head, counts, row, shown, walk, calm>>
    BY <1>1, <1>2, <1>3 DEF ReadingInv, PlacesSound, MarkersSound, WalkSound, WalkShown, Reading!Heads
  <1>4. CASE /\ head[s] = 0 /\ head'[s] \in 1 .. Cutover /\ \A o \in Sources : head[o] # head'[s]
             /\ \A o \in Sources \ {s} : head'[o] = head[o]
             /\ head' \in [Sources -> Nat]
             /\ counts' = counts \ {s} /\ row' = row \cup {s} /\ shown' = shown \cup {s}
             /\ Reading!Touch(s) /\ calm' = FALSE
    <2>1. PlacesSound'
      BY <1>0, <1>1, <1>4, PagesAssumption DEF PlacesSound
    <2>2. MarkersSound'
      BY <1>1, <1>4 DEF ReadingInv, MarkersSound
    <2>3. WalkSound'
      BY <1>1, <1>4, TouchKeepsWalk DEF ReadingInv
    <2> QED
      BY <1>2, <2>1, <2>2, <2>3 DEF ReadingInv
  <1> QED
    BY <1>3, <1>4, ImportIs

LEMMA LatestIs ==
    ASSUME NEW S \in SUBSET (1 .. Cutover), S # {} PROVE Reading!Latest(S) \in S
  <1>1. IsFiniteSet(S) /\ Cutover \in Nat
    <2>1. Cutover \in Nat /\ IsFiniteSet(1 .. Cutover)
      BY PagesAssumption, FS_Interval
    <2> QED
      BY <2>1, FS_Subset
  <1>2. PICK f : f = [n \in S |-> n]
    OBVIOUS
  <1>3. Ranked(f, S)
    BY <1>1, <1>2 DEF Ranked
  <1>4. PICK n \in S : \A m \in S : f[m] <= f[n]
    BY <1>3, Extremes
  <1>5. \E x \in S : \A m \in S : m <= x
    BY <1>2, <1>4
  <1> QED
    BY <1>5, Zenon DEF Reading!Latest

\* Where the importer stands when it looks for its newest item and for the cursor.
LEMMA SeedingKeepsReading ==
    ASSUME ReadingInv, Reading!FindLatest \/ Reading!FindCursor PROVE ReadingInv'
  <1>0. PlacesSound /\ MarkersSound /\ WalkSound /\ SeedSound
    BY DEF ReadingInv
  <1>1. UNCHANGED <<head, counts, row, shown, cursor, clock, walk, marker, sent, calm, past, marking, heard>>
    BY DEF Reading!FindLatest, Reading!FindCursor, Reading!reader, Reading!marks
  <1>2. PlacesSound' /\ MarkersSound' /\ WalkSound'
    BY <1>0, <1>1 DEF PlacesSound, MarkersSound, WalkSound, WalkShown, Reading!Heads
  <1>3. CASE Reading!FindLatest
    <2> DEFINE history == {past[s] : s \in Sources} \ {0}
    <2>1. history # {} /\ seed' = [Reading!Unseeded EXCEPT !.latest = Reading!Latest(history)]
      BY <1>3 DEF Reading!FindLatest
    <2>2. history \in SUBSET (1 .. Cutover)
      BY <1>0 DEF SeedSound
    <2> HIDE DEF history
    <2>3. PICK n : n = Reading!Latest(history)
      OBVIOUS
    <2>4. n \in 0 .. Cutover
      BY <2>1, <2>2, <2>3, LatestIs
    <2>5. seed' = [latest |-> n, behind |-> FALSE, crossed |-> FALSE]
      BY <2>1, <2>3 DEF Reading!Unseeded
    <2> QED
      BY <1>0, <1>1, <1>2, <2>4, <2>5 DEF ReadingInv, SeedSound
  <1>4. CASE Reading!FindCursor
    <2>1. seed \in [latest : 0 .. Cutover, behind : BOOLEAN, crossed : BOOLEAN] /\ ~seed.behind /\ ~seed.crossed
      BY <1>0, <1>4 DEF SeedSound, Reading!FindCursor
    <2>2. CASE cursor >= seed.latest
      <3>1. seed' = [latest |-> 0, behind |-> FALSE, crossed |-> FALSE]
        BY <1>4, <2>2 DEF Reading!FindCursor, Reading!Unseeded
      <3> QED
        BY <1>0, <1>1, <1>2, <3>1, PagesAssumption DEF ReadingInv, SeedSound
    <2>3. CASE ~(cursor >= seed.latest)
      <3>1. seed' = [seed EXCEPT !.behind = TRUE]
        BY <1>4, <2>3 DEF Reading!FindCursor
      <3>2. seed' = [latest |-> seed.latest, behind |-> TRUE, crossed |-> FALSE]
        BY <2>1, <3>1
      <3>3. cursor < seed.latest
        BY <1>0, <2>1, <2>3, PagesAssumption DEF PlacesSound
      <3> QED
        BY <1>0, <1>1, <1>2, <2>1, <3>2, <3>3 DEF ReadingInv, SeedSound
    <2> QED
      BY <2>2, <2>3
  <1> QED
    BY <1>3, <1>4

LEMMA UpsertIs ==
    ASSUME ReadingInv, Reading!Upsert
    PROVE  /\ seed' = [latest |-> 0, behind |-> FALSE, crossed |-> FALSE]
           /\ cursor' \in Nat /\ cursor' <= Cutover /\ (~seed.crossed => cursor < cursor')
           /\ heard' = (heard /\ ~seed.crossed)
           /\ UNCHANGED <<head, counts, row, shown, clock, walk, marker, sent, calm, past, marking>>
  <1>1. /\ seed.behind /\ seed' = [latest |-> 0, behind |-> FALSE, crossed |-> FALSE]
        /\ cursor' = seed.latest /\ heard' = (heard /\ ~seed.crossed)
        /\ UNCHANGED <<head, counts, row, shown, clock, walk, marker, sent, calm, past, marking>>
    BY DEF Reading!Upsert, Reading!Unseeded, Reading!reader
  <1>2. seed.latest \in 0 .. Cutover /\ (~seed.crossed => cursor < seed.latest)
    BY <1>1 DEF ReadingInv, SeedSound
  <1> QED
    BY <1>1, <1>2, PagesAssumption

LEMMA UpsertKeepsReading == ASSUME ReadingInv, Reading!Upsert PROVE ReadingInv'
  <1>0. PlacesSound /\ MarkersSound /\ WalkSound /\ SeedSound
    BY DEF ReadingInv
  <1>1. /\ seed' = [latest |-> 0, behind |-> FALSE, crossed |-> FALSE]
        /\ cursor' \in Nat /\ cursor' <= Cutover /\ (~seed.crossed => cursor < cursor')
        /\ heard' = (heard /\ ~seed.crossed)
        /\ UNCHANGED <<head, counts, row, shown, clock, walk, marker, sent, calm, past, marking>>
    BY UpsertIs
  <1>2. PlacesSound' /\ WalkSound'
    BY <1>0, <1>1 DEF PlacesSound, WalkSound, WalkShown, Reading!Heads
  <1>3. MarkersSound'
    <2>1. ASSUME heard', marker' # 0 PROVE marker' <= cursor'
      <3>1. heard' = (heard /\ ~seed.crossed) /\ marker' = marker
        BY <1>1
      <3>2. heard /\ ~seed.crossed /\ marker # 0
        BY <2>1, <3>1, Zenon
      <3>3. marker <= cursor /\ cursor < cursor'
        BY <1>0, <1>1, <3>2 DEF MarkersSound
      <3> QED
        BY <1>0, <1>1, <3>3 DEF PlacesSound
    <2>2. UNCHANGED <<head, row, shown, marker, calm>>
      BY <1>1
    <2> QED
      BY <1>0, <2>1, <2>2 DEF MarkersSound, Reading!Heads
  <1>4. SeedSound'
    BY <1>0, <1>1, PagesAssumption DEF SeedSound
  <1> QED
    BY <1>2, <1>3, <1>4 DEF ReadingInv

LEMMA FirstPageKeepsReading == ASSUME ReadingInv, Reading!FirstPage PROVE ReadingInv'
  <1>0. PlacesSound
    BY DEF ReadingInv
  <1>1. PICK p : p = Reading!Page(Reading!Start)
    OBVIOUS
  <1>2. /\ walk' = [seen |-> p.items, next |-> p.next, calm |-> Sources]
        /\ marker' = (IF p.items = <<>> THEN 0 ELSE head[p.items[1]]) /\ calm' = TRUE
        /\ UNCHANGED <<head, counts, row, shown, cursor, clock, sent, past, seed, marking>>
        /\ heard' = (heard /\ marker' = marker)
    BY <1>1 DEF Reading!FirstPage
  <1>3. Reading!Start \in Nat /\ \A s \in Sources : head[s] < Reading!Start
    BY <1>0, PagesAssumption DEF Reading!Start, PlacesSound
  <1>4. PICK q : q = p.items
    OBVIOUS
  <1>5. /\ q \in Seq(Sources) /\ p.next \in Nat
        /\ \A i \in 1 .. Len(q) : q[i] \in Reading!Heads \cap shown /\ p.next <= head[q[i]]
        /\ \A i, j \in 1 .. Len(q) : i < j => head[q[i]] > head[q[j]]
        /\ \A s \in Reading!Heads \cap shown :
              p.next <= head[s] => \E i \in 1 .. Len(q) : q[i] = s
    <2>1. PICK from \in Nat : from = Reading!Start
      BY <1>3
    <2>2. p = Reading!Page(from)
      BY <1>1, <2>1
    <2>3. /\ q \in Seq(Sources) /\ p.next \in Nat /\ p.next <= from
          /\ \A i \in 1 .. Len(q) :
                /\ q[i] \in Reading!Heads \cap shown
                /\ head[q[i]] < from /\ p.next <= head[q[i]]
          /\ \A i, j \in 1 .. Len(q) : i < j => head[q[i]] > head[q[j]]
          /\ \A s \in Reading!Heads \cap shown :
                head[s] < from /\ p.next <= head[s] => \E i \in 1 .. Len(q) : q[i] = s
      <3>1. /\ p.items \in Seq(Sources) /\ p.next \in Nat /\ p.next <= from
            /\ \A i \in 1 .. Len(p.items) :
                  /\ p.items[i] \in Reading!Heads \cap shown
                  /\ head[p.items[i]] < from /\ p.next <= head[p.items[i]]
            /\ \A i, j \in 1 .. Len(p.items) : i < j => head[p.items[i]] > head[p.items[j]]
            /\ \A s \in Reading!Heads \cap shown :
                  head[s] < from /\ p.next <= head[s]
                     => \E i \in 1 .. Len(p.items) : p.items[i] = s
        BY <1>0, <2>2, PageShows
      <3> QED
        BY <1>4, <3>1
    <2>4. \A s \in Reading!Heads : head[s] < from
      BY <1>3, <2>1 DEF Reading!Heads
    <2> QED
      BY <2>3, <2>4
  <1>6. /\ walk' \in Walks /\ walk'.seen = q /\ walk'.next = p.next /\ walk'.calm = Sources
    BY <1>2, <1>4, <1>5 DEF Walks
  <1>7. Reading!Heads' = Reading!Heads
    BY <1>2 DEF Reading!Heads
  <1>8. WalkSound'
    BY <1>2, <1>5, <1>6, <1>7 DEF WalkSound, WalkShown
  <1>9. \A s \in Reading!Heads : s \in Sources /\ head[s] \in Nat
    BY <1>0 DEF PlacesSound, Reading!Heads
  <1>10. ASSUME marker' # 0
         PROVE  /\ \E s \in Reading!Heads : head[s] = marker'
                /\ \A s \in Reading!Heads \cap shown : head[s] <= marker'
    <2>1. q # <<>> /\ marker' = head[q[1]]
      BY <1>2, <1>4, <1>10
    <2>2. Len(q) \in Nat /\ Len(q) # 0
      BY <1>5, <2>1, EmptySeq, LenProperties
    <2>3. 1 \in 1 .. Len(q)
      BY <2>2
    <2>4. ASSUME NEW s \in Reading!Heads \cap shown PROVE head[s] <= head[q[1]]
      <3>1. CASE p.next <= head[s]
        <4>1. PICK i \in 1 .. Len(q) : q[i] = s
          BY <1>5, <3>1
        <4> QED
          BY <1>5, <1>9, <2>2, <2>3, <4>1
      <3>2. CASE ~(p.next <= head[s])
        BY <1>5, <1>9, <2>3, <3>2
      <3> QED
        BY <3>1, <3>2
    <2> QED
      BY <1>5, <2>1, <2>3, <2>4
  <1>11. MarkersSound'
    BY <1>2, <1>7, <1>10 DEF MarkersSound, ReadingInv
  <1>12. marker' \in Nat /\ marker' <= clock
    <2>1. CASE marker' = 0
      BY <1>0, <2>1 DEF PlacesSound
    <2>2. CASE marker' # 0
      BY <1>0, <1>9, <1>10, <2>2 DEF PlacesSound
    <2> QED
      BY <2>1, <2>2
  <1>13. PlacesSound' /\ SeedSound'
    BY <1>0, <1>2, <1>12 DEF PlacesSound, SeedSound, ReadingInv
  <1> QED
    BY <1>8, <1>11, <1>13 DEF ReadingInv

LEMMA NextPageKeepsReading == ASSUME ReadingInv, Reading!NextPage PROVE ReadingInv'
  <1>0. PlacesSound /\ walk \in Walks /\ WalkShown(walk)
    BY DEF ReadingInv, WalkSound
  <1>1. PICK from \in Nat : from = walk.next
    BY <1>0 DEF Walks
  <1>2. PICK p : p = Reading!Page(from)
    OBVIOUS
  <1>3. /\ walk' = [walk EXCEPT !.seen = @ \o p.items, !.next = p.next]
        /\ UNCHANGED <<head, counts, row, shown, cursor, clock, marker, sent, calm, past, seed, marking, heard>>
    BY <1>1, <1>2 DEF Reading!NextPage, Reading!marks
  <1>4. PICK q : q = p.items
    OBVIOUS
  <1>5. PICK old : old = walk.seen
    OBVIOUS
  <1>6. PICK new : new = old \o q
    OBVIOUS
  <1>7. /\ q \in Seq(Sources) /\ p.next \in Nat /\ p.next <= from
        /\ \A i \in 1 .. Len(q) :
              q[i] \in Reading!Heads \cap shown /\ head[q[i]] < from /\ p.next <= head[q[i]]
        /\ \A i, j \in 1 .. Len(q) : i < j => head[q[i]] > head[q[j]]
        /\ \A s \in Reading!Heads \cap shown :
              head[s] < from /\ p.next <= head[s] => \E i \in 1 .. Len(q) : q[i] = s
    <2>1. /\ p.items \in Seq(Sources) /\ p.next \in Nat /\ p.next <= from
          /\ \A i \in 1 .. Len(p.items) :
                /\ p.items[i] \in Reading!Heads \cap shown
                /\ head[p.items[i]] < from /\ p.next <= head[p.items[i]]
          /\ \A i, j \in 1 .. Len(p.items) : i < j => head[p.items[i]] > head[p.items[j]]
          /\ \A s \in Reading!Heads \cap shown :
                head[s] < from /\ p.next <= head[s] => \E i \in 1 .. Len(p.items) : p.items[i] = s
      BY <1>0, <1>2, PageShows
    <2> QED
      BY <1>4, <2>1
  <1>8. old \in Seq(Sources) /\ walk.calm \subseteq Sources
    BY <1>0, <1>5 DEF Walks
  <1>9. /\ new \in Seq(Sources) /\ Len(new) = Len(old) + Len(q) /\ Len(old) \in Nat /\ Len(q) \in Nat
        /\ \A i \in 1 .. Len(new) : new[i] = IF i <= Len(old) THEN old[i] ELSE q[i - Len(old)]
    BY <1>6, <1>7, <1>8, ConcatProperties, LenProperties
  <1>10. /\ walk' \in Walks /\ walk'.seen = new /\ walk'.next = p.next /\ walk'.calm = walk.calm
    <2>1. PICK w : w = [walk EXCEPT !.seen = new, !.next = p.next]
      OBVIOUS
    <2>2. walk' = w
      BY <1>3, <1>4, <1>5, <1>6, <2>1
    <2> QED
      BY <1>0, <1>7, <1>9, <2>1, <2>2 DEF Walks
  <1>11. Reading!Heads' = Reading!Heads
    BY <1>3 DEF Reading!Heads
  <1>12. /\ \A i \in 1 .. Len(old) : old[i] \in walk.calm => from <= head[old[i]]
         /\ \A i, j \in 1 .. Len(old) :
               i < j /\ old[i] \in walk.calm /\ old[j] \in walk.calm => head[old[i]] > head[old[j]]
         /\ \A s \in walk.calm \cap Reading!Heads \cap shown :
               from <= head[s] => \E i \in 1 .. Len(old) : old[i] = s
    BY <1>0, <1>1, <1>5 DEF WalkShown
  <1>13. \A s \in Sources : head[s] \in Nat
    BY <1>0 DEF PlacesSound
  <1>14. /\ \A i \in 1 .. Len(old) : old[i] \in Sources
         /\ \A i \in 1 .. Len(q) : q[i] \in Sources
    BY <1>7, <1>8, ElementOfSeq
  <1>15. ASSUME NEW i \in 1 .. Len(new), new[i] \in walk.calm PROVE p.next <= head[new[i]]
    <2>1. CASE i <= Len(old)
      <3>1. i \in 1 .. Len(old) /\ new[i] = old[i]
        BY <1>9, <2>1
      <3>2. from <= head[new[i]] /\ head[new[i]] \in Nat
        BY <1>12, <1>13, <1>14, <1>15, <3>1
      <3> QED
        BY <1>7, <3>2
    <2>2. CASE ~(i <= Len(old))
      <3>1. i - Len(old) \in 1 .. Len(q) /\ new[i] = q[i - Len(old)]
        BY <1>9, <2>2
      <3> QED
        BY <1>7, <3>1
    <2> QED
      BY <2>1, <2>2
  <1>16. ASSUME NEW i \in 1 .. Len(new), NEW j \in 1 .. Len(new), i < j,
                new[i] \in walk.calm, new[j] \in walk.calm
         PROVE  head[new[i]] > head[new[j]]
    <2>1. CASE j <= Len(old)
      BY <1>9, <1>12, <1>16, <2>1
    <2>2. CASE i <= Len(old) /\ ~(j <= Len(old))
      <3>1. j - Len(old) \in 1 .. Len(q) /\ new[j] = q[j - Len(old)] /\ i \in 1 .. Len(old) /\ new[i] = old[i]
        BY <1>9, <2>2
      <3>2. head[new[j]] < from /\ from <= head[new[i]] /\ head[new[i]] \in Nat /\ head[new[j]] \in Nat
        BY <1>7, <1>12, <1>13, <1>14, <1>16, <3>1
      <3> QED
        BY <3>2
    <2>3. CASE ~(i <= Len(old))
      <3>1. /\ j - Len(old) \in 1 .. Len(q) /\ new[j] = q[j - Len(old)]
            /\ i - Len(old) \in 1 .. Len(q) /\ new[i] = q[i - Len(old)] /\ i - Len(old) < j - Len(old)
        BY <1>9, <1>16, <2>3
      <3> QED
        BY <1>7, <3>1
    <2> QED
      BY <1>9, <1>16, <2>1, <2>2, <2>3
  <1>17. ASSUME NEW s \in walk.calm \cap Reading!Heads \cap shown, p.next <= head[s]
         PROVE  \E i \in 1 .. Len(new) : new[i] = s
    <2>1. CASE from <= head[s]
      <3>1. PICK i \in 1 .. Len(old) : old[i] = s
        BY <1>12, <2>1
      <3>2. i \in 1 .. Len(new) /\ new[i] = s
        BY <1>9, <3>1
      <3> QED
        BY <3>2
    <2>2. CASE head[s] < from
      <3>1. PICK i \in 1 .. Len(q) : q[i] = s
        BY <1>7, <1>17, <2>2
      <3>2. PICK k : k = i + Len(old)
        OBVIOUS
      <3>3. k \in 1 .. Len(new) /\ ~(k <= Len(old)) /\ k - Len(old) = i
        BY <1>9, <3>2
      <3>4. new[k] = s
        BY <1>9, <3>1, <3>3
      <3> QED
        BY <3>3, <3>4
    <2> QED
      BY <1>1, <1>8, <1>13, <2>1, <2>2
  <1>18. WalkSound'
    BY <1>3, <1>10, <1>11, <1>15, <1>16, <1>17 DEF WalkSound, WalkShown
  <1>19. PlacesSound' /\ MarkersSound' /\ SeedSound'
    BY <1>3, <1>11 DEF ReadingInv, PlacesSound, MarkersSound, SeedSound
  <1> QED
    BY <1>18, <1>19 DEF ReadingInv

\* A marker on its way: sent, found to be a head, taken or lost.
LEMMA MarkReadKeepsReading == ASSUME ReadingInv, Reading!MarkRead PROVE ReadingInv'
  <1>0. PlacesSound /\ MarkersSound /\ WalkSound /\ SeedSound
    BY DEF ReadingInv
  <1>1. /\ marker # 0 /\ sent' = marker /\ marking' = marking \cup {[to |-> marker, found |-> FALSE]}
        /\ UNCHANGED <<head, counts, row, shown, cursor, clock, walk, marker, calm, past, seed, heard>>
    BY DEF Reading!MarkRead
  <1>2. PlacesSound' /\ MarkersSound' /\ WalkSound'
    BY <1>0, <1>1 DEF PlacesSound, MarkersSound, WalkSound, WalkShown, Reading!Heads
  <1>3. SeedSound'
    <2>1. marker \in Nat /\ marker <= clock
      BY <1>0 DEF PlacesSound
    <2>2. PICK q : q = [to |-> marker, found |-> FALSE]
      OBVIOUS
    <2>3. q \in [to : Nat, found : BOOLEAN] /\ q.to # 0 /\ q.to <= clock
      BY <1>1, <2>1, <2>2
    <2>4. UNCHANGED <<past, seed, cursor, clock>> /\ marking' = marking \cup {q}
      BY <1>1, <2>2
    <2> QED
      BY <1>0, <2>3, <2>4 DEF SeedSound
  <1> QED
    BY <1>2, <1>3 DEF ReadingInv

LEMMA LookKeepsReading ==
    ASSUME ReadingInv, NEW q \in marking, Reading!Look(q) \/ Reading!Lose(q) PROVE ReadingInv'
  <1>0. PlacesSound /\ MarkersSound /\ WalkSound /\ SeedSound
    BY DEF ReadingInv
  <1>1. UNCHANGED <<head, counts, row, shown, cursor, clock, walk, marker, sent, calm, past, seed, heard>>
    BY DEF Reading!Look, Reading!Lose, Reading!reader
  <1>2. PICK p : p = [q EXCEPT !.found = TRUE]
    OBVIOUS
  <1>3. marking' \subseteq marking \cup {p}
    BY <1>2 DEF Reading!Look, Reading!Lose
  <1>4. q \in [to : Nat, found : BOOLEAN] /\ q.to # 0 /\ q.to <= clock
    BY <1>0 DEF SeedSound
  <1>5. p \in [to : Nat, found : BOOLEAN] /\ p.to # 0 /\ p.to <= clock
    BY <1>2, <1>4
  <1>6. PlacesSound' /\ MarkersSound' /\ WalkSound'
    BY <1>0, <1>1 DEF PlacesSound, MarkersSound, WalkSound, WalkShown, Reading!Heads
  <1>7. SeedSound'
    BY <1>0, <1>1, <1>3, <1>5 DEF SeedSound
  <1> QED
    BY <1>6, <1>7 DEF ReadingInv

LEMMA TakeIs ==
    ASSUME ReadingInv, NEW q \in marking, Reading!Take(q)
    PROVE  /\ cursor' \in Nat /\ cursor <= cursor' /\ q.to <= cursor' /\ (cursor <= clock => cursor' <= clock)
           /\ heard' = (heard \/ q.to = marker) /\ marking' = marking \ {q}
           /\ seed' = [latest |-> seed.latest, behind |-> seed.behind, crossed |-> seed.behind]
           /\ UNCHANGED <<head, counts, row, shown, clock, walk, marker, sent, calm, past>>
  <1>0. PlacesSound /\ SeedSound
    BY DEF ReadingInv
  <1>1. /\ cursor' = (IF q.to > cursor THEN q.to ELSE cursor) /\ seed' = [seed EXCEPT !.crossed = seed.behind]
        /\ heard' = (heard \/ q.to = marker) /\ marking' = marking \ {q}
        /\ UNCHANGED <<head, counts, row, shown, clock, walk, marker, sent, calm, past>>
    BY DEF Reading!Take, Reading!reader
  <1>2. q.to \in Nat /\ q.to <= clock /\ cursor \in Nat
    BY <1>0 DEF SeedSound, PlacesSound
  <1>3. seed' = [latest |-> seed.latest, behind |-> seed.behind, crossed |-> seed.behind]
    BY <1>0, <1>1 DEF SeedSound
  <1>4. cursor' \in Nat /\ cursor <= cursor' /\ q.to <= cursor' /\ (cursor <= clock => cursor' <= clock)
    BY <1>1, <1>2
  <1> QED
    BY <1>1, <1>3, <1>4

LEMMA TakeKeepsReading == ASSUME ReadingInv, NEW q \in marking, Reading!Take(q) PROVE ReadingInv'
  <1>0. PlacesSound /\ MarkersSound /\ WalkSound /\ SeedSound
    BY DEF ReadingInv
  <1>1. /\ cursor' \in Nat /\ cursor <= cursor' /\ q.to <= cursor'
        /\ heard' = (heard \/ q.to = marker) /\ marking' = marking \ {q}
        /\ seed' = [latest |-> seed.latest, behind |-> seed.behind, crossed |-> seed.behind]
        /\ UNCHANGED <<head, counts, row, shown, clock, walk, marker, sent, calm, past>>
    BY TakeIs
  <1>2. PlacesSound' /\ WalkSound'
    BY <1>0, <1>1 DEF PlacesSound, WalkSound, WalkShown, Reading!Heads
  <1>3. MarkersSound'
    <2>1. ASSUME heard', marker' # 0 PROVE marker' <= cursor'
      <3>1. heard' = (heard \/ q.to = marker) /\ marker' = marker
        BY <1>1
      <3>2. marker # 0 /\ (heard \/ q.to = marker)
        BY <2>1, <3>1, Zenon
      <3>3. CASE heard
        <4>1. marker <= cursor
          BY <1>0, <3>2, <3>3 DEF MarkersSound
        <4> QED
          BY <1>0, <1>1, <4>1 DEF PlacesSound
      <3>4. CASE q.to = marker
        BY <1>1, <3>4
      <3> QED
        BY <3>2, <3>3, <3>4
    <2>2. UNCHANGED <<head, row, shown, marker, calm>>
      BY <1>1
    <2> QED
      BY <1>0, <2>1, <2>2 DEF MarkersSound, Reading!Heads
  <1>4. SeedSound'
    BY <1>0, <1>1 DEF SeedSound
  <1> QED
    BY <1>2, <1>3, <1>4 DEF ReadingInv

LEMMA StepKeepsReading == ReadingInv /\ (Reading!Next \/ UNCHANGED Reading!vars) => ReadingInv'
  <1> SUFFICES ASSUME ReadingInv, Reading!Next \/ UNCHANGED Reading!vars PROVE ReadingInv'
    OBVIOUS
  <1>1. CASE UNCHANGED Reading!vars
    BY <1>1 DEF Reading!vars, Reading!reader, Reading!marks, ReadingInv, PlacesSound, MarkersSound, WalkSound,
       WalkShown, SeedSound, Reading!Heads
  <1> QED
    BY <1>1, LiveKeepsReading, MoveKeepsReading, ImportKeepsReading, SeedingKeepsReading, UpsertKeepsReading,
       FirstPageKeepsReading, NextPageKeepsReading, MarkReadKeepsReading, LookKeepsReading, TakeKeepsReading
    DEF Reading!Next

LEMMA ReadingFollows == ReadingInv => Reading!WalkOnce /\ Reading!ReadClears
  <1> SUFFICES ASSUME ReadingInv PROVE Reading!WalkOnce /\ Reading!ReadClears
    OBVIOUS
  <1>1. Reading!WalkOnce
    <2>1. walk.seen \in Seq(Sources) /\ walk.next \in Nat /\ WalkShown(walk)
      BY DEF ReadingInv, WalkSound, Walks
    <2>2. DOMAIN walk.seen = 1 .. Len(walk.seen)
      BY <2>1, LenProperties
    <2>3. \A s \in Reading!Heads : head[s] \in Nat
      BY DEF ReadingInv, PlacesSound, Reading!Heads
    <2> QED
      BY <2>1, <2>2, <2>3 DEF WalkShown, Reading!WalkOnce
  <1>2. Reading!ReadClears
    BY DEF ReadingInv, PlacesSound, MarkersSound, Reading!ReadClears, Reading!Unread, Reading!Heads
  <1> QED
    BY <1>1, <1>2

\* Whatever happens between the pages of the feed: nothing that did not change is
\* shown twice or out of order, nothing that was there all the time is missed, and a
\* first page whose marker was taken leaves nothing unread that can be seen.
THEOREM ReadingSound == Spec => []ReadingExact
  <1> DEFINE Inv == focus = "reading" => ReadingInv
  <1>1. Init => Inv
    BY InitReading DEF Init
  <1>2. Inv /\ [Next]_vars => Inv'
    BY StepKeepsReading DEF Next, vars, from9, Reading!vars, Reading!reader, Reading!marks
  <1>3. Inv => ReadingExact
    BY ReadingFollows DEF ReadingExact
  <1> QED
    BY <1>1, <1>2, <1>3, PTL DEF Spec

\* The importer takes nothing into what is unread, and the cursor advances, unless
\* a marker was taken behind the importer's back.
LEMMA HistoryStaysRead ==
    ReadingInv /\ (Reading!Next \/ UNCHANGED Reading!vars) => Reading!HistoryIsSilent
  <1> SUFFICES ASSUME ReadingInv, Reading!Next \/ UNCHANGED Reading!vars, ~seed.crossed
               PROVE  /\ past' # past \/ seed' # seed => Reading!Unread' \subseteq Reading!Unread
                      /\ cursor <= cursor'
    BY DEF Reading!HistoryIsSilent
  <1>0. PlacesSound
    BY DEF ReadingInv
  <1>1. CASE UNCHANGED <<past, seed, cursor>>
    BY <1>0, <1>1 DEF PlacesSound
  <1>2. ASSUME NEW s \in Sources, Reading!Import(s)
        PROVE  Reading!Unread' \subseteq Reading!Unread /\ cursor <= cursor'
    <2>1. /\ \/ UNCHANGED <<head, counts, row>>
             \/ /\ \A o \in Sources \ {s} : head'[o] = head[o]
                /\ counts' = counts \ {s} /\ row' = row \cup {s}
          /\ cursor' = cursor
      BY <1>2, ImportIs
    <2>2. ASSUME NEW o \in Reading!Unread' PROVE o \in Reading!Unread
      BY <2>1 DEF Reading!Unread, Reading!Heads
    <2> QED
      BY <1>0, <2>1, <2>2 DEF PlacesSound
  <1>3. ASSUME UNCHANGED <<head, counts, row>>, cursor' \in Nat, cursor <= cursor'
        PROVE  Reading!Unread' \subseteq Reading!Unread
    <2> SUFFICES ASSUME NEW o \in Reading!Unread' PROVE o \in Reading!Unread
      OBVIOUS
    <2>1. o \in Reading!Heads /\ o \in counts /\ head[o] > cursor'
      BY <1>3 DEF Reading!Unread, Reading!Heads
    <2>2. head[o] > cursor
      BY <1>0, <1>3, <2>1 DEF PlacesSound, Reading!Heads
    <2> QED
      BY <2>1, <2>2 DEF Reading!Unread
  <1>4. CASE Reading!FindLatest \/ Reading!FindCursor
    <2>1. UNCHANGED <<head, counts, row, cursor>>
      BY <1>4 DEF Reading!FindLatest, Reading!FindCursor
    <2> QED
      BY <1>0, <1>3, <2>1 DEF PlacesSound
  <1>5. CASE Reading!Upsert
    <2>1. UNCHANGED <<head, counts, row>> /\ cursor' \in Nat /\ cursor < cursor'
      BY <1>5, UpsertIs
    <2> QED
      BY <1>0, <1>3, <2>1 DEF PlacesSound
  <1>6. ASSUME NEW q \in marking, Reading!Take(q)
        PROVE  Reading!Unread' \subseteq Reading!Unread /\ cursor <= cursor'
    BY <1>3, <1>6, TakeIs
  <1> QED
    BY <1>1, <1>2, <1>4, <1>5, <1>6
    DEF Reading!Next, Reading!Live, Reading!Move, Reading!FirstPage, Reading!NextPage, Reading!MarkRead,
        Reading!Look, Reading!Lose, Reading!vars

-----------------------------------------------------------------------------
\* No step changes a deleted message; without overlap none moves a read cursor back
\* or notifies anyone but the willing; no comment rings for who does not want it; and
\* no step of an import makes anything unread or takes the read cursor of the feed back,
\* unless a marker was taken between the importer's look at the cursor and its write.
THEOREM ConversationStepsHold == Spec => ConversationSteps
  <1> DEFINE Inv  == /\ focus = "thread" => ThreadInv
                     /\ focus = "reading" => ReadingInv
             Kept == /\ focus = "thread" => /\ Thread!DeletedIsFinal /\ Thread!CursorAdvancesAlone
                                            /\ Thread!NotifiesTheWilling
                     /\ focus \in {"text", "talk"} => Post!OnlyWillingNotified
                     /\ focus = "reading" => Reading!HistoryIsSilent
  <1>1. Init => Inv
    BY InitThread, InitReading, ThreadAssumption DEF Init
  <1>2. Inv /\ [Next]_vars => Inv'
    BY StepKeepsThread, StepKeepsReading
    DEF Next, vars, from9, Thread!vars, Thread!members, Thread!messages, Thread!thread,
        Reading!vars, Reading!reader, Reading!marks
  <1>3. Inv /\ [Next]_vars => [Kept]_vars
    BY DeletionIsFinal, CursorsAdvanceAlone, WillingAreNotified, CommentsRingTheWilling, HistoryStaysRead
    DEF Next
  <1> QED
    BY <1>1, <1>2, <1>3, PTL DEF Spec, ConversationSteps
-----------------------------------------------------------------------------
(* A user who scrolls the list of threads.  A thread has a height, so that *)
(* who stands above whom is an order of numbers; a cursor cuts it.         *)

opened == x1
now    == x2
recent == x3
notes  == x4
readTo == x5
inside == x6
belong == x7
list   == x8
more   == x9
unreadOnly == x10
totals == x11
still  == x12
pushed == x13
USE DEF opened, now, recent, notes, readTo, inside, belong, list, more, unreadOnly, totals, still, pushed

HeightIn(r, t) == r[t] * (InboxThreads + 1) + t
Height(t) == HeightIn(recent, t)
heights   == [t \in 1 .. InboxThreads |-> Height(t)]
CutAt(c)  == IF c = Inbox!None THEN 0 ELSE c.at * (InboxThreads + 1) + c.t

Notes   == [in : 1 .. opened, at : Nat, own : BOOLEAN, gone : BOOLEAN]
Entries == [t : 1 .. InboxThreads, unread : BOOLEAN]
Cursors == {Inbox!None} \cup [at : 0 .. now, t : 1 .. opened]

\* A message is no newer than the last one of its thread, and a marker no further.
RowsSound ==
    /\ opened \in 1 .. InboxThreads /\ now \in 0 .. InboxPosts
    /\ recent \in [1 .. InboxThreads -> Nat] /\ readTo \in [1 .. InboxThreads -> Nat]
    /\ \A t \in 1 .. InboxThreads : readTo[t] <= recent[t] /\ recent[t] <= now
    /\ IsFiniteSet(notes) /\ notes \subseteq Notes /\ \A x \in notes : x.at <= recent[x.in]
    /\ inside \subseteq 1 .. InboxThreads /\ belong \subseteq Grouped

ListSound ==
    /\ list \in Seq(Seq(Entries)) /\ more \in Cursors /\ (list = <<>> => more = Inbox!None)
    /\ \A p \in DOMAIN list : /\ Len(list[p]) <= InboxLimit
                              /\ \A i \in DOMAIN list[p] : list[p][i].t \in 1 .. opened

Lists(l, t) == \E p \in DOMAIN l : \E i \in DOMAIN l[p] : l[p][i].t = t

\* What the pages so far have shown is what stands above the cursor.
Scrolled(l, c, quiet, out) ==
    /\ \A t \in quiet \cap Inbox!Threads :
          Inbox!Wanted(t) /\ CutAt(c) <= Height(t) => t \in out \/ Lists(l, t)
    /\ \A p \in DOMAIN l : \A i \in DOMAIN l[p] :
          l[p][i].t \in quiet => CutAt(c) <= Height(l[p][i].t)
    /\ \A p, q \in DOMAIN l : \A i \in DOMAIN l[p], j \in DOMAIN l[q] :
          l[p][i].t = l[q][j].t /\ l[p][i].t \in quiet => p = q /\ i = j
ScrolledOnce == Scrolled(list, more, still, pushed)

\* While nothing has happened, entries and counts say how it is.
AsListed(l, out, sums) ==
    /\ out = {} /\ sums = Inbox!Summary
    /\ \A p \in DOMAIN l : \A i \in DOMAIN l[p] :
          Inbox!Wanted(l[p][i].t) /\ (l[p][i].unread <=> Inbox!IsUnread(l[p][i].t))
Unmoved == list # <<>> /\ Inbox!Threads \subseteq still => AsListed(list, pushed, totals)

InboxInv == RowsSound /\ ListSound /\ ScrolledOnce /\ Unmoved

LEMMA InboxCounts == \A S : Inbox!Cardinality(S) = Cardinality(S)
  BY DEF Cardinality, Inbox!Cardinality

LEMMA Lexicographic ==
    ASSUME NEW M \in Nat, NEW a \in Nat, NEW b \in Nat, NEW t \in 1 .. M, NEW o \in 1 .. M
    PROVE  /\ a * (M + 1) + t \in Nat /\ b * (M + 1) + o \in Nat
           /\ (a * (M + 1) + t < b * (M + 1) + o) <=> (a < b \/ (a = b /\ t < o))
           /\ a * (M + 1) + t = b * (M + 1) + o => a = b /\ t = o
  <1>1. \A x, y \in Nat : x < y => x * (M + 1) + (M + 1) <= y * (M + 1)
    <2> SUFFICES ASSUME NEW x \in Nat, NEW y \in Nat, x < y
                 PROVE  x * (M + 1) + (M + 1) <= y * (M + 1)
      OBVIOUS
    <2>1. PICK d \in Nat : y = x + 1 + d
      <3>1. y - x - 1 \in Nat /\ y = x + 1 + (y - x - 1)
        OBVIOUS
      <3> QED
        BY <3>1
    <2>2. y * (M + 1) = x * (M + 1) + (M + 1) + d * (M + 1)
      BY <2>1
    <2>3. d * (M + 1) \in Nat /\ x * (M + 1) \in Nat
      OBVIOUS
    <2> QED
      BY <2>2, <2>3
  <1>2. PICK A \in Nat : A = a * (M + 1)
    OBVIOUS
  <1>3. PICK B \in Nat : B = b * (M + 1)
    OBVIOUS
  <1>4. /\ a < b => A + (M + 1) <= B
        /\ b < a => B + (M + 1) <= A
        /\ a = b => A = B
    BY <1>1, <1>2, <1>3
  <1>5. /\ A + t \in Nat /\ B + o \in Nat
        /\ (A + t < B + o) <=> (a < b \/ (a = b /\ t < o))
        /\ A + t = B + o => a = b /\ t = o
    BY <1>4
  <1> QED
    BY <1>2, <1>3, <1>5

LEMMA HeightsOrder ==
    ASSUME RowsSound, NEW t \in 1 .. InboxThreads, NEW o \in 1 .. InboxThreads
    PROVE  /\ heights[t] = Height(t) /\ Height(t) \in Nat /\ Height(t) > 0
           /\ Inbox!Behind(Inbox!Place(t), Inbox!Place(o)) <=> Height(o) > Height(t)
           /\ Height(t) = Height(o) => t = o
  <1>1. recent[t] \in Nat /\ recent[o] \in Nat /\ InboxThreads \in Nat
    BY InboxAssumption DEF RowsSound
  <1>2. /\ Height(t) \in Nat /\ Height(o) \in Nat
        /\ (Height(t) < Height(o)) <=> (recent[t] < recent[o] \/ (recent[t] = recent[o] /\ t < o))
        /\ Height(t) = Height(o) => recent[t] = recent[o] /\ t = o
    BY <1>1, Lexicographic DEF Height, HeightIn
  <1>3. Height(t) > 0
    <2>1. recent[t] * (InboxThreads + 1) \in Nat
      BY <1>1
    <2> QED
      BY <2>1 DEF Height, HeightIn
  <1>4. Inbox!Behind(Inbox!Place(t), Inbox!Place(o))
            <=> (recent[t] < recent[o] \/ (recent[t] = recent[o] /\ t < o))
    BY DEF Inbox!Behind, Inbox!Place
  <1> QED
    BY <1>2, <1>3, <1>4 DEF heights

LEMMA CursorCuts ==
    ASSUME RowsSound, NEW t \in 1 .. InboxThreads, NEW c \in Cursors
    PROVE  /\ CutAt(c) \in Nat
           /\ c # Inbox!None => (Inbox!AfterCursor(t, c) <=> Height(t) < CutAt(c))
           /\ c # Inbox!None => (Inbox!Behind(c, Inbox!Place(t)) <=> CutAt(c) < Height(t))
  <1>1. CASE c = Inbox!None
    BY <1>1 DEF CutAt
  <1>2. CASE c # Inbox!None
    <2>1. c.at \in Nat /\ c.t \in 1 .. InboxThreads /\ recent[t] \in Nat /\ InboxThreads \in Nat
      <3>1. c \in [at : 0 .. now, t : 1 .. opened]
        BY <1>2 DEF Cursors
      <3>2. c.at \in 0 .. now /\ c.t \in 1 .. opened
        BY <3>1
      <3>3. opened \in 1 .. InboxThreads /\ now \in 0 .. InboxPosts /\ recent[t] \in Nat
        BY DEF RowsSound
      <3>4. InboxThreads \in Nat /\ InboxPosts \in Nat
        BY InboxAssumption
      <3> QED
        BY <3>2, <3>3, <3>4
    <2>2. CutAt(c) = c.at * (InboxThreads + 1) + c.t
      BY <1>2 DEF CutAt
    <2>3. /\ CutAt(c) \in Nat
          /\ (Height(t) < CutAt(c)) <=> (recent[t] < c.at \/ (recent[t] = c.at /\ t < c.t))
      BY <2>1, <2>2, Lexicographic DEF Height, HeightIn
    <2>4. (CutAt(c) < Height(t)) <=> (c.at < recent[t] \/ (c.at = recent[t] /\ c.t < t))
      BY <2>1, <2>2, Lexicographic DEF Height, HeightIn
    <2>5. Inbox!AfterCursor(t, c) <=> (recent[t] < c.at \/ (recent[t] = c.at /\ t < c.t))
      BY <2>1 DEF Inbox!AfterCursor
    <2>6. Inbox!Behind(c, Inbox!Place(t)) <=> (c.at < recent[t] \/ (c.at = recent[t] /\ c.t < t))
      BY DEF Inbox!Behind, Inbox!Place
    <2> QED
      BY <1>2, <2>3, <2>4, <2>5, <2>6
  <1> QED
    BY <1>1, <1>2

LEMMA HeightsRanked ==
    ASSUME RowsSound, NEW S \in SUBSET Inbox!Threads
    PROVE  Ranked(heights, S) /\ IsFiniteSet(S)
  <1>1. S \subseteq 1 .. InboxThreads
    BY InboxAssumption DEF RowsSound, Inbox!Threads
  <1>2. IsFiniteSet(S)
    <2>1. 1 \in Int /\ InboxThreads \in Int
      BY InboxAssumption
    <2>2. IsFiniteSet(1 .. InboxThreads)
      BY <2>1, FS_Interval
    <2> QED
      BY <1>1, <2>2, FS_Subset
  <1>3. \A t, o \in 1 .. InboxThreads : heights[t] \in Nat /\ (heights[t] = heights[o] => t = o)
    BY HeightsOrder
  <1> QED
    BY <1>1, <1>2, <1>3 DEF Ranked


LEMMA FirstAtMost ==
    ASSUME NEW h, NEW S, Ranked(h, S), NEW n \in Nat
    PROVE  IsFiniteSet(First(h, S, n)) /\ Cardinality(First(h, S, n)) <= n
  <1>1. PICK F : F = First(h, S, n)
    OBVIOUS
  <1>2. PICK T : T = 0 .. n - 1
    OBVIOUS
  <1>3. IsFiniteSet(T) /\ Cardinality(T) = n
    <2>1. 0 \in Int /\ n - 1 \in Int
      OBVIOUS
    <2>2. IsFiniteSet(0 .. n - 1) /\ Cardinality(0 .. n - 1) = IF 0 > n - 1 THEN 0 ELSE n - 1 - 0 + 1
      BY <2>1, FS_Interval
    <2> QED
      BY <1>2, <2>1, <2>2
  <1>4. PICK f : f = [s \in F |-> Rank(h, S, s)]
    OBVIOUS
  <1>5. \A s \in F : f[s] = Rank(h, S, s) /\ f[s] \in T /\ s \in S
    BY <1>1, <1>2, <1>4, AboveFinite DEF First
  <1>6. \A s, o \in F : f[s] = f[o] => s = o
    <2> SUFFICES ASSUME NEW s \in F, NEW o \in F, f[s] = f[o] PROVE s = o
      OBVIOUS
    <2>1. Rank(h, S, s) = Rank(h, S, o) /\ s \in S /\ o \in S /\ Rank(h, S, s) \in Nat
      BY <1>5, AboveFinite
    <2>2. ~(h[o] > h[s]) /\ ~(h[s] > h[o])
      BY <2>1, RankFollowsPlace
    <2>3. h[s] \in Nat /\ h[o] \in Nat
      BY <2>1 DEF Ranked
    <2> QED
      BY <2>1, <2>2, <2>3 DEF Ranked
  <1>7. f \in Injection(F, T)
    BY <1>4, <1>5, <1>6 DEF Injection, IsInjective
  <1>8. IsFiniteSet(F)
    BY <1>1, FS_Subset DEF First, Ranked
  <1> QED
    BY <1>1, <1>3, <1>7, <1>8, FS_Injection

LEMMA EntryTells ==
    ASSUME RowsSound, NEW t \in 1 .. InboxThreads
    PROVE  /\ Inbox!Entry(t) \in Entries /\ Inbox!Entry(t).t = t
           /\ Inbox!Entry(t).unread <=> Inbox!IsUnread(t)
  <1>1. PICK S : S = {x \in notes : x.in = t /\ ~x.gone /\ ~x.own /\ x.at > readTo[t]}
    OBVIOUS
  <1>2. IsFiniteSet(S)
    BY <1>1, FS_Subset DEF RowsSound
  <1>3. Cardinality(S) \in Nat /\ (Cardinality(S) = 0 <=> S = {})
    BY <1>2, FS_CardinalityType, FS_EmptySet
  <1>4. Inbox!UnreadCount(t) = Cardinality(S)
    BY <1>1, InboxCounts DEF Inbox!UnreadCount
  <1>5. PICK b \in BOOLEAN : b = (Inbox!UnreadCount(t) > 0)
    <2>1. (Inbox!UnreadCount(t) > 0) \in BOOLEAN
      BY <1>3, <1>4
    <2> QED
      BY <2>1, Zenon
  <1>6. b <=> Inbox!IsUnread(t)
    <2>1. b <=> (Inbox!UnreadCount(t) > 0)
      BY <1>5, Zenon
    <2>2. (Inbox!UnreadCount(t) > 0) <=> S # {}
      BY <1>3, <1>4
    <2>3. S # {} <=> Inbox!IsUnread(t)
      BY <1>1 DEF Inbox!IsUnread
    <2> QED
      BY <2>1, <2>2, <2>3, Zenon
  <1>7. Inbox!Entry(t) = [t |-> t, unread |-> b]
    BY <1>5 DEF Inbox!Entry
  <1> QED
    BY <1>6, <1>7 DEF Entries

LEMMA InboxFirstOnes ==
    ASSUME RowsSound, NEW S \in SUBSET Inbox!Threads, NEW n
    PROVE  Inbox!First(S, n) = First(heights, S, n)
  <1>1. S \subseteq 1 .. InboxThreads
    BY InboxAssumption DEF RowsSound, Inbox!Threads
  <1>2. ASSUME NEW t \in S
        PROVE  {o \in S : Inbox!Behind(Inbox!Place(t), Inbox!Place(o))} = Above(heights, S, t)
    <2>1. \A o \in S : Inbox!Behind(Inbox!Place(t), Inbox!Place(o)) <=> heights[o] > heights[t]
      BY <1>1, HeightsOrder
    <2> QED
      BY <2>1 DEF Above
  <1> QED
    BY <1>2, InboxCounts DEF Inbox!First, First, Rank

\* The entries of a page, from the newest thread on.
LEMMA InboxOrdering ==
    ASSUME RowsSound, NEW S \in SUBSET Inbox!Threads, NEW q, q = Inbox!Sorted(S)
    PROVE  /\ q \in Seq(Entries) /\ Len(q) = Cardinality(S)
           /\ \A i \in 1 .. Len(q) : q[i].t \in S /\ (q[i].unread <=> Inbox!IsUnread(q[i].t))
           /\ \A i, j \in 1 .. Len(q) : q[i].t = q[j].t => i = j
           /\ \A t \in S : \E i \in 1 .. Len(q) : q[i].t = t
  <1>1. Ranked(heights, S) /\ IsFiniteSet(S) /\ S \subseteq 1 .. InboxThreads
    BY HeightsRanked, InboxAssumption DEF RowsSound, Inbox!Threads
  <1>2. PICK n \in Nat : n = Cardinality(S)
    BY <1>1, FS_CardinalityType
  <1>3. \A t \in S : Inbox!Cardinality({o \in S : Inbox!Behind(Inbox!Place(t), Inbox!Place(o))})
                         = Rank(heights, S, t)
    <2> SUFFICES ASSUME NEW t \in S
                 PROVE  Inbox!Cardinality({o \in S : Inbox!Behind(Inbox!Place(t), Inbox!Place(o))})
                            = Rank(heights, S, t)
      OBVIOUS
    <2>1. \A o \in S : Inbox!Behind(Inbox!Place(t), Inbox!Place(o)) <=> heights[o] > heights[t]
      BY <1>1, HeightsOrder
    <2>2. {o \in S : Inbox!Behind(Inbox!Place(t), Inbox!Place(o))} = Above(heights, S, t)
      BY <2>1 DEF Above
    <2> QED
      BY <2>2, InboxCounts DEF Rank
  <1>4. PICK w : w = [i \in 1 .. n |-> CHOOSE t \in S : Inbox!Cardinality(
                      {o \in S : Inbox!Behind(Inbox!Place(t), Inbox!Place(o))}) = i - 1]
    OBVIOUS
  <1>5. \A i \in 1 .. n : w[i] \in S /\ Rank(heights, S, w[i]) = i - 1
    <2> SUFFICES ASSUME NEW i \in 1 .. n PROVE w[i] \in S /\ Rank(heights, S, w[i]) = i - 1
      OBVIOUS
    <2>1. i - 1 \in Nat /\ i - 1 < Cardinality(S)
      BY <1>2
    <2>2. \E t \in S : Rank(heights, S, t) = i - 1
      BY <1>1, <2>1, RanksTaken
    <2>3. \E t \in S : Inbox!Cardinality(
              {o \in S : Inbox!Behind(Inbox!Place(t), Inbox!Place(o))}) = i - 1
      BY <1>3, <2>2
    <2>4. w[i] = CHOOSE t \in S : Inbox!Cardinality(
              {o \in S : Inbox!Behind(Inbox!Place(t), Inbox!Place(o))}) = i - 1
      BY <1>4
    <2>5. w[i] \in S /\ Inbox!Cardinality(
              {o \in S : Inbox!Behind(Inbox!Place(w[i]), Inbox!Place(o))}) = i - 1
      BY <2>3, <2>4, Zenon
    <2> QED
      BY <1>3, <2>5
  <1>6. q = [i \in 1 .. n |-> Inbox!Entry(w[i])]
    BY <1>2, <1>4, InboxCounts DEF Inbox!Sorted
  <1>7. \A i \in 1 .. n : /\ q[i] \in Entries /\ q[i].t = w[i]
                          /\ q[i].unread <=> Inbox!IsUnread(q[i].t)
    BY <1>1, <1>5, <1>6, EntryTells
  <1>8. q \in Seq(Entries) /\ Len(q) = n
    <2>1. q \in [1 .. n -> Entries]
      BY <1>6, <1>7
    <2>2. q \in Seq(Entries)
      BY <2>1, SeqDef, Zenon
    <2> QED
      BY <2>1, <2>2, LenProperties
  <1>9. ASSUME NEW i \in 1 .. n, NEW j \in 1 .. n, w[i] = w[j] PROVE i = j
    BY <1>5, <1>9
  <1>10. ASSUME NEW t \in S PROVE \E i \in 1 .. n : w[i] = t
    <2>1. Rank(heights, S, t) \in Nat /\ Rank(heights, S, t) < n
      BY <1>1, <1>2, AboveFinite
    <2>2. PICK i \in 1 .. n : i = Rank(heights, S, t) + 1
      BY <2>1
    <2>3. w[i] \in S /\ Rank(heights, S, w[i]) = Rank(heights, S, t)
      BY <1>5, <2>1, <2>2
    <2>4. ~(heights[w[i]] > heights[t]) /\ ~(heights[t] > heights[w[i]])
      BY <1>1, <2>1, <2>3, RankFollowsPlace
    <2>5. heights[w[i]] \in Nat /\ heights[t] \in Nat
      BY <1>1, <2>3 DEF Ranked
    <2>6. heights[w[i]] = heights[t]
      BY <2>4, <2>5
    <2>7. w[i] = t
      BY <1>1, <2>3, <2>6 DEF Ranked
    <2> QED
      BY <2>2, <2>7
  <1>11. \A i \in 1 .. n : q[i].t \in S /\ (q[i].unread <=> Inbox!IsUnread(q[i].t))
    BY <1>5, <1>7
  <1>12. \A i, j \in 1 .. n : q[i].t = q[j].t => i = j
    BY <1>7, <1>9
  <1>13. \A t \in S : \E i \in 1 .. n : q[i].t = t
    BY <1>7, <1>10
  <1> QED
    BY <1>2, <1>8, <1>11, <1>12, <1>13

\* A page shows all that is wanted from S down to its cursor, each once.
LEMMA InboxPageShows ==
    ASSUME RowsSound, NEW S \in SUBSET Inbox!Threads, NEW p, p = Inbox!PageOf(S)
    PROVE  /\ p.items \in Seq(Entries) /\ Len(p.items) <= InboxLimit /\ p.next \in Cursors
           /\ p.next = Inbox!None \/ \E t \in S : CutAt(p.next) = Height(t)
           /\ \A i \in 1 .. Len(p.items) :
                 /\ p.items[i].t \in S /\ Inbox!Wanted(p.items[i].t)
                 /\ p.items[i].unread <=> Inbox!IsUnread(p.items[i].t)
                 /\ CutAt(p.next) <= Height(p.items[i].t)
           /\ \A i, j \in 1 .. Len(p.items) : p.items[i].t = p.items[j].t => i = j
           /\ \A t \in S : Inbox!Wanted(t) /\ CutAt(p.next) <= Height(t)
                               => \E i \in 1 .. Len(p.items) : p.items[i].t = t
  <1>1. PICK W : W = {t \in S : Inbox!Wanted(t)}
    OBVIOUS
  <1>2. PICK lines : lines = Inbox!First(W, InboxLimit + 1)
    OBVIOUS
  <1>3. PICK cut : cut = Inbox!First(lines, InboxLimit)
    OBVIOUS
  <1>4. W = {t \in S : Inbox!Visible(t) /\ (unreadOnly => Inbox!IsUnread(t))}
    BY <1>1 DEF Inbox!Wanted
  <1>5. p = [items |-> Inbox!Sorted(cut),
             next |-> IF Inbox!Cardinality(lines) > InboxLimit
                      THEN Inbox!Place(CHOOSE t \in cut : \A o \in cut : ~Inbox!Behind(Inbox!Place(o), Inbox!Place(t)))
                      ELSE Inbox!None]
    BY <1>2, <1>3, <1>4 DEF Inbox!PageOf
  <1>6. lines = First(heights, W, InboxLimit + 1) /\ lines \subseteq W /\ W \subseteq S
    BY <1>1, <1>2, InboxFirstOnes DEF First
  <1>7. cut = First(heights, lines, InboxLimit) /\ cut \subseteq lines
    BY <1>3, <1>6, InboxFirstOnes DEF First
  <1>8. Ranked(heights, W) /\ Ranked(heights, lines) /\ IsFiniteSet(lines)
    BY <1>6, HeightsRanked
  <1>9. S \subseteq 1 .. InboxThreads /\ S \subseteq 1 .. opened /\ InboxLimit \in Nat \ {0}
    BY InboxAssumption DEF RowsSound, Inbox!Threads
  <1>10. \A t \in 1 .. InboxThreads : heights[t] = Height(t) /\ Height(t) \in Nat
    BY HeightsOrder
  <1>11. /\ \A s \in lines : \A o \in W : heights[o] >= heights[s] => o \in lines
         /\ Cardinality(lines) # InboxLimit + 1 => lines = W
    BY <1>6, <1>8, <1>9, FirstOnes
  <1>12. /\ \A s \in cut : \A o \in lines : heights[o] >= heights[s] => o \in cut
         /\ lines # {} => cut # {}
         /\ Cardinality(cut) # InboxLimit => cut = lines
    BY <1>7, <1>8, <1>9, FirstOnes
  <1>13. IsFiniteSet(cut) /\ Cardinality(cut) <= InboxLimit
    BY <1>7, <1>8, <1>9, FirstAtMost
  <1>14. /\ p.next = Inbox!None \/ \E t \in S : CutAt(p.next) = Height(t)
         /\ p.next \in Cursors /\ \A s \in cut : CutAt(p.next) <= Height(s)
         /\ \A t \in W : CutAt(p.next) <= Height(t) => t \in cut
    <2>1. CASE Cardinality(lines) > InboxLimit
      <3>1. lines # {} /\ cut # {}
        BY <1>9, <1>12, <2>1, FS_EmptySet
      <3>2. Ranked(heights, cut)
        BY <1>6, <1>7, HeightsRanked
      <3>3. PICK y \in cut : \A o \in cut : heights[y] <= heights[o]
        BY <3>1, <3>2, Extremes
      <3>4. \A t, o \in cut : Inbox!Behind(Inbox!Place(o), Inbox!Place(t)) <=> Height(t) > Height(o)
        BY <1>6, <1>7, <1>9, HeightsOrder
      <3>5. \E t \in cut : \A o \in cut : ~Inbox!Behind(Inbox!Place(o), Inbox!Place(t))
        BY <1>6, <1>7, <1>9, <1>10, <3>3, <3>4
      <3>6. PICK x : x = CHOOSE t \in cut : \A o \in cut : ~Inbox!Behind(Inbox!Place(o), Inbox!Place(t))
        OBVIOUS
      <3>7. x \in cut /\ \A o \in cut : ~Inbox!Behind(Inbox!Place(o), Inbox!Place(x))
        BY <3>5, <3>6, Zenon
      <3>8. x \in 1 .. opened /\ x \in 1 .. InboxThreads /\ \A o \in cut : Height(x) <= Height(o)
        BY <1>6, <1>7, <1>9, <1>10, <3>4, <3>7
      <3>9. p.next = [at |-> recent[x], t |-> x]
        BY <1>5, <2>1, <3>6, InboxCounts DEF Inbox!Place
      <3>10. recent[x] \in 0 .. now
        BY <3>8 DEF RowsSound
      <3>11. p.next \in Cursors /\ p.next # Inbox!None
        BY <3>8, <3>9, <3>10 DEF Cursors, Inbox!None
      <3>12. CutAt(p.next) = Height(x)
        BY <3>9, <3>11 DEF CutAt, Height, HeightIn
      <3>13. ASSUME NEW t \in W, CutAt(p.next) <= Height(t) PROVE t \in cut
        <4>1. heights[t] >= heights[x]
          BY <1>6, <1>9, <1>10, <3>8, <3>12, <3>13
        <4>2. t \in lines
          BY <1>7, <1>11, <3>7, <4>1
        <4> QED
          BY <1>12, <3>7, <4>1, <4>2
      <3> QED
        BY <1>6, <1>7, <3>7, <3>8, <3>11, <3>12, <3>13
    <2>2. CASE ~(Cardinality(lines) > InboxLimit)
      <3>1. p.next = Inbox!None
        BY <1>5, <2>2, InboxCounts
      <3>2. CutAt(p.next) = 0 /\ p.next \in Cursors
        BY <3>1 DEF CutAt, Cursors
      <3>3. Cardinality(lines) \in Nat /\ Cardinality(cut) \in Nat
        BY <1>8, <1>13, FS_CardinalityType
      <3>4. lines = W
        BY <1>9, <1>11, <2>2, <3>3
      <3>5. cut = lines
        <4>1. Cardinality(cut) <= Cardinality(lines) /\ (Cardinality(lines) = Cardinality(cut) => lines = cut)
          BY <1>7, <1>8, FS_Subset
        <4> QED
          BY <1>9, <1>12, <2>2, <3>3, <4>1
      <3>6. \A s \in cut : Height(s) \in Nat
        BY <1>6, <1>7, <1>9, <1>10
      <3> QED
        BY <3>1, <3>2, <3>4, <3>5, <3>6
    <2> QED
      BY <2>1, <2>2
  <1>15. PICK q : q = p.items
    OBVIOUS
  <1>16. cut \in SUBSET Inbox!Threads /\ q = Inbox!Sorted(cut)
    BY <1>5, <1>6, <1>7, <1>15
  <1>17. /\ q \in Seq(Entries) /\ Len(q) = Cardinality(cut)
         /\ \A i \in 1 .. Len(q) : q[i].t \in cut /\ (q[i].unread <=> Inbox!IsUnread(q[i].t))
         /\ \A i, j \in 1 .. Len(q) : q[i].t = q[j].t => i = j
         /\ \A t \in cut : \E i \in 1 .. Len(q) : q[i].t = t
    BY <1>16, InboxOrdering
  <1>18. \A t \in cut : t \in S /\ Inbox!Wanted(t)
    BY <1>1, <1>6, <1>7
  <1> QED
    BY <1>1, <1>13, <1>14, <1>15, <1>17, <1>18


LEMMA InboxShows == \A t : t \in Inbox!Shown <=> Lists(list, t)
  BY DEF Inbox!Shown, Lists

LEMMA InitInbox == Inbox!Init => InboxInv
  <1> SUFFICES ASSUME Inbox!Init PROVE InboxInv
    OBVIOUS
  <1>1. RowsSound
    <2>1. IsFiniteSet(notes) /\ notes = {}
      BY FS_EmptySet DEF Inbox!Init
    <2>2. InboxThreads \in Nat \ {0} /\ InboxPosts \in Nat /\ Grouped \subseteq 1 .. InboxThreads
      BY InboxAssumption
    <2> QED
      BY <2>1, <2>2 DEF Inbox!Init, RowsSound
  <1>2. list = <<>> /\ DOMAIN list = {} /\ more = Inbox!None /\ still = {}
    BY DEF Inbox!Init
  <1>3. ListSound
    BY <1>2 DEF ListSound, Cursors
  <1>4. ScrolledOnce /\ Unmoved
    BY <1>2 DEF ScrolledOnce, Scrolled, Unmoved
  <1> QED
    BY <1>1, <1>3, <1>4 DEF InboxInv

\* A thread something happened to is out of what the pages say; of the others
\* everything the pages say is still so.
LEMMA TouchKeepsInbox ==
    ASSUME InboxInv, RowsSound', NEW t, Inbox!Touch(t),
           opened <= opened', now <= now', t \in 1 .. opened', 1 .. opened' \subseteq (1 .. opened) \cup {t},
           \A o \in 1 .. opened : o # t => recent'[o] = recent[o] /\ (Inbox!Wanted(o)' <=> Inbox!Wanted(o)),
           UNCHANGED <<list, more, pushed>>
    PROVE  InboxInv'
  <1>1. /\ list' = list /\ more' = more /\ pushed' = pushed /\ still' = still \ {t}
        /\ 1 .. opened \subseteq 1 .. opened' /\ 0 .. now \subseteq 0 .. now'
    BY DEF InboxInv, RowsSound, Inbox!Touch
  <1>2. ListSound'
    <2>1. more' \in Cursors'
      BY <1>1 DEF InboxInv, ListSound, Cursors, Inbox!None
    <2> QED
      BY <1>1, <2>1 DEF InboxInv, ListSound, Entries
  <1>3. CutAt(more)' = CutAt(more)
    BY <1>1 DEF CutAt, Inbox!None
  <1>4. \A o \in 1 .. opened : o # t => Height(o)' = Height(o)
    BY DEF Height, HeightIn
  <1>5. Scrolled(list, more, still, pushed)
    BY DEF InboxInv, ScrolledOnce
  <1>6. \A p \in DOMAIN list : \A i \in DOMAIN list[p] : list[p][i].t \in 1 .. opened
    BY DEF InboxInv, ListSound
  <1>7. \A o : o \in still' => o \in still /\ o # t
    BY <1>1
  <1>8. \A o \in 1 .. opened' : o # t => o \in 1 .. opened
    OBVIOUS
  <1>9. ASSUME NEW o \in still', o \in 1 .. opened', Inbox!Wanted(o)', CutAt(more)' <= Height(o)'
        PROVE  o \in pushed' \/ Lists(list', o)
    <2>1. o \in still /\ o \in 1 .. opened /\ Inbox!Wanted(o) /\ CutAt(more) <= Height(o)
      BY <1>3, <1>4, <1>7, <1>8, <1>9
    <2> QED
      BY <1>1, <1>5, <2>1 DEF Scrolled, Inbox!Threads
  <1>10. ASSUME NEW p \in DOMAIN list', NEW i \in DOMAIN list'[p], list'[p][i].t \in still'
         PROVE  CutAt(more)' <= Height(list[p][i].t)'
    <2>1. p \in DOMAIN list /\ i \in DOMAIN list[p] /\ list[p][i].t \in still /\ list[p][i].t # t
      BY <1>1, <1>7, <1>10
    <2>2. CutAt(more) <= Height(list[p][i].t) /\ list[p][i].t \in 1 .. opened
      BY <1>5, <1>6, <2>1 DEF Scrolled
    <2> QED
      BY <1>3, <1>4, <2>1, <2>2
  <1>11. ASSUME NEW p \in DOMAIN list', NEW q \in DOMAIN list', NEW i \in DOMAIN list'[p], NEW j \in DOMAIN list'[q],
                list'[p][i].t = list'[q][j].t, list'[p][i].t \in still'
         PROVE  p = q /\ i = j
    BY <1>1, <1>5, <1>7, <1>11 DEF Scrolled
  <1>12. ScrolledOnce'
    <2>1. \A o \in still' \cap Inbox!Threads' :
             Inbox!Wanted(o)' /\ CutAt(more)' <= Height(o)' => o \in pushed' \/ Lists(list', o)
      BY <1>9 DEF Inbox!Threads
    <2>2. \A p \in DOMAIN list' : \A i \in DOMAIN list'[p] :
             list'[p][i].t \in still' => CutAt(more)' <= HeightIn(recent', list'[p][i].t)
      BY <1>1, <1>10 DEF Height
    <2>3. \A p, q \in DOMAIN list' : \A i \in DOMAIN list'[p], j \in DOMAIN list'[q] :
             list'[p][i].t = list'[q][j].t /\ list'[p][i].t \in still' => p = q /\ i = j
      BY <1>11
    <2> QED
      BY <2>1, <2>2, <2>3 DEF ScrolledOnce, Scrolled, Height, Lists
  <1>13. Unmoved'
    <2>1. ~(Inbox!Threads' \subseteq still')
      BY <1>1 DEF Inbox!Threads
    <2> QED
      BY <2>1 DEF Unmoved
  <1> QED
    BY <1>2, <1>12, <1>13 DEF InboxInv


LEMMA OpenKeepsInbox == ASSUME InboxInv, Inbox!Open PROVE InboxInv'
  <1>1. /\ opened < InboxThreads /\ opened' = opened + 1 /\ Inbox!Touch(opened')
        /\ UNCHANGED <<now, recent, notes, readTo, inside, belong, list, more, unreadOnly, pushed>>
    BY DEF Inbox!Open
  <1>2. opened \in 1 .. InboxThreads /\ opened' \in 1 .. InboxThreads /\ now \in Nat
    BY <1>1, InboxAssumption DEF InboxInv, RowsSound
  <1>3. notes' \subseteq Notes'
    <2>1. notes \subseteq Notes /\ 1 .. opened \subseteq 1 .. opened'
      BY <1>1, <1>2 DEF InboxInv, RowsSound
    <2> QED
      BY <1>1, <2>1 DEF Notes
  <1>4. RowsSound'
    BY <1>1, <1>2, <1>3 DEF InboxInv, RowsSound
  <1>5. \A o \in 1 .. opened : recent'[o] = recent[o] /\ (Inbox!Wanted(o)' <=> Inbox!Wanted(o))
    BY <1>1 DEF Inbox!Wanted, Inbox!Visible, Inbox!IsUnread
  <1>6. /\ opened <= opened' /\ now <= now' /\ opened' \in 1 .. opened'
        /\ 1 .. opened' \subseteq (1 .. opened) \cup {opened'}
    BY <1>1, <1>2
  <1> QED
    BY <1>1, <1>4, <1>5, <1>6, TouchKeepsInbox

\* Where a thread stays what it was, so does what is wanted of it.
LEMMA WantedStays ==
    ASSUME NEW o, UNCHANGED unreadOnly,
           o \in inside' <=> o \in inside, o \in belong' <=> o \in belong, readTo'[o] = readTo[o],
           \A x : x \in notes /\ x.in = o => x \in notes',
           \A x : x \in notes' /\ x.in = o => x \in notes
    PROVE  Inbox!Wanted(o)' <=> Inbox!Wanted(o)
  <1>1. Inbox!Visible(o)' <=> Inbox!Visible(o)
    BY DEF Inbox!Visible
  <1>2. Inbox!IsUnread(o)' <=> Inbox!IsUnread(o)
    BY DEF Inbox!IsUnread
  <1> QED
    BY <1>1, <1>2 DEF Inbox!Wanted

LEMMA PostKeepsInbox ==
    ASSUME InboxInv, NEW t \in Inbox!Threads, NEW own \in BOOLEAN, Inbox!Post(t, own) PROVE InboxInv'
  <1>1. PICK x : x = [in |-> t, at |-> now', own |-> own, gone |-> FALSE]
    OBVIOUS
  <1>2. /\ now < InboxPosts /\ now' = now + 1 /\ notes' = notes \cup {x}
        /\ recent' = [recent EXCEPT ![t] = now']
        /\ readTo' = IF own THEN [readTo EXCEPT ![t] = now'] ELSE readTo
        /\ Inbox!Touch(t) /\ UNCHANGED <<opened, inside, belong, list, more, unreadOnly, pushed>>
    BY <1>1 DEF Inbox!Post
  <1>3. /\ now \in 0 .. InboxPosts /\ InboxPosts \in Nat /\ now' \in 0 .. InboxPosts
        /\ t \in 1 .. opened /\ opened \in 1 .. InboxThreads /\ t \in 1 .. InboxThreads /\ InboxThreads \in Nat
    BY <1>2, InboxAssumption DEF InboxInv, RowsSound, Inbox!Threads
  <1>4. /\ recent' \in [1 .. InboxThreads -> Nat] /\ readTo' \in [1 .. InboxThreads -> Nat]
        /\ \A o \in 1 .. InboxThreads : o # t => recent'[o] = recent[o] /\ readTo'[o] = readTo[o]
        /\ recent'[t] = now' /\ readTo'[t] <= now' /\ \A o \in 1 .. InboxThreads : recent[o] <= recent'[o]
    BY <1>2, <1>3 DEF InboxInv, RowsSound
  <1>5. IsFiniteSet(notes')
    BY <1>2, FS_AddElement DEF InboxInv, RowsSound
  <1>6. x \in Notes' /\ x.in = t /\ x.at = now' /\ notes \subseteq Notes'
    <2>1. now' \in Nat /\ opened' = opened
      BY <1>2, <1>3
    <2> QED
      BY <1>1, <1>3, <2>1 DEF Notes, InboxInv, RowsSound
  <1>7. \A o \in 1 .. InboxThreads : readTo'[o] <= recent'[o] /\ recent'[o] <= now'
    BY <1>2, <1>3, <1>4 DEF InboxInv, RowsSound
  <1>8. \A y \in notes' : y.at <= recent'[y.in]
    <2> SUFFICES ASSUME NEW y \in notes' PROVE y.at <= recent'[y.in]
      OBVIOUS
    <2>1. CASE y = x
      BY <1>3, <1>4, <1>6, <2>1
    <2>2. CASE y \in notes
      <3>1. y.at <= recent[y.in] /\ y.in \in 1 .. InboxThreads /\ y.at \in Nat
        BY <1>3, <2>2 DEF InboxInv, RowsSound, Notes
      <3>2. recent[y.in] <= recent'[y.in] /\ recent[y.in] \in Nat /\ recent'[y.in] \in Nat
        BY <1>4, <3>1 DEF InboxInv, RowsSound
      <3> QED
        BY <3>1, <3>2
    <2> QED
      BY <1>2, <2>1, <2>2
  <1>9. RowsSound'
    BY <1>2, <1>3, <1>4, <1>5, <1>6, <1>7, <1>8 DEF InboxInv, RowsSound
  <1>10. ASSUME NEW o \in 1 .. opened, o # t
         PROVE  recent'[o] = recent[o] /\ (Inbox!Wanted(o)' <=> Inbox!Wanted(o))
    <2>1. o \in 1 .. InboxThreads
      BY <1>3
    <2>2. \A y : y.in = o => (y \in notes' <=> y \in notes)
      BY <1>2, <1>6, <1>10
    <2>3. recent'[o] = recent[o] /\ readTo'[o] = readTo[o]
      BY <1>4, <1>10, <2>1
    <2>4. Inbox!Wanted(o)' <=> Inbox!Wanted(o)
      BY <1>2, <2>2, <2>3, WantedStays
    <2> QED
      BY <2>3, <2>4
  <1>11. /\ opened <= opened' /\ now <= now' /\ t \in 1 .. opened'
         /\ 1 .. opened' \subseteq (1 .. opened) \cup {t}
    BY <1>2, <1>3
  <1> QED
    BY <1>2, <1>9, <1>10, <1>11, TouchKeepsInbox

LEMMA DeleteKeepsInbox == ASSUME InboxInv, NEW x \in notes, Inbox!Delete(x) PROVE InboxInv'
  <1>1. PICK y : y = [x EXCEPT !.gone = TRUE]
    OBVIOUS
  <1>2. /\ notes' = (notes \ {x}) \cup {y} /\ Inbox!Touch(x.in)
        /\ UNCHANGED <<opened, now, recent, readTo, inside, belong, list, more, unreadOnly, pushed>>
    BY <1>1 DEF Inbox!Delete
  <1>3. x \in Notes /\ y \in Notes /\ y.in = x.in /\ y.at = x.at
    BY <1>1 DEF InboxInv, RowsSound, Notes
  <1>4. opened \in 1 .. InboxThreads /\ x.in \in 1 .. opened /\ now \in Nat /\ InboxThreads \in Nat
    BY <1>3, InboxAssumption DEF InboxInv, RowsSound, Notes
  <1>5. IsFiniteSet(notes')
    <2>1. IsFiniteSet(notes \ {x})
      BY FS_Subset DEF InboxInv, RowsSound
    <2> QED
      BY <1>2, <2>1, FS_AddElement
  <1>6. notes' \subseteq Notes' /\ \A z \in notes' : z.at <= recent'[z.in]
    <2>1. Notes' = Notes /\ recent' = recent
      BY <1>2 DEF Notes
    <2> QED
      BY <1>2, <1>3, <2>1 DEF InboxInv, RowsSound
  <1>7. RowsSound'
    BY <1>2, <1>5, <1>6 DEF InboxInv, RowsSound
  <1>8. ASSUME NEW o \in 1 .. opened, o # x.in
        PROVE  recent'[o] = recent[o] /\ (Inbox!Wanted(o)' <=> Inbox!Wanted(o))
    <2>1. \A z : z.in = o => (z \in notes' <=> z \in notes)
      BY <1>2, <1>3, <1>8
    <2>2. Inbox!Wanted(o)' <=> Inbox!Wanted(o)
      BY <1>2, <2>1, WantedStays
    <2> QED
      BY <1>2, <2>2
  <1>9. /\ opened <= opened' /\ now <= now' /\ x.in \in 1 .. opened'
        /\ 1 .. opened' \subseteq (1 .. opened) \cup {x.in}
    BY <1>2, <1>4
  <1> QED
    BY <1>2, <1>7, <1>8, <1>9, TouchKeepsInbox

LEMMA ReadKeepsInbox == ASSUME InboxInv, NEW x \in notes, Inbox!Read(x) PROVE InboxInv'
  <1>1. /\ readTo' = [readTo EXCEPT ![x.in] = x.at] /\ Inbox!Touch(x.in)
        /\ UNCHANGED <<opened, now, recent, notes, inside, belong, list, more, unreadOnly, pushed>>
    BY DEF Inbox!Read
  <1>2. /\ x.in \in 1 .. opened /\ x.at \in Nat /\ x.at <= recent[x.in]
        /\ opened \in 1 .. InboxThreads /\ now \in Nat /\ InboxThreads \in Nat
    BY InboxAssumption DEF InboxInv, RowsSound, Notes
  <1>3. x.in \in 1 .. InboxThreads
    BY <1>2
  <1>4. /\ readTo' \in [1 .. InboxThreads -> Nat]
        /\ \A o \in 1 .. InboxThreads : /\ o # x.in => readTo'[o] = readTo[o]
                                        /\ readTo'[o] <= recent'[o]
    BY <1>1, <1>2, <1>3 DEF InboxInv, RowsSound
  <1>5. Notes' = Notes
    BY <1>1 DEF Notes
  <1>6. RowsSound'
    BY <1>1, <1>4, <1>5 DEF InboxInv, RowsSound
  <1>7. ASSUME NEW o \in 1 .. opened, o # x.in
        PROVE  recent'[o] = recent[o] /\ (Inbox!Wanted(o)' <=> Inbox!Wanted(o))
    <2>1. o \in 1 .. InboxThreads
      BY <1>2
    <2>2. Inbox!Wanted(o)' <=> Inbox!Wanted(o)
      BY <1>1, <1>4, <1>7, <2>1, WantedStays
    <2> QED
      BY <1>1, <2>2
  <1>8. /\ opened <= opened' /\ now <= now' /\ x.in \in 1 .. opened'
        /\ 1 .. opened' \subseteq (1 .. opened) \cup {x.in}
    BY <1>1, <1>2
  <1> QED
    BY <1>1, <1>6, <1>7, <1>8, TouchKeepsInbox

LEMMA RemoveKeepsInbox == ASSUME InboxInv, NEW t \in Inbox!Threads, Inbox!Remove(t) PROVE InboxInv'
  <1>1. /\ Inbox!Touch(t) /\ UNCHANGED <<opened, now, recent, notes, readTo, list, more, unreadOnly, pushed>>
        /\ \/ inside' = (inside \ {t}) \cup ({t} \ inside) /\ belong' = belong
           \/ t \in Grouped /\ belong' = (belong \ {t}) \cup ({t} \ belong) /\ inside' = inside
    BY DEF Inbox!Remove
  <1>2. t \in 1 .. opened /\ opened \in 1 .. InboxThreads /\ now \in Nat /\ InboxThreads \in Nat
    BY InboxAssumption DEF InboxInv, RowsSound, Inbox!Threads
  <1>3. inside' \subseteq 1 .. InboxThreads /\ belong' \subseteq Grouped
    <2>1. t \in 1 .. InboxThreads /\ inside \subseteq 1 .. InboxThreads /\ belong \subseteq Grouped
      BY <1>2 DEF InboxInv, RowsSound
    <2> QED
      BY <1>1, <2>1
  <1>4. Notes' = Notes
    BY <1>1 DEF Notes
  <1>5. RowsSound'
    BY <1>1, <1>3, <1>4 DEF InboxInv, RowsSound
  <1>6. ASSUME NEW o \in 1 .. opened, o # t
        PROVE  recent'[o] = recent[o] /\ (Inbox!Wanted(o)' <=> Inbox!Wanted(o))
    <2>1. (o \in inside' <=> o \in inside) /\ (o \in belong' <=> o \in belong)
      BY <1>1, <1>6
    <2>2. Inbox!Wanted(o)' <=> Inbox!Wanted(o)
      BY <1>1, <2>1, WantedStays
    <2> QED
      BY <1>1, <2>2
  <1>7. /\ opened <= opened' /\ now <= now' /\ t \in 1 .. opened'
        /\ 1 .. opened' \subseteq (1 .. opened) \cup {t}
    BY <1>1, <1>2
  <1> QED
    BY <1>1, <1>5, <1>6, <1>7, TouchKeepsInbox


LEMMA PagesStand ==
    ASSUME InboxInv, UNCHANGED <<opened, now, recent, notes, readTo, inside, belong, unreadOnly>>,
           list' \in Seq(Seq(Entries)), more' \in Cursors, list' # <<>>,
           \A p \in DOMAIN list' : /\ Len(list'[p]) <= InboxLimit
                                   /\ \A i \in DOMAIN list'[p] : list'[p][i].t \in 1 .. opened,
           Scrolled(list', more', still', pushed'),
           Inbox!Threads \subseteq still' => AsListed(list', pushed', totals')
    PROVE  InboxInv'
  <1>1. Notes' = Notes /\ Cursors' = Cursors /\ Inbox!Threads' = Inbox!Threads
    BY DEF Notes, Cursors, Inbox!Threads, Inbox!None
  <1>2. /\ \A t : Inbox!Wanted(t)' <=> Inbox!Wanted(t)
        /\ \A t : Inbox!IsUnread(t)' <=> Inbox!IsUnread(t)
        /\ Inbox!Summary' = Inbox!Summary
    BY <1>1 DEF Inbox!Wanted, Inbox!Visible, Inbox!IsUnread, Inbox!Summary
  <1>3. RowsSound'
    BY <1>1 DEF InboxInv, RowsSound
  <1>4. ListSound'
    BY <1>1 DEF ListSound
  <1>5. ScrolledOnce'
    BY <1>1, <1>2 DEF ScrolledOnce, Scrolled, Height, HeightIn, CutAt, Inbox!None, Lists, Inbox!Wanted, Inbox!Visible, Inbox!IsUnread
  <1>6. Unmoved'
    BY <1>1, <1>2 DEF Unmoved, AsListed, Inbox!Wanted, Inbox!Visible, Inbox!IsUnread
  <1> QED
    BY <1>3, <1>4, <1>5, <1>6 DEF InboxInv

LEMMA FirstPageKeepsInbox == ASSUME InboxInv, Inbox!FirstPage PROVE InboxInv'
  <1>1. PICK p : p = Inbox!PageOf(Inbox!Threads)
    OBVIOUS
  <1>2. PICK q : q = p.items
    OBVIOUS
  <1>3. /\ list' = <<q>> /\ more' = p.next /\ totals' = Inbox!Summary /\ pushed' = {}
        /\ UNCHANGED <<opened, now, recent, notes, readTo, inside, belong, unreadOnly>>
    BY <1>1, <1>2 DEF Inbox!FirstPage, Inbox!rows
  <1>4. /\ q \in Seq(Entries) /\ Len(q) <= InboxLimit /\ p.next \in Cursors
        /\ \A i \in 1 .. Len(q) :
              /\ q[i].t \in Inbox!Threads /\ Inbox!Wanted(q[i].t)
              /\ q[i].unread <=> Inbox!IsUnread(q[i].t)
              /\ CutAt(p.next) <= Height(q[i].t)
        /\ \A i, j \in 1 .. Len(q) : q[i].t = q[j].t => i = j
        /\ \A t \in Inbox!Threads : Inbox!Wanted(t) /\ CutAt(p.next) <= Height(t)
                            => \E i \in 1 .. Len(q) : q[i].t = t
    BY <1>1, <1>2, InboxPageShows DEF InboxInv
  <1>5. DOMAIN q = 1 .. Len(q)
    BY <1>4
  <1>6. list' \in Seq(Seq(Entries)) /\ DOMAIN list' = {1} /\ list'[1] = q /\ list' # <<>>
    BY <1>3, <1>4
  <1>7. Scrolled(list', more', still', pushed')
    BY <1>3, <1>4, <1>5, <1>6 DEF Scrolled, Lists
  <1>8. AsListed(list', pushed', totals')
    BY <1>3, <1>4, <1>5, <1>6 DEF AsListed
  <1> QED
    BY <1>3, <1>4, <1>5, <1>6, <1>7, <1>8, PagesStand DEF Inbox!Threads

LEMMA NextPageKeepsInbox == ASSUME InboxInv, Inbox!NextPage PROVE InboxInv'
  <1>1. PICK S : S = {t \in Inbox!Threads : Inbox!AfterCursor(t, more)}
    OBVIOUS
  <1>2. PICK p : p = Inbox!PageOf(S)
    OBVIOUS
  <1>3. PICK q : q = p.items
    OBVIOUS
  <1>4. /\ more # Inbox!None /\ list' = Append(list, q) /\ more' = p.next
        /\ UNCHANGED <<opened, now, recent, notes, readTo, inside, belong, unreadOnly, totals, still, pushed>>
    BY <1>1, <1>2, <1>3 DEF Inbox!NextPage, Inbox!rows
  <1>5. S \in SUBSET Inbox!Threads
    BY <1>1
  <1>6. /\ q \in Seq(Entries) /\ Len(q) <= InboxLimit /\ p.next \in Cursors
        /\ p.next = Inbox!None \/ \E t \in S : CutAt(p.next) = Height(t)
        /\ \A i \in 1 .. Len(q) :
              /\ q[i].t \in S /\ Inbox!Wanted(q[i].t)
              /\ q[i].unread <=> Inbox!IsUnread(q[i].t)
              /\ CutAt(p.next) <= Height(q[i].t)
        /\ \A i, j \in 1 .. Len(q) : q[i].t = q[j].t => i = j
        /\ \A t \in S : Inbox!Wanted(t) /\ CutAt(p.next) <= Height(t)
                            => \E i \in 1 .. Len(q) : q[i].t = t
    BY <1>2, <1>3, <1>5, InboxPageShows DEF InboxInv
  <1>7. Inbox!Threads \subseteq 1 .. InboxThreads
    BY InboxAssumption DEF InboxInv, RowsSound, Inbox!Threads
  <1>8. \A t \in Inbox!Threads : t \in S <=> Height(t) < CutAt(more)
    BY <1>1, <1>4, <1>7, CursorCuts DEF InboxInv, ListSound
  <1>9. CutAt(more) \in Nat /\ CutAt(p.next) \in Nat /\ \A t \in Inbox!Threads : Height(t) \in Nat
    <2>1. 1 \in 1 .. InboxThreads
      BY InboxAssumption
    <2>2. CutAt(more) \in Nat /\ CutAt(p.next) \in Nat
      BY <1>6, <2>1, CursorCuts DEF InboxInv, ListSound
    <2> QED
      BY <1>7, <2>2, HeightsOrder DEF InboxInv
  <1>10. CutAt(p.next) <= CutAt(more)
    <2>1. p.next = Inbox!None => CutAt(p.next) = 0
      BY DEF CutAt
    <2> QED
      BY <1>5, <1>6, <1>8, <1>9, <2>1
  <1>11. PICK n \in Nat : n = Len(list)
    BY DEF InboxInv, ListSound
  <1>12. /\ list' \in Seq(Seq(Entries)) /\ DOMAIN list' = 1 .. n + 1 /\ DOMAIN list = 1 .. n
         /\ list'[n + 1] = q /\ \A k \in 1 .. n : list'[k] = list[k]
    <2>1. list \in Seq(Seq(Entries)) /\ q \in Seq(Entries)
      BY <1>6 DEF InboxInv, ListSound
    <2> QED
      BY <1>4, <1>11, <2>1
  <1>13. list # <<>> /\ n # 0 /\ list' # <<>>
    <2>1. list # <<>>
      BY <1>4 DEF InboxInv, ListSound
    <2>2. DOMAIN list' # {}
      BY <1>11, <1>12
    <2> QED
      BY <1>11, <2>1, <2>2 DEF InboxInv, ListSound
  <1>14. DOMAIN q = 1 .. Len(q)
    BY <1>6
  <1>15. \A k \in 1 .. n + 1 : k \in 1 .. n \/ k = n + 1
    BY <1>11
  <1>16. /\ \A k \in 1 .. n : Len(list[k]) <= InboxLimit
         /\ \A k \in 1 .. n : \A i \in DOMAIN list[k] : list[k][i].t \in Inbox!Threads
    BY <1>12 DEF InboxInv, ListSound, Inbox!Threads
  <1>17. \A k \in DOMAIN list' : /\ Len(list'[k]) <= InboxLimit
                                 /\ \A i \in DOMAIN list'[k] : list'[k][i].t \in 1 .. opened
    BY <1>5, <1>6, <1>12, <1>14, <1>15, <1>16 DEF Inbox!Threads
  <1>18. Scrolled(list, more, still, pushed)
    BY DEF InboxInv, ScrolledOnce
  <1>19. ASSUME NEW t \in still \cap Inbox!Threads, Inbox!Wanted(t), CutAt(p.next) <= Height(t)
         PROVE  t \in pushed \/ Lists(list', t)
    <2>1. CASE CutAt(more) <= Height(t)
      <3>1. t \in pushed \/ \E k \in 1 .. n : \E i \in DOMAIN list[k] : list[k][i].t = t
        BY <1>12, <1>18, <1>19, <2>1 DEF Scrolled, Lists
      <3>2. CASE t \in pushed
        BY <3>2
      <3>3. CASE \E k \in 1 .. n : \E i \in DOMAIN list[k] : list[k][i].t = t
        <4>1. PICK k \in 1 .. n : \E i \in DOMAIN list[k] : list[k][i].t = t
          BY <3>3
        <4>2. k \in DOMAIN list' /\ list'[k] = list[k]
          BY <1>11, <1>12
        <4> QED
          BY <4>1, <4>2 DEF Lists
      <3> QED
        BY <3>1, <3>2, <3>3
    <2>2. CASE Height(t) < CutAt(more)
      <3>1. \E i \in 1 .. Len(q) : q[i].t = t
        BY <1>6, <1>8, <1>19, <2>2
      <3> QED
        BY <1>11, <1>12, <1>14, <3>1 DEF Lists
    <2> QED
      BY <1>9, <2>1, <2>2
  <1>20. ASSUME NEW k \in 1 .. n + 1, NEW i \in DOMAIN list'[k], list'[k][i].t \in still
         PROVE  /\ CutAt(p.next) <= Height(list'[k][i].t)
                /\ k \in 1 .. n => CutAt(more) <= Height(list'[k][i].t)
                /\ k = n + 1 => Height(list'[k][i].t) < CutAt(more)
    <2>1. CASE k \in 1 .. n
      <3>1. list'[k] = list[k] /\ CutAt(more) <= Height(list[k][i].t) /\ Height(list[k][i].t) \in Nat
        BY <1>9, <1>12, <1>16, <1>18, <1>20, <2>1 DEF Scrolled
      <3> QED
        BY <1>9, <1>10, <1>11, <2>1, <3>1
    <2>2. CASE k = n + 1
      BY <1>5, <1>6, <1>8, <1>11, <1>12, <1>14, <1>20, <2>2
    <2> QED
      BY <1>15, <2>1, <2>2
  <1>21. ASSUME NEW k \in 1 .. n + 1, NEW m \in 1 .. n + 1, NEW i \in DOMAIN list'[k], NEW j \in DOMAIN list'[m],
                list'[k][i].t = list'[m][j].t, list'[k][i].t \in still
         PROVE  k = m /\ i = j
    <2>1. CASE k \in 1 .. n /\ m \in 1 .. n
      <3>1. k \in DOMAIN list /\ m \in DOMAIN list /\ list'[k] = list[k] /\ list'[m] = list[m]
        BY <1>12, <2>1
      <3>2. i \in DOMAIN list[k] /\ j \in DOMAIN list[m] /\ list[k][i].t = list[m][j].t /\ list[k][i].t \in still
        BY <1>21, <3>1
      <3> QED
        BY <1>18, <3>1, <3>2 DEF Scrolled
    <2>2. CASE k = n + 1 /\ m = n + 1
      BY <1>6, <1>12, <1>14, <1>21, <2>2
    <2>3. PICK t \in Inbox!Threads : t = list'[k][i].t
      BY <1>17, <1>12 DEF Inbox!Threads
    <2>4. /\ (k \in 1 .. n => CutAt(more) <= Height(t)) /\ (k = n + 1 => Height(t) < CutAt(more))
          /\ (m \in 1 .. n => CutAt(more) <= Height(t)) /\ (m = n + 1 => Height(t) < CutAt(more))
      BY <1>20, <1>21, <2>3
    <2> QED
      BY <1>9, <1>15, <2>1, <2>2, <2>3, <2>4
  <1>22. Scrolled(list', more', still', pushed')
    BY <1>4, <1>12, <1>19, <1>20, <1>21 DEF Scrolled
  <1>23. Inbox!Threads \subseteq still' => AsListed(list', pushed', totals')
    <2> SUFFICES ASSUME Inbox!Threads \subseteq still PROVE AsListed(list', pushed, totals)
      BY <1>4
    <2>1. AsListed(list, pushed, totals)
      BY <1>13 DEF InboxInv, Unmoved
    <2>2. ASSUME NEW k \in 1 .. n + 1, NEW i \in DOMAIN list'[k]
          PROVE  /\ Inbox!Wanted(list'[k][i].t)
                 /\ list'[k][i].unread <=> Inbox!IsUnread(list'[k][i].t)
      <3>1. CASE k \in 1 .. n
        <4>1. k \in DOMAIN list /\ list'[k] = list[k] /\ i \in DOMAIN list[k]
          BY <1>12, <2>2, <3>1
        <4> QED
          BY <2>1, <4>1 DEF AsListed
      <3>2. CASE k = n + 1
        BY <1>6, <1>12, <1>14, <2>2, <3>2
      <3> QED
        BY <1>15, <3>1, <3>2
    <2> QED
      BY <1>12, <2>1, <2>2 DEF AsListed
  <1> QED
    BY <1>4, <1>6, <1>12, <1>13, <1>17, <1>22, <1>23, PagesStand


\* The thread of an event is shown as it is now in its place.
LEMMA PreviewInPlace ==
    ASSUME InboxInv, NEW t \in Inbox!Threads, Inbox!Preview(t), Lists(list, t) PROVE InboxInv'
  <1>1. PICK e : e = Inbox!Entry(t)
    OBVIOUS
  <1>2. /\ list # <<>> /\ t \notin still /\ more' = more /\ pushed' = pushed /\ still' = still
        /\ UNCHANGED <<opened, now, recent, notes, readTo, inside, belong, unreadOnly>>
        /\ list' = [p \in DOMAIN list |-> [i \in DOMAIN list[p] |->
                       IF list[p][i].t = t THEN e ELSE list[p][i]]]
    BY <1>1, InboxShows DEF Inbox!Preview, Inbox!Previewed, Inbox!rows
  <1>3. t \in 1 .. InboxThreads
    BY InboxAssumption DEF InboxInv, RowsSound, Inbox!Threads
  <1>4. e \in Entries /\ e.t = t
    BY <1>1, <1>3, EntryTells DEF InboxInv
  <1>5. PICK n \in Nat : n = Len(list)
    BY DEF InboxInv, ListSound
  <1>6. list \in Seq(Seq(Entries)) /\ DOMAIN list = 1 .. n
    BY <1>5 DEF InboxInv, ListSound
  <1>7. ASSUME NEW p \in 1 .. n
        PROVE  /\ list'[p] \in Seq(Entries) /\ Len(list'[p]) = Len(list[p]) /\ DOMAIN list'[p] = DOMAIN list[p]
               /\ \A i \in DOMAIN list[p] : list'[p][i].t = list[p][i].t
    <2>1. PICK w \in Seq(Entries) : w = list[p]
      BY <1>6
    <2>2. PICK m \in Nat : m = Len(w)
      BY <2>1
    <2>3. DOMAIN w = 1 .. m /\ \A i \in 1 .. m : w[i] \in Entries
      BY <2>1, <2>2
    <2>4. list'[p] = [i \in 1 .. m |-> IF w[i].t = t THEN e ELSE w[i]]
      BY <1>2, <1>6, <2>1, <2>3
    <2>5. list'[p] \in [1 .. m -> Entries]
      BY <1>4, <2>3, <2>4
    <2>6. list'[p] \in Seq(Entries)
      BY <2>5, SeqDef, Zenon
    <2>7. Len(list'[p]) = m
      BY <2>5, <2>6, LenProperties
    <2>8. \A i \in 1 .. m : list'[p][i].t = w[i].t
      BY <1>4, <2>4
    <2> QED
      BY <2>1, <2>2, <2>3, <2>5, <2>6, <2>7, <2>8
  <1>8. list' \in Seq(Seq(Entries)) /\ DOMAIN list' = 1 .. n /\ list' # <<>>
    <2>1. DOMAIN list' = 1 .. n
      BY <1>2, <1>6
    <2>2. list' \in [1 .. n -> Seq(Entries)]
      <3>1. list' = [p \in 1 .. n |-> list'[p]]
        BY <1>2, <1>6
      <3>2. \A p \in 1 .. n : list'[p] \in Seq(Entries)
        BY <1>7
      <3> QED
        BY <3>1, <3>2, Zenon
    <2>3. list' \in Seq(Seq(Entries))
      <3>1. PICK D : D = Seq(Entries)
        OBVIOUS
      <3>2. list' \in [1 .. n -> D]
        BY <2>2, <3>1, Zenon
      <3>3. list' \in Seq(D)
        BY <3>2, SeqDef, Zenon
      <3> QED
        BY <3>1, <3>3, Zenon
    <2>4. n # 0
      BY <1>2, <1>5, <1>6
    <2>5. Len(list') = n
      BY <2>2, <2>3, LenProperties
    <2> QED
      BY <2>1, <2>3, <2>4, <2>5
  <1>9. \A p \in DOMAIN list' : /\ Len(list'[p]) <= InboxLimit
                                /\ \A i \in DOMAIN list'[p] : list'[p][i].t \in 1 .. opened
    BY <1>6, <1>7, <1>8 DEF InboxInv, ListSound
  <1>10. Scrolled(list, more, still, pushed)
    BY DEF InboxInv, ScrolledOnce
  <1>11. \A o : Lists(list', o) <=> Lists(list, o)
    BY <1>6, <1>7, <1>8 DEF Lists
  <1>12. \A p \in 1 .. n : \A i \in DOMAIN list'[p] :
             list'[p][i].t \in still => CutAt(more) <= Height(list'[p][i].t)
    BY <1>6, <1>7, <1>10 DEF Scrolled
  <1>13. \A p, q \in 1 .. n : \A i \in DOMAIN list'[p], j \in DOMAIN list'[q] :
             list'[p][i].t = list'[q][j].t /\ list'[p][i].t \in still => p = q /\ i = j
    <2> SUFFICES ASSUME NEW p \in 1 .. n, NEW q \in 1 .. n, NEW i \in DOMAIN list'[p], NEW j \in DOMAIN list'[q],
                        list'[p][i].t = list'[q][j].t, list'[p][i].t \in still
                 PROVE  p = q /\ i = j
      OBVIOUS
    <2>1. i \in DOMAIN list[p] /\ j \in DOMAIN list[q] /\ list[p][i].t = list[q][j].t /\ list[p][i].t \in still
      BY <1>7
    <2> QED
      BY <1>6, <1>10, <2>1 DEF Scrolled
  <1>14. Scrolled(list', more', still', pushed')
    BY <1>2, <1>8, <1>10, <1>11, <1>12, <1>13 DEF Scrolled
  <1>15. ~(Inbox!Threads \subseteq still')
    BY <1>2
  <1>16. more' \in Cursors
    BY <1>2 DEF InboxInv, ListSound
  <1> QED
    BY <1>2, <1>8, <1>9, <1>14, <1>15, <1>16, PagesStand

\* It comes first on the first page and may push the last one off it.
LEMMA PreviewOnTop ==
    ASSUME InboxInv, NEW t \in Inbox!Threads, Inbox!Preview(t), ~Lists(list, t) PROVE InboxInv'
  <1>1. PICK e : e = Inbox!Entry(t)
    OBVIOUS
  <1>2. PICK top : top = list[1]
    OBVIOUS
  <1>3. PICK k : k = IF Len(top) < InboxLimit THEN Len(top) + 1 ELSE InboxLimit
    OBVIOUS
  <1>4. PICK w : w = SubSeq(<<e>> \o top, 1, k)
    OBVIOUS
  <1>5. /\ list # <<>> /\ t \notin still /\ more' = more /\ still' = still
        /\ UNCHANGED <<opened, now, recent, notes, readTo, inside, belong, unreadOnly>>
        /\ list' = [list EXCEPT ![1] = w]
        /\ pushed' = IF Len(top) < InboxLimit THEN pushed ELSE pushed \cup {top[Len(top)].t}
    BY <1>1, <1>2, <1>3, <1>4, InboxShows DEF Inbox!Preview, Inbox!Previewed, Inbox!rows
  <1>6. t \in 1 .. InboxThreads /\ t \in 1 .. opened /\ InboxLimit \in Nat \ {0}
    BY InboxAssumption DEF InboxInv, RowsSound, Inbox!Threads
  <1>7. e \in Entries /\ e.t = t
    BY <1>1, <1>6, EntryTells DEF InboxInv
  <1>8. PICK n \in Nat : n = Len(list)
    BY DEF InboxInv, ListSound
  <1>9. /\ list \in Seq(Seq(Entries)) /\ DOMAIN list = 1 .. n /\ n # 0
        /\ 1 \in 1 .. n /\ top \in Seq(Entries)
    BY <1>2, <1>5, <1>8 DEF InboxInv, ListSound
  <1>10. PICK m \in Nat : m = Len(top)
    BY <1>9
  <1>11. m <= InboxLimit
    BY <1>2, <1>9, <1>10 DEF InboxInv, ListSound
  <1>12. /\ k = (IF m < InboxLimit THEN m + 1 ELSE m) /\ k \in Nat /\ k # 0 /\ k <= InboxLimit
    BY <1>3, <1>6, <1>10, <1>11
  <1>13. /\ w \in Seq(Entries) /\ Len(w) = k /\ DOMAIN w = 1 .. k
         /\ w[1] = e /\ \A i \in 2 .. k : w[i] = top[i - 1]
    <2>1. PICK z : z = <<e>> \o top
      OBVIOUS
    <2>2. z \in Seq(Entries) /\ Len(z) = m + 1 /\ z[1] = e /\ \A i \in 2 .. m + 1 : z[i] = top[i - 1]
      BY <1>7, <1>9, <1>10, <2>1
    <2>3. w = SubSeq(z, 1, k)
      BY <1>4, <2>1
    <2>4. \A i \in 1 .. k : i \in 1 .. m + 1
      BY <1>12
    <2>5. w \in Seq(Entries) /\ Len(w) = k /\ \A i \in 1 .. k : w[i] = z[i]
      BY <1>12, <2>2, <2>3, <2>4
    <2> QED
      BY <1>12, <2>2, <2>4, <2>5
  <1>14. /\ list' \in Seq(Seq(Entries)) /\ DOMAIN list' = 1 .. n /\ list' # <<>>
         /\ list'[1] = w /\ \A p \in 2 .. n : list'[p] = list[p]
    BY <1>5, <1>8, <1>9, <1>13
  <1>15. DOMAIN top = 1 .. m /\ list[1] = top
    BY <1>2, <1>9, <1>10
  <1>16. Scrolled(list, more, still, pushed)
    BY DEF InboxInv, ScrolledOnce
  \* Every entry but the new one was there, in the place before.
  <1>17. PICK back : back = [p \in 1 .. n |-> [i \in DOMAIN list'[p] |-> IF p = 1 THEN i - 1 ELSE i]]
    OBVIOUS
  <1>18. ASSUME NEW p \in 1 .. n, NEW i \in DOMAIN list'[p], list'[p][i].t # t
         PROVE  back[p][i] \in DOMAIN list[p] /\ list'[p][i] = list[p][back[p][i]]
    <2>1. CASE p = 1
      <3>1. i \in 1 .. k /\ i # 1
        BY <1>7, <1>13, <1>14, <1>18, <2>1
      <3>2. i \in 2 .. k /\ i - 1 \in 1 .. m
        BY <1>12, <3>1
      <3>3. back[p][i] = i - 1
        BY <1>17, <1>18, <2>1
      <3> QED
        BY <1>13, <1>14, <1>15, <2>1, <3>2, <3>3
    <2>2. CASE p # 1
      <3>1. p \in 2 .. n
        BY <2>2
      <3>2. back[p][i] = i
        BY <1>17, <1>18, <2>2
      <3> QED
        BY <1>14, <1>18, <3>1, <3>2
    <2> QED
      BY <2>1, <2>2
  <1>19. \A p \in 1 .. n : \A i, j \in DOMAIN list'[p] : back[p][i] = back[p][j] => i = j
    <2> SUFFICES ASSUME NEW p \in 1 .. n, NEW i \in DOMAIN list'[p], NEW j \in DOMAIN list'[p],
                        back[p][i] = back[p][j]
                 PROVE  i = j
      OBVIOUS
    <2>1. CASE p = 1
      <3>1. DOMAIN list'[p] = 1 .. k /\ i \in 1 .. k /\ j \in 1 .. k
        BY <1>13, <1>14, <2>1
      <3>2. back[p][i] = i - 1 /\ back[p][j] = j - 1
        BY <1>17, <2>1
      <3>3. i - 1 = j - 1
        BY <3>2
      <3> QED
        BY <1>12, <3>1, <3>3
    <2>2. CASE p # 1
      BY <1>17, <2>2
    <2> QED
      BY <2>1, <2>2
  <1>20. \A p \in 1 .. n : /\ Len(list'[p]) <= InboxLimit
                           /\ \A i \in DOMAIN list'[p] : list'[p][i].t \in 1 .. opened
    <2> SUFFICES ASSUME NEW p \in 1 .. n
                 PROVE  /\ Len(list'[p]) <= InboxLimit
                        /\ \A i \in DOMAIN list'[p] : list'[p][i].t \in 1 .. opened
      OBVIOUS
    <2>1. Len(list'[p]) <= InboxLimit
      <3>1. CASE p = 1
        BY <1>12, <1>13, <1>14, <3>1
      <3>2. CASE p # 1
        <4>1. list'[p] = list[p] /\ p \in DOMAIN list
          BY <1>9, <1>14, <3>2
        <4> QED
          BY <4>1 DEF InboxInv, ListSound
      <3> QED
        BY <3>1, <3>2
    <2>2. ASSUME NEW i \in DOMAIN list'[p] PROVE list'[p][i].t \in 1 .. opened
      <3>1. CASE list'[p][i].t = t
        BY <1>6, <3>1
      <3>2. CASE list'[p][i].t # t
        BY <1>9, <1>18, <2>2, <3>2 DEF InboxInv, ListSound
      <3> QED
        BY <3>1, <3>2
    <2> QED
      BY <2>1, <2>2
  <1>21. ASSUME NEW o \in still \cap Inbox!Threads, Inbox!Wanted(o), CutAt(more) <= Height(o)
         PROVE  o \in pushed' \/ Lists(list', o)
    <2>1. CASE o \in pushed
      BY <1>5, <2>1
    <2>2. CASE Lists(list, o)
      <3>1. PICK p \in 1 .. n : \E i \in DOMAIN list[p] : list[p][i].t = o
        BY <1>9, <2>2 DEF Lists
      <3>2. PICK i \in DOMAIN list[p] : list[p][i].t = o
        BY <3>1
      <3>3. CASE p # 1
        <4>1. p \in DOMAIN list' /\ list'[p] = list[p]
          BY <1>14, <3>3
        <4> QED
          BY <3>2, <4>1 DEF Lists
      <3>4. CASE p = 1 /\ i + 1 \in 1 .. k
        <4>1. i \in 1 .. m /\ top[i].t = o
          BY <1>15, <3>2, <3>4
        <4>2. i + 1 \in 2 .. k /\ i + 1 - 1 = i
          BY <3>4, <4>1
        <4>3. w[i + 1] = top[i]
          <5>1. PICK j \in 2 .. k : j = i + 1
            BY <4>2
          <5>2. w[j] = top[j - 1] /\ j - 1 = i
            BY <1>13, <4>1, <5>1
          <5> QED
            BY <5>1, <5>2
        <4>4. 1 \in DOMAIN list' /\ i + 1 \in DOMAIN list'[1] /\ list'[1][i + 1].t = o
          BY <1>9, <1>13, <1>14, <3>4, <4>1, <4>3
        <4> QED
          BY <4>4 DEF Lists
      <3>5. CASE p = 1 /\ i + 1 \notin 1 .. k
        <4>1. i \in 1 .. m /\ top[i].t = o
          BY <1>15, <3>2, <3>5
        <4>2. i = m /\ ~(m < InboxLimit)
          BY <1>12, <3>5, <4>1
        <4> QED
          BY <1>5, <1>10, <4>1, <4>2
      <3> QED
        BY <3>3, <3>4, <3>5
    <2> QED
      BY <1>16, <1>21, <2>1, <2>2 DEF Scrolled
  <1>22. ASSUME NEW p \in 1 .. n, NEW i \in DOMAIN list'[p], list'[p][i].t \in still
         PROVE  CutAt(more) <= Height(list'[p][i].t)
    <2>1. list'[p][i].t # t
      BY <1>5, <1>22
    <2>2. PICK h \in DOMAIN list[p] : list'[p][i] = list[p][h]
      BY <1>18, <2>1
    <2>3. p \in DOMAIN list /\ list[p][h].t \in still
      BY <1>9, <1>22, <2>2
    <2>4. CutAt(more) <= Height(list[p][h].t)
      BY <1>16, <2>3 DEF Scrolled
    <2> QED
      BY <2>2, <2>4
  <1>23. ASSUME NEW p \in 1 .. n, NEW q \in 1 .. n, NEW i \in DOMAIN list'[p], NEW j \in DOMAIN list'[q],
                list'[p][i].t = list'[q][j].t, list'[p][i].t \in still
         PROVE  p = q /\ i = j
    <2>1. list'[p][i].t # t /\ list'[q][j].t # t
      BY <1>5, <1>23
    <2>2. /\ back[p][i] \in DOMAIN list[p] /\ list'[p][i] = list[p][back[p][i]]
          /\ back[q][j] \in DOMAIN list[q] /\ list'[q][j] = list[q][back[q][j]]
      BY <1>18, <2>1
    <2>3. p = q /\ back[p][i] = back[q][j]
      <3>1. PICK f \in DOMAIN list[p] : f = back[p][i] /\ list'[p][i] = list[p][f]
        BY <2>2
      <3>2. PICK g \in DOMAIN list[q] : g = back[q][j] /\ list'[q][j] = list[q][g]
        BY <2>2
      <3>3. /\ p \in DOMAIN list /\ q \in DOMAIN list
            /\ list[p][f].t = list[q][g].t /\ list[p][f].t \in still
        BY <1>9, <1>23, <3>1, <3>2
      <3>4. p = q /\ f = g
        BY <1>16, <3>3 DEF Scrolled
      <3> QED
        BY <3>1, <3>2, <3>4
    <2> QED
      BY <1>19, <2>3
  <1>24. Scrolled(list', more', still', pushed')
    <2>1. \A o \in still' \cap Inbox!Threads :
             Inbox!Wanted(o) /\ CutAt(more') <= Height(o) => o \in pushed' \/ Lists(list', o)
      BY <1>5, <1>21
    <2>2. \A p \in DOMAIN list' : \A i \in DOMAIN list'[p] :
             list'[p][i].t \in still' => CutAt(more') <= Height(list'[p][i].t)
      BY <1>5, <1>14, <1>22
    <2>3. \A p, q \in DOMAIN list' : \A i \in DOMAIN list'[p], j \in DOMAIN list'[q] :
             list'[p][i].t = list'[q][j].t /\ list'[p][i].t \in still' => p = q /\ i = j
      BY <1>5, <1>14, <1>23
    <2> QED
      BY <2>1, <2>2, <2>3 DEF Scrolled
  <1>25. ~(Inbox!Threads \subseteq still')
    BY <1>5
  <1>26. more' \in Cursors
    BY <1>5 DEF InboxInv, ListSound
  <1> QED
    BY <1>5, <1>14, <1>20, <1>24, <1>25, <1>26, PagesStand

LEMMA StepKeepsInbox == InboxInv /\ (Inbox!Next \/ UNCHANGED Inbox!vars) => InboxInv'
  <1> SUFFICES ASSUME InboxInv, Inbox!Next \/ UNCHANGED Inbox!vars PROVE InboxInv'
    OBVIOUS
  <1>1. CASE UNCHANGED Inbox!vars
    <2>1. UNCHANGED <<opened, now, recent, notes, readTo, inside, belong, list, more, unreadOnly, totals, still, pushed>>
      BY <1>1 DEF Inbox!vars, Inbox!rows, Inbox!page
    <2>2. Notes' = Notes /\ Cursors' = Cursors /\ Inbox!Threads' = Inbox!Threads
      BY <2>1 DEF Notes, Cursors, Inbox!Threads, Inbox!None
    <2>3. RowsSound' /\ ListSound'
      BY <2>1, <2>2 DEF InboxInv, RowsSound, ListSound
    <2>4. \A t : Inbox!Wanted(t)' <=> Inbox!Wanted(t)
      BY <2>1 DEF Inbox!Wanted, Inbox!Visible, Inbox!IsUnread
    <2>5. Inbox!Summary' = Inbox!Summary /\ heights' = heights
      BY <2>1, <2>2 DEF Inbox!Summary, Inbox!Visible, Inbox!IsUnread, heights, Height, HeightIn
    <2>6. ScrolledOnce'
      BY <2>1, <2>2, <2>4 DEF InboxInv, ScrolledOnce, Scrolled, Height, HeightIn, CutAt, Inbox!None, Lists,
         Inbox!Wanted, Inbox!Visible, Inbox!IsUnread
    <2>7. Unmoved'
      BY <2>1, <2>2, <2>4, <2>5 DEF InboxInv, Unmoved, AsListed, Inbox!Wanted, Inbox!Visible, Inbox!IsUnread
    <2> QED
      BY <2>3, <2>6, <2>7 DEF InboxInv
  <1>2. CASE Inbox!Next
    BY <1>2, OpenKeepsInbox, FirstPageKeepsInbox, NextPageKeepsInbox, PostKeepsInbox, RemoveKeepsInbox,
       PreviewInPlace, PreviewOnTop, DeleteKeepsInbox, ReadKeepsInbox DEF Inbox!Next
  <1> QED
    BY <1>1, <1>2


\* Each thread that the list marks unread takes one place in it.
LEMMA UnreadPlaces ==
    ASSUME InboxInv, Unmoved, list # <<>>, more = Inbox!None, Inbox!Threads \subseteq still,
           NEW Q, Q = {q \in (DOMAIN list) \X (1 .. InboxLimit) :
                          q[2] \in DOMAIN list[q[1]] /\ list[q[1]][q[2]].unread},
           NEW U, U = {t \in Inbox!Threads : Inbox!Visible(t) /\ Inbox!IsUnread(t)}
    PROVE  Cardinality(Q) = Cardinality(U)
  <1>1. AsListed(list, pushed, totals) /\ Scrolled(list, more, still, pushed)
    BY DEF InboxInv, Unmoved, ScrolledOnce
  <1>2. PICK f : f = [q \in Q |-> list[q[1]][q[2]].t]
    OBVIOUS
  <1>3. \A q \in Q : /\ q[1] \in DOMAIN list /\ q[2] \in DOMAIN list[q[1]]
                     /\ list[q[1]][q[2]].unread /\ q = <<q[1], q[2]>> /\ f[q] = list[q[1]][q[2]].t
    BY <1>2
  <1>4. ASSUME NEW q \in Q PROVE f[q] \in U
    <2>1. /\ Inbox!Wanted(list[q[1]][q[2]].t)
          /\ list[q[1]][q[2]].unread <=> Inbox!IsUnread(list[q[1]][q[2]].t)
      BY <1>1, <1>3 DEF AsListed
    <2>2. list[q[1]][q[2]].t \in 1 .. opened
      BY <1>3 DEF InboxInv, ListSound
    <2> QED
      BY <1>3, <2>1, <2>2 DEF Inbox!Wanted, Inbox!Threads
  <1>5. ASSUME NEW p \in Q, NEW q \in Q, f[p] = f[q] PROVE p = q
    <2>1. list[p[1]][p[2]].t = list[q[1]][q[2]].t /\ list[p[1]][p[2]].t \in still
      BY <1>3, <1>4, <1>5 DEF Inbox!Threads
    <2>2. p[1] = q[1] /\ p[2] = q[2]
      BY <1>1, <1>3, <2>1 DEF Scrolled
    <2> QED
      BY <1>3, <2>2
  <1>6. ASSUME NEW t \in U PROVE \E q \in Q : f[q] = t
    <2>1. t \in Inbox!Threads /\ t \in still /\ Inbox!Wanted(t) /\ Inbox!IsUnread(t) /\ t \in 1 .. InboxThreads
      BY InboxAssumption DEF Inbox!Wanted, Inbox!Threads, InboxInv, RowsSound
    <2>2. CutAt(more) <= Height(t)
      BY <2>1, HeightsOrder DEF CutAt, InboxInv
    <2>3. t \in pushed \/ Lists(list, t)
      BY <1>1, <2>1, <2>2 DEF Scrolled
    <2>4. PICK p \in DOMAIN list : \E i \in DOMAIN list[p] : list[p][i].t = t
      BY <1>1, <2>3 DEF AsListed, Lists
    <2>5. PICK i \in DOMAIN list[p] : list[p][i].t = t
      BY <2>4
    <2>6. list[p][i].unread
      BY <1>1, <2>1, <2>5 DEF AsListed
    <2>7. i \in 1 .. InboxLimit
      <3>1. PICK w \in Seq(Entries) : w = list[p]
        BY DEF InboxInv, ListSound
      <3>2. Len(w) <= InboxLimit /\ Len(w) \in Nat /\ i \in 1 .. Len(w)
        BY <3>1 DEF InboxInv, ListSound
      <3> QED
        BY <3>2, InboxAssumption
    <2>8. PICK q : q = <<p, i>>
      OBVIOUS
    <2>9. q \in Q /\ q[1] = p /\ q[2] = i
      BY <2>6, <2>7, <2>8
    <2> QED
      BY <1>3, <2>5, <2>9
  <1>7. PICK g : g = [t \in U |-> CHOOSE q \in Q : f[q] = t]
    OBVIOUS
  <1>8. \A t \in U : g[t] \in Q /\ f[g[t]] = t
    BY <1>6, <1>7
  <1>9. \A q \in Q : f[q] \in U /\ g[f[q]] = q
    BY <1>4, <1>5, <1>8
  <1>10. g \in Bijection(U, Q)
    <2>1. g \in [U -> Q]
      BY <1>7, <1>8
    <2>2. \A s, t \in U : g[s] = g[t] => s = t
      BY <1>8
    <2>3. \A q \in Q : \E t \in U : g[t] = q
      BY <1>9
    <2>4. g \in Injection(U, Q) /\ g \in Surjection(U, Q)
      BY <2>1, <2>2, <2>3 DEF Injection, IsInjective, Surjection
    <2> QED
      BY <2>4 DEF Bijection
  <1>11. IsFiniteSet(U)
    BY HeightsRanked DEF InboxInv
  <1>12. ExistsBijection(U, Q)
    BY <1>10 DEF ExistsBijection
  <1> QED
    BY <1>11, <1>12, FS_Bijection

LEMMA InboxFollows == InboxInv => Inbox!ListWalkedOnce /\ Inbox!CountsMatchList
  <1> SUFFICES ASSUME InboxInv PROVE Inbox!ListWalkedOnce /\ Inbox!CountsMatchList
    OBVIOUS
  <1>1. Scrolled(list, more, still, pushed)
    BY DEF InboxInv, ScrolledOnce
  <1>2. Inbox!Threads \subseteq 1 .. InboxThreads
    BY InboxAssumption DEF InboxInv, RowsSound, Inbox!Threads
  <1>3. Inbox!ListWalkedOnce
    <2>1. ASSUME NEW t \in still \cap Inbox!Threads, Inbox!Wanted(t),
                 more = Inbox!None \/ Inbox!Behind(more, Inbox!Place(t))
          PROVE  t \in Inbox!Shown \cup pushed
      <3>1. Height(t) \in Nat /\ CutAt(more) \in Nat
        BY <1>2, HeightsOrder, CursorCuts DEF InboxInv, ListSound
      <3>2. CutAt(more) <= Height(t)
        <4>1. CASE more = Inbox!None
          BY <3>1, <4>1 DEF CutAt
        <4>2. CASE more # Inbox!None
          <5>1. RowsSound /\ t \in 1 .. InboxThreads /\ more \in Cursors
            BY <1>2, <2>1 DEF InboxInv, ListSound
          <5>2. CutAt(more) < Height(t)
            BY <2>1, <4>2, <5>1, CursorCuts
          <5> QED
            BY <3>1, <5>2
        <4> QED
          BY <4>1, <4>2
      <3> QED
        BY <1>1, <2>1, <3>2, InboxShows DEF Scrolled
    <2> QED
      BY <1>1, <2>1 DEF Scrolled, Inbox!ListWalkedOnce
  <1>4. ASSUME list # <<>>, more = Inbox!None, Inbox!Threads \subseteq still
        PROVE  /\ Inbox!Cardinality(Inbox!Shown) = IF unreadOnly THEN totals.unread ELSE totals.all
               /\ totals.unread = Inbox!Cardinality({q \in (DOMAIN list) \X (1 .. InboxLimit) :
                                      q[2] \in DOMAIN list[q[1]] /\ list[q[1]][q[2]].unread})
    <2>1. Unmoved /\ AsListed(list, pushed, totals)
      BY <1>4 DEF InboxInv, Unmoved
    <2>2. PICK A : A = {t \in Inbox!Threads : Inbox!Visible(t)}
      OBVIOUS
    <2>3. PICK U : U = {t \in Inbox!Threads : Inbox!Visible(t) /\ Inbox!IsUnread(t)}
      OBVIOUS
    <2>4. totals = [all |-> Cardinality(A), unread |-> Cardinality(U)]
      BY <2>1, <2>2, <2>3, InboxCounts DEF AsListed, Inbox!Summary
    <2>5. ASSUME NEW t PROVE t \in Inbox!Shown <=> t \in Inbox!Threads /\ Inbox!Wanted(t)
      <3>1. ASSUME t \in Inbox!Shown PROVE t \in Inbox!Threads /\ Inbox!Wanted(t)
        <4>1. PICK p \in DOMAIN list : \E i \in DOMAIN list[p] : list[p][i].t = t
          BY <3>1, InboxShows DEF Lists
        <4> QED
          BY <2>1, <4>1 DEF AsListed, InboxInv, ListSound, Inbox!Threads
      <3>2. ASSUME t \in Inbox!Threads, Inbox!Wanted(t) PROVE t \in Inbox!Shown
        <4>1. CutAt(more) <= Height(t)
          BY <1>2, <1>4, <3>2, HeightsOrder DEF CutAt, InboxInv
        <4>2. t \in pushed \/ Lists(list, t)
          BY <1>1, <1>4, <3>2, <4>1 DEF Scrolled
        <4> QED
          BY <2>1, <4>2, InboxShows DEF AsListed
      <3> QED
        BY <3>1, <3>2
    <2>6. Inbox!Shown = IF unreadOnly THEN U ELSE A
      BY <2>2, <2>3, <2>5 DEF Inbox!Wanted
    <2>7. PICK Q : Q = {q \in (DOMAIN list) \X (1 .. InboxLimit) :
                           q[2] \in DOMAIN list[q[1]] /\ list[q[1]][q[2]].unread}
      OBVIOUS
    <2>8. Cardinality(Q) = Cardinality(U)
      BY <1>4, <2>1, <2>3, <2>7, UnreadPlaces
    <2> QED
      BY <2>4, <2>6, <2>7, <2>8, InboxCounts
  <1>5. Inbox!CountsMatchList
    BY <1>4 DEF Inbox!CountsMatchList
  <1> QED
    BY <1>3, <1>5

\* Scrolling through the list of threads while they change and previews arrive
\* shows nothing unchanged twice and misses nothing, and counts over a list that
\* was scrolled to its end are those of the list (messages.service.ts,
\* messageCache.ts).
THEOREM InboxSound == Spec => []InboxExact
  <1> DEFINE Inv == focus = "inbox" => InboxInv
  <1>1. Init => Inv
    BY InitInbox DEF Init
  <1>2. Inv /\ [Next]_vars => Inv'
    <2> SUFFICES ASSUME Inv, [Next]_vars, focus' = "inbox" PROVE InboxInv'
      OBVIOUS
    <2>1. focus = "inbox"
      BY DEF Next, vars
    <2>2. Inbox!Next \/ UNCHANGED Inbox!vars
      BY <2>1 DEF Next, vars, from9, from12, from15, Inbox!vars, Inbox!rows, Inbox!page
    <2> QED
      BY <2>1, <2>2, StepKeepsInbox
  <1>3. Inv => InboxExact
    BY InboxFollows DEF InboxExact
  <1> QED
    BY <1>1, <1>2, <1>3, PTL DEF Spec

(* The window of a thread.                                                 *)

LEMMA WindowCounts == \A S : Window!Cardinality(S) = Cardinality(S)
  BY DEF Cardinality, Window!Cardinality, IsFiniteSet, Window!IsFiniteSet

LEMMA NthTaken ==
    ASSUME NEW n \in Nat, NEW K \in SUBSET (1 .. n)
    PROVE  /\ Cardinality(K) \in Nat
           /\ \A k \in 1 .. Cardinality(K) : Window!Nth(K, k) \in K
           /\ \A j, k \in 1 .. Cardinality(K) : j < k => Window!Nth(K, j) < Window!Nth(K, k)
           /\ \A i \in K : \E k \in 1 .. Cardinality(K) : Window!Nth(K, k) = i
  <1>1. IsFiniteSet(K) /\ Cardinality(K) \in Nat
    <2>1. IsFiniteSet(1 .. n)
      BY FS_Interval
    <2> QED
      BY <2>1, FS_Subset, FS_CardinalityType
  <1>2. PICK h : h = [i \in K |-> n - i]
    OBVIOUS
  <1>3. Ranked(h, K)
    BY <1>1, <1>2 DEF Ranked
  <1>4. ASSUME NEW i \in K PROVE Window!Under(K, i) = Rank(h, K, i)
    <2>1. \A o \in K : o \in Int /\ h[o] = n - o
      BY <1>2
    <2>2. \A o \in K : (o < i) <=> (h[o] > h[i])
      BY <2>1
    <2>3. {o \in K : o < i} = Above(h, K, i)
      BY <2>2, Zenon DEF Above
    <2> QED
      BY <2>3, WindowCounts, Zenon DEF Rank, Window!Under
  <1>5. \A i \in K : Rank(h, K, i) \in Nat /\ Rank(h, K, i) < Cardinality(K)
    BY <1>3, AboveFinite
  <1>6. ASSUME NEW k \in 1 .. Cardinality(K)
        PROVE  Window!Nth(K, k) \in K /\ Rank(h, K, Window!Nth(K, k)) = k - 1
    <2>1. k - 1 \in Nat /\ k - 1 < Cardinality(K)
      BY <1>1
    <2>2. \E i \in K : Rank(h, K, i) = k - 1
      BY <1>3, <2>1, RanksTaken
    <2>3. \E i \in K : Window!Under(K, i) = k - 1
      BY <1>4, <2>2, Zenon
    <2>4. Window!Nth(K, k) \in K /\ Window!Under(K, Window!Nth(K, k)) = k - 1
      BY <2>3, Zenon DEF Window!Nth
    <2> QED
      BY <1>4, <2>4, Zenon
  <1>7. \A i, j \in K : (Rank(h, K, i) < Rank(h, K, j)) <=> i < j
    <2> SUFFICES ASSUME NEW i \in K, NEW j \in K PROVE (Rank(h, K, i) < Rank(h, K, j)) <=> i < j
      OBVIOUS
    <2>1. (h[i] > h[j]) <=> (Rank(h, K, i) < Rank(h, K, j))
      BY <1>3, RankFollowsPlace
    <2> QED
      BY <1>2, <2>1
  <1>8. ASSUME NEW j \in 1 .. Cardinality(K), NEW k \in 1 .. Cardinality(K), j < k
        PROVE  Window!Nth(K, j) < Window!Nth(K, k)
    <2>1. PICK e, f : e = Window!Nth(K, j) /\ f = Window!Nth(K, k)
      OBVIOUS
    <2>2. e \in K /\ f \in K /\ Rank(h, K, e) = j - 1 /\ Rank(h, K, f) = k - 1
      BY <1>6, <2>1
    <2>3. Rank(h, K, e) < Rank(h, K, f)
      BY <1>1, <1>8, <2>2
    <2> QED
      BY <1>7, <2>1, <2>2, <2>3
  <1>9. ASSUME NEW i \in K PROVE \E k \in 1 .. Cardinality(K) : Window!Nth(K, k) = i
    <2>1. PICK k : k = Rank(h, K, i) + 1
      OBVIOUS
    <2>2. k \in 1 .. Cardinality(K)
      BY <1>1, <1>5, <2>1
    <2>3. Window!Nth(K, k) \in K /\ Rank(h, K, Window!Nth(K, k)) = Rank(h, K, i)
      BY <1>5, <1>6, <2>1, <2>2
    <2>4. PICK m : m = Window!Nth(K, k)
      OBVIOUS
    <2>5. m \in K /\ Rank(h, K, m) = Rank(h, K, i)
      BY <2>3, <2>4
    <2>6. ~(Rank(h, K, m) < Rank(h, K, i)) /\ ~(Rank(h, K, i) < Rank(h, K, m))
      BY <1>5, <2>5
    <2>7. ~(m < i) /\ ~(i < m) /\ m \in 1 .. n /\ i \in 1 .. n
      BY <1>7, <2>5, <2>6
    <2> QED
      BY <2>2, <2>4, <2>7
  <1> QED
    BY <1>1, <1>6, <1>8, <1>9

LEMMA BlockSize ==
    ASSUME NEW a \in Nat, NEW b \in Int, a <= b + 1
    PROVE  Cardinality(a .. b) = b - a + 1
  <1>1. Cardinality(a .. b) = IF a > b THEN 0 ELSE b - a + 1
    BY FS_Interval
  <1> QED
    BY <1>1

LEMMA NthOfBlock ==
    ASSUME NEW a \in Nat, NEW b \in Int, a <= b + 1, NEW k \in 1 .. (b - a + 1)
    PROVE  Window!Nth(a .. b, k) = a + k - 1
  <1>1. ASSUME NEW m \in a .. b PROVE Window!Under(a .. b, m) = m - a
    <2>1. {o \in a .. b : o < m} = a .. (m - 1)
      OBVIOUS
    <2>2. Cardinality(a .. (m - 1)) = (m - 1) - a + 1
      <3>1. a <= (m - 1) + 1 /\ m - 1 \in Int
        OBVIOUS
      <3> QED
        BY <3>1, BlockSize
    <2>3. (m - 1) - a + 1 = m - a
      OBVIOUS
    <2> QED
      BY <2>1, <2>2, <2>3, WindowCounts, Zenon DEF Window!Under, Window!Over
  <1>2. a + k - 1 \in a .. b
    OBVIOUS
  <1>3. PICK e : e = a + k - 1
    OBVIOUS
  <1>4. ASSUME NEW m \in a .. b PROVE (Window!Under(a .. b, m) = k - 1) <=> m = e
    <2>1. (m - a = k - 1) <=> m = e
      BY <1>3
    <2> QED
      BY <1>1, <2>1, Zenon
  <1>5. e \in a .. b
    BY <1>2, <1>3
  <1> QED
    BY <1>3, <1>4, <1>5, Zenon DEF Window!Nth

LEMMA TopOfBlock ==
    ASSUME NEW a \in Nat, NEW b \in Int, a <= b + 1, NEW n \in Nat
    PROVE  Window!Top(a .. b, n) = (IF b - a + 1 <= n THEN a ELSE b - n + 1) .. b
  <1>1. ASSUME NEW m \in a .. b PROVE Window!Over(a .. b, m) = b - m
    <2>1. {o \in a .. b : o > m} = (m + 1) .. b
      OBVIOUS
    <2>2. Cardinality((m + 1) .. b) = b - (m + 1) + 1
      <3>1. m + 1 <= b + 1 /\ m + 1 \in Nat
        OBVIOUS
      <3> QED
        BY <3>1, BlockSize
    <2>3. b - (m + 1) + 1 = b - m
      OBVIOUS
    <2> QED
      BY <2>1, <2>2, <2>3, WindowCounts, Zenon DEF Window!Under, Window!Over
  <1>2. Window!Top(a .. b, n) = {m \in a .. b : b - m < n}
    BY <1>1, Zenon DEF Window!Top
  <1>3. {m \in a .. b : b - m < n} = (IF b - a + 1 <= n THEN a ELSE b - n + 1) .. b
    OBVIOUS
  <1> QED
    BY <1>2, <1>3, Zenon

LEMMA BottomOfBlock ==
    ASSUME NEW a \in Nat, NEW b \in Int, a <= b + 1, NEW n \in Nat
    PROVE  Window!Bottom(a .. b, n) = a .. (IF b - a + 1 <= n THEN b ELSE a + n - 1)
  <1>1. ASSUME NEW m \in a .. b PROVE Window!Under(a .. b, m) = m - a
    <2>1. {o \in a .. b : o < m} = a .. (m - 1)
      OBVIOUS
    <2>2. Cardinality(a .. (m - 1)) = (m - 1) - a + 1
      <3>1. a <= (m - 1) + 1 /\ m - 1 \in Int
        OBVIOUS
      <3> QED
        BY <3>1, BlockSize
    <2>3. (m - 1) - a + 1 = m - a
      OBVIOUS
    <2> QED
      BY <2>1, <2>2, <2>3, WindowCounts, Zenon DEF Window!Under, Window!Over
  <1>2. Window!Bottom(a .. b, n) = {m \in a .. b : m - a < n}
    BY <1>1, Zenon DEF Window!Bottom
  <1>3. {m \in a .. b : m - a < n} = a .. (IF b - a + 1 <= n THEN b ELSE a + n - 1)
    OBVIOUS
  <1> QED
    BY <1>2, <1>3, Zenon

total == x1
ver   == x2
mine  == x3
made  == x4
pages == x6
view  == x7
sending == x8
bus   == x10
replies == x11
load  == x12
odd   == x14
USE DEF total, ver, mine, made, pages, view, sending, bus, replies, load, odd

Block(a, b) == [i \in 1 .. (b - a + 1) |-> [m |-> a + i - 1, v |-> ver[a + i - 1]]]
Foot(c)     == IF c > WindowSize THEN c - WindowSize ELSE 1

LEMMA WindowNumbers ==
    /\ WindowOld \in Nat /\ WindowMessages \in Nat /\ WindowAttempts \in Nat
    /\ WindowSize \in Nat /\ WindowSize > 0 /\ WindowOld <= WindowMessages
    /\ \A m \in WindowFound : m \in 1 .. WindowOld
  BY WindowAssumption DEF Window!Wellformed

LEMMA SortedBlock ==
    ASSUME NEW a \in Nat, NEW b \in Int, a <= b + 1
    PROVE  Window!Sorted(a .. b) = Block(a, b)
  <1>1. Window!Cardinality(a .. b) = b - a + 1
    BY BlockSize, WindowCounts
  <1>2. \A k \in 1 .. (b - a + 1) : Window!Nth(a .. b, k) = a + k - 1
    BY NthOfBlock
  <1> QED
    BY <1>1, <1>2, Zenon DEF Window!Sorted, Block

LEMMA LeastOfBlock ==
    ASSUME NEW a \in Nat, NEW b \in Int, a <= b
    PROVE  Window!Least(a .. b) = a
  <1>1. a \in a .. b /\ \A o \in a .. b : a <= o
    OBVIOUS
  <1>2. \A m \in a .. b : (\A o \in a .. b : m <= o) => m = a
    BY <1>1
  <1> QED
    BY <1>1, <1>2, Zenon DEF Window!Least

\* A page is the block of messages below its cursor.
LEMMA BeforeIs ==
    ASSUME total \in Nat, NEW c \in 1 .. total + 1
    PROVE  Window!Before(c) = [items |-> Block(Foot(c), c - 1),
                               older |-> IF Foot(c) > 1 THEN Foot(c) ELSE 0]
  <1>0. WindowSize \in Nat /\ WindowSize > 0 /\ c \in Nat /\ c > 0 /\ c - 1 \in Int
    BY WindowNumbers
  <1>1. Window!Earlier(c) = 1 .. c - 1
    BY <1>0 DEF Window!Earlier
  <1>2. PICK n, f : n = WindowSize + 1 /\ f = IF c - 1 <= n THEN 1 ELSE c - n
    OBVIOUS
  <1>3. n \in Nat /\ f \in Nat /\ f <= c /\ 1 <= f
    BY <1>0, <1>2
  <1>4. Window!Top(Window!Earlier(c), n) = f .. c - 1
    <2>1. Window!Top(1 .. c - 1, n) = (IF (c - 1) - 1 + 1 <= n THEN 1 ELSE (c - 1) - n + 1) .. c - 1
      BY <1>0, <1>3, TopOfBlock
    <2>2. (IF (c - 1) - 1 + 1 <= n THEN 1 ELSE (c - 1) - n + 1) = f
      BY <1>0, <1>2, <1>3
    <2> QED
      BY <1>1, <2>1, <2>2, Zenon
  <1>5. Window!Top(f .. c - 1, WindowSize) = Foot(c) .. c - 1
    <2>1. Window!Top(f .. c - 1, WindowSize)
            = (IF (c - 1) - f + 1 <= WindowSize THEN f ELSE (c - 1) - WindowSize + 1) .. c - 1
      BY <1>0, <1>3, TopOfBlock
    <2>2. (IF (c - 1) - f + 1 <= WindowSize THEN f ELSE (c - 1) - WindowSize + 1) = Foot(c)
      BY <1>0, <1>2, <1>3 DEF Foot
    <2> QED
      BY <2>1, <2>2, Zenon
  <1>6. Foot(c) \in Nat /\ 1 <= Foot(c) /\ Foot(c) <= c
    BY <1>0 DEF Foot
  <1>7. Window!Sorted(Foot(c) .. c - 1) = Block(Foot(c), c - 1)
    BY <1>0, <1>6, SortedBlock
  <1>8. Window!More(f .. c - 1, WindowSize) <=> Foot(c) > 1
    <2>1. Cardinality(f .. c - 1) = (c - 1) - f + 1
      BY <1>0, <1>3, BlockSize
    <2> QED
      BY <1>0, <1>2, <1>3, <2>1, WindowCounts DEF Window!More, Foot
  <1>9. Foot(c) > 1 => Window!Least(Foot(c) .. c - 1) = Foot(c)
    <2>1. Foot(c) > 1 => Foot(c) <= c - 1
      BY <1>0 DEF Foot
    <2> QED
      BY <1>0, <1>6, <2>1, LeastOfBlock
  <1>10. Window!Top(Window!Earlier(c), WindowSize + 1) = f .. c - 1
    BY <1>2, <1>4
  <1> QED
    BY <1>5, <1>7, <1>8, <1>9, <1>10, Zenon DEF Window!Before

\* The page around a message is a block too.
LEMMA AroundIs ==
    ASSUME total \in Nat, NEW c \in 1 .. total
    PROVE  \E a \in 1 .. c, b \in c .. total :
              Window!Around(c) = [items |-> Block(a, b), older |-> IF a > 1 THEN a ELSE 0]
  <1>0. WindowSize \in Nat /\ WindowSize > 0 /\ c \in Nat /\ c > 0
    BY WindowNumbers
  <1>1. PICK n : n = (WindowSize - 1) \div 2
    OBVIOUS
  <1>2. n \in Nat /\ n <= WindowSize - 1
    BY <1>0, <1>1
  <1>3. PICK f : f = IF c - 1 <= n + 1 THEN 1 ELSE c - (n + 1)
    OBVIOUS
  <1>4. f \in Nat /\ 1 <= f /\ f <= c
    BY <1>0, <1>2, <1>3
  <1>5. Window!Top(Window!Earlier(c), n + 1) = f .. c - 1
    <2>1. Window!Earlier(c) = 1 .. c - 1
      BY <1>0 DEF Window!Earlier
    <2>2. n + 1 \in Nat /\ c - 1 \in Int /\ 1 <= (c - 1) + 1
      BY <1>0, <1>2
    <2>3. Window!Top(1 .. c - 1, n + 1) = (IF (c - 1) - 1 + 1 <= n + 1 THEN 1 ELSE (c - 1) - (n + 1) + 1) .. c - 1
      BY <2>2, TopOfBlock
    <2>4. (IF (c - 1) - 1 + 1 <= n + 1 THEN 1 ELSE (c - 1) - (n + 1) + 1) = f
      BY <1>0, <1>2, <1>3
    <2> QED
      BY <2>1, <2>3, <2>4, Zenon
  <1>6. PICK a : a = IF c - f <= n THEN f ELSE c - n
    OBVIOUS
  <1>7. a \in 1 .. c
    BY <1>0, <1>2, <1>3, <1>4, <1>6
  <1>8. Window!Top(f .. c - 1, n) = a .. c - 1
    <2>1. c - 1 \in Int /\ f <= (c - 1) + 1
      BY <1>0, <1>4
    <2>2. Window!Top(f .. c - 1, n) = (IF (c - 1) - f + 1 <= n THEN f ELSE (c - 1) - n + 1) .. c - 1
      BY <1>2, <1>4, <2>1, TopOfBlock
    <2>3. (IF (c - 1) - f + 1 <= n THEN f ELSE (c - 1) - n + 1) = a
      BY <1>0, <1>2, <1>4, <1>6
    <2> QED
      BY <2>2, <2>3, Zenon
  <1>9. PICK k : k = WindowSize - 1 - n
    OBVIOUS
  <1>10. PICK b : b = IF total - c <= k THEN total ELSE c + k
    OBVIOUS
  <1>11. k \in Nat /\ b \in c .. total
    BY <1>0, <1>2, <1>9, <1>10
  <1>12. Window!Bottom(Window!Later(c), k) = (c + 1) .. b
    <2>1. Window!Later(c) = (c + 1) .. total
      BY <1>0 DEF Window!Later
    <2>2. c + 1 \in Nat /\ total \in Int /\ c + 1 <= total + 1
      BY <1>0
    <2>3. Window!Bottom((c + 1) .. total, k)
            = (c + 1) .. (IF total - (c + 1) + 1 <= k THEN total ELSE (c + 1) + k - 1)
      BY <1>11, <2>2, BottomOfBlock
    <2>4. (IF total - (c + 1) + 1 <= k THEN total ELSE (c + 1) + k - 1) = b
      BY <1>0, <1>10, <1>11
    <2> QED
      BY <2>1, <2>3, <2>4, Zenon
  <1>13. (a .. c - 1) \cup {c} \cup ((c + 1) .. b) = a .. b
    BY <1>0, <1>7, <1>11
  <1>14. a \in Nat /\ b \in Int /\ a <= b
    BY <1>7, <1>11
  <1>15. Window!Sorted(a .. b) = Block(a, b) /\ Window!Least(a .. b) = a
    BY <1>14, SortedBlock, LeastOfBlock
  <1>16. Window!More(f .. c - 1, n) <=> a > 1
    <2>1. Cardinality(f .. c - 1) = (c - 1) - f + 1
      <3>1. c - 1 \in Int /\ f <= (c - 1) + 1
        BY <1>0, <1>4
      <3> QED
        BY <1>4, <3>1, BlockSize
    <2> QED
      BY <1>0, <1>2, <1>3, <1>4, <1>6, <2>1, WindowCounts DEF Window!More
  <1>17. Window!Around(c) = [items |-> Block(a, b), older |-> IF a > 1 THEN a ELSE 0]
    BY <1>1, <1>5, <1>8, <1>9, <1>12, <1>13, <1>15, <1>16, Zenon DEF Window!Around
  <1> QED
    BY <1>7, <1>11, <1>17

Copying          == {-a : a \in 1 .. WindowAttempts}
EntrySet(c, V)   == {e \in [m : Int, v : Nat] : (e.m \in 1 .. c /\ e.v \in 1 .. V[e.m]) \/ e.m \in Copying}
PageSet(c, V)    == [items : Seq(EntrySet(c, V)), older : 0 .. c]
Fits(ps, c, V)   == ps \in Seq(PageSet(c, V)) /\ Len(ps) > 0

Real(ps) == {e.m : e \in {f \in Window!Entries(ps) : f.m > 0}}

\* What is shown is a piece of the thread, whatever copies lie between.
InPlace(ps) ==
    \A p, q \in DOMAIN ps : \A i \in DOMAIN ps[p].items, j \in DOMAIN ps[q].items :
        (p > q \/ (p = q /\ i < j)) /\ ps[p].items[i].m > 0 /\ ps[q].items[j].m > 0
            => ps[p].items[i].m < ps[q].items[j].m
Unbroken(ps) == \A a, b \in Real(ps) : \A m \in a .. b : m \in Real(ps)
Opens(ps, o) ==
    IF o = 0 THEN Real(ps) = {} \/ 1 \in Real(ps)
    ELSE o > 1 /\ o \in Real(ps) /\ \A m \in Real(ps) : o <= m
Topped(ps) == Real(ps) # {} => \E i \in DOMAIN ps[1].items : ps[1].items[i].m > 0
Piece(ps)  == InPlace(ps) /\ Unbroken(ps) /\ Opens(ps, ps[Len(ps)].older) /\ Topped(ps)

LEMMA EntriesOf ==
    ASSUME NEW ps
    PROVE  \A e : e \in Window!Entries(ps) <=>
              \E p \in DOMAIN ps : \E i \in DOMAIN ps[p].items : e = ps[p].items[i]
  BY DEF Window!Entries

LEMMA RealOf ==
    ASSUME NEW ps
    PROVE  \A m : m \in Real(ps) <=>
              \E p \in DOMAIN ps : \E i \in DOMAIN ps[p].items : m = ps[p].items[i].m /\ ps[p].items[i].m > 0
  <1>1. \A m : m \in Real(ps) <=> \E e \in Window!Entries(ps) : m = e.m /\ e.m > 0
    BY Zenon DEF Real
  <1>2. \A e : e \in Window!Entries(ps) <=>
              \E p \in DOMAIN ps : \E i \in DOMAIN ps[p].items : e = ps[p].items[i]
    BY EntriesOf
  <1> SUFFICES ASSUME NEW m
               PROVE  m \in Real(ps) <=>
                        \E p \in DOMAIN ps : \E i \in DOMAIN ps[p].items : m = ps[p].items[i].m /\ ps[p].items[i].m > 0
    OBVIOUS
  <1>3. m \in Real(ps) => \E p \in DOMAIN ps : \E i \in DOMAIN ps[p].items : m = ps[p].items[i].m /\ ps[p].items[i].m > 0
    BY <1>1, <1>2
  <1>4. ASSUME NEW p \in DOMAIN ps, NEW i \in DOMAIN ps[p].items, m = ps[p].items[i].m, ps[p].items[i].m > 0
        PROVE  m \in Real(ps)
    <2>1. ps[p].items[i] \in Window!Entries(ps)
      BY <1>2
    <2> QED
      BY <1>1, <1>4, <2>1
  <1> QED
    BY <1>3, <1>4

LEMMA FitsMeans ==
    ASSUME NEW ps, NEW c, NEW V, Fits(ps, c, V)
    PROVE  /\ Len(ps) \in Nat /\ Len(ps) > 0 /\ DOMAIN ps = 1 .. Len(ps)
           /\ \A p \in DOMAIN ps :
                 /\ ps[p] = [items |-> ps[p].items, older |-> ps[p].older] /\ ps[p].older \in 0 .. c
                 /\ ps[p].items \in Seq(EntrySet(c, V)) /\ Len(ps[p].items) \in Nat
                 /\ DOMAIN ps[p].items = 1 .. Len(ps[p].items)
                 /\ \A i \in DOMAIN ps[p].items : ps[p].items[i] \in EntrySet(c, V)
  <1>1. PICK S : S = PageSet(c, V)
    OBVIOUS
  <1>2. ps \in Seq(S) /\ Len(ps) > 0
    BY <1>1 DEF Fits
  <1>3. Len(ps) \in Nat /\ DOMAIN ps = 1 .. Len(ps) /\ \A p \in DOMAIN ps : ps[p] \in S
    BY <1>2
  <1>4. ASSUME NEW p \in DOMAIN ps
        PROVE  /\ ps[p] = [items |-> ps[p].items, older |-> ps[p].older] /\ ps[p].older \in 0 .. c
               /\ ps[p].items \in Seq(EntrySet(c, V))
    <2>1. PICK D : D = Seq(EntrySet(c, V))
      OBVIOUS
    <2>2. ps[p] \in [items : D, older : 0 .. c]
      BY <1>1, <1>3, <2>1 DEF PageSet
    <2> QED
      BY <2>1, <2>2
  <1>5. ASSUME NEW p \in DOMAIN ps
        PROVE  /\ Len(ps[p].items) \in Nat /\ DOMAIN ps[p].items = 1 .. Len(ps[p].items)
               /\ \A i \in DOMAIN ps[p].items : ps[p].items[i] \in EntrySet(c, V)
    <2>1. PICK D : D = EntrySet(c, V)
      OBVIOUS
    <2>2. PICK s : s = ps[p].items
      OBVIOUS
    <2>3. s \in Seq(D)
      BY <1>4, <2>1, <2>2
    <2>4. Len(s) \in Nat /\ DOMAIN s = 1 .. Len(s) /\ \A i \in DOMAIN s : s[i] \in D
      BY <2>3
    <2> QED
      BY <2>1, <2>2, <2>4
  <1> QED
    BY <1>2, <1>3, <1>4, <1>5, Zenon

LEMMA MakesSeq ==
    ASSUME NEW E, NEW n \in Nat, NEW s, s = [i \in 1 .. n |-> s[i]], \A i \in 1 .. n : s[i] \in E
    PROVE  s \in Seq(E) /\ Len(s) = n
  <1>1. DOMAIN s = 1 .. n
    OBVIOUS
  <1>2. s \in [1 .. n -> E]
    OBVIOUS
  <1>3. s \in Seq(E)
    BY <1>2, SeqDef, Zenon
  <1> QED
    BY <1>1, <1>3

LEMMA MakesPage ==
    ASSUME NEW c, NEW V, NEW g, g = [items |-> g.items, older |-> g.older],
           g.items \in Seq(EntrySet(c, V)), g.older \in 0 .. c
    PROVE  g \in PageSet(c, V)
  <1>1. PICK D : D = Seq(EntrySet(c, V))
    OBVIOUS
  <1>2. g \in [items : D, older : 0 .. c]
    BY <1>1
  <1> QED
    BY <1>1, <1>2 DEF PageSet

LEMMA MakesPages ==
    ASSUME NEW c, NEW V, NEW n \in Nat, n > 0, NEW ps \in [1 .. n -> PageSet(c, V)]
    PROVE  Fits(ps, c, V) /\ Len(ps) = n
  <1>1. PICK D : D = PageSet(c, V)
    OBVIOUS
  <1>2. ps \in [1 .. n -> D]
    BY <1>1
  <1>3. ps = [p \in 1 .. n |-> ps[p]] /\ \A p \in 1 .. n : ps[p] \in D
    BY <1>2
  <1>4. ps \in Seq(D) /\ Len(ps) = n
    BY <1>3, MakesSeq
  <1> QED
    BY <1>1, <1>4 DEF Fits

\* k is what s has outside S, in its order; g says from where each entry comes.
Thinned(k, s, S, g) ==
    /\ g \in [1 .. Len(k) -> 1 .. Len(s)]
    /\ \A i \in 1 .. Len(k) : k[i] = s[g[i]] /\ s[g[i]].m \notin S
    /\ \A i, j \in 1 .. Len(k) : i < j => g[i] < g[j]
    /\ \A j \in 1 .. Len(s) : s[j].m \notin S => \E i \in 1 .. Len(k) : g[i] = j

LEMMA KeptKeeps ==
    ASSUME NEW E, NEW s \in Seq(E), NEW S, NEW k, k = Window!Kept(s, S)
    PROVE  k \in Seq(E) /\ Len(k) \in Nat /\ \E g : Thinned(k, s, S, g)
  <1>1. PICK n : n = Len(s)
    OBVIOUS
  <1>2. n \in Nat /\ DOMAIN s = 1 .. n /\ \A i \in 1 .. n : s[i] \in E
    BY <1>1
  <1>3. PICK K : K = {i \in DOMAIN s : s[i].m \notin S}
    OBVIOUS
  <1>4. K \in SUBSET (1 .. n)
    BY <1>2, <1>3
  <1>5. PICK z : z = Cardinality(K)
    OBVIOUS
  <1>6. /\ z \in Nat /\ \A i \in 1 .. z : Window!Nth(K, i) \in K
        /\ \A i, j \in 1 .. z : i < j => Window!Nth(K, i) < Window!Nth(K, j)
        /\ \A j \in K : \E i \in 1 .. z : Window!Nth(K, i) = j
    BY <1>2, <1>4, <1>5, NthTaken
  <1>7. PICK g : g = [i \in 1 .. z |-> Window!Nth(K, i)]
    OBVIOUS
  <1>8. k = [i \in 1 .. z |-> s[Window!Nth(K, i)]]
    BY <1>3, <1>5, WindowCounts, Zenon DEF Window!Kept
  <1>9. /\ DOMAIN k = 1 .. z /\ k = [i \in 1 .. z |-> k[i]]
        /\ \A i \in 1 .. z : k[i] = s[g[i]] /\ g[i] = Window!Nth(K, i) /\ g[i] \in K
    BY <1>6, <1>7, <1>8
  <1>10. \A i \in 1 .. z : k[i] \in E
    BY <1>2, <1>4, <1>9
  <1>11. k \in Seq(E) /\ Len(k) = z
    BY <1>6, <1>9, <1>10, MakesSeq
  <1>12. g \in [1 .. Len(k) -> 1 .. Len(s)]
    BY <1>1, <1>4, <1>6, <1>7, <1>11
  <1>13. \A i \in 1 .. Len(k) : k[i] = s[g[i]] /\ s[g[i]].m \notin S
    BY <1>3, <1>9, <1>11
  <1>14. \A i, j \in 1 .. Len(k) : i < j => g[i] < g[j]
    BY <1>6, <1>9, <1>11
  <1>15. \A j \in 1 .. Len(s) : s[j].m \notin S => \E i \in 1 .. Len(k) : g[i] = j
    <2> SUFFICES ASSUME NEW j \in 1 .. Len(s), s[j].m \notin S PROVE \E i \in 1 .. Len(k) : g[i] = j
      OBVIOUS
    <2>1. j \in K
      BY <1>1, <1>2, <1>3
    <2>2. PICK i \in 1 .. z : Window!Nth(K, i) = j
      BY <1>6, <2>1
    <2> QED
      BY <1>9, <1>11, <2>2
  <1>16. k \in Seq(E) /\ Len(k) \in Nat
    BY <1>6, <1>11
  <1> QED
    BY <1>12, <1>13, <1>14, <1>15, <1>16, Zenon DEF Thinned

LEMMA WithoutKeeps ==
    ASSUME NEW ps, NEW c, NEW V, Fits(ps, c, V), NEW S, \A x \in S : ~(x > 0),
           NEW w, w = Window!Without(ps, S)
    PROVE  /\ Fits(w, c, V) /\ Len(w) = Len(ps) /\ \A p \in DOMAIN ps : w[p].older = ps[p].older
           /\ \A p \in DOMAIN ps : \E g : Thinned(w[p].items, ps[p].items, S, g)
           /\ \A e : e \in Window!Entries(w) <=> e \in Window!Entries(ps) /\ e.m \notin S
           /\ Real(w) = Real(ps)
           /\ Piece(ps) => Piece(w)
  <1>1. PICK n : n = Len(ps)
    OBVIOUS
  <1>2. /\ n \in Nat /\ n > 0 /\ DOMAIN ps = 1 .. n
        /\ \A p \in 1 .. n : /\ ps[p] = [items |-> ps[p].items, older |-> ps[p].older] /\ ps[p].older \in 0 .. c
                             /\ ps[p].items \in Seq(EntrySet(c, V)) /\ DOMAIN ps[p].items = 1 .. Len(ps[p].items)
                             /\ Len(ps[p].items) \in Nat
                             /\ \A i \in DOMAIN ps[p].items : ps[p].items[i] \in EntrySet(c, V)
    BY <1>1, FitsMeans
  <1>3. w = [p \in 1 .. n |-> [ps[p] EXCEPT !.items = Window!Kept(@, S)]]
    BY <1>2 DEF Window!Without
  <1>4. \A p \in 1 .. n : /\ w[p] = [items |-> w[p].items, older |-> w[p].older] /\ w[p].older = ps[p].older
                          /\ w[p].items = Window!Kept(ps[p].items, S)
    BY <1>2, <1>3
  <1>5. \A p \in 1 .. n : /\ w[p].items \in Seq(EntrySet(c, V)) /\ Len(w[p].items) \in Nat
                          /\ \E g : Thinned(w[p].items, ps[p].items, S, g)
    BY <1>2, <1>4, KeptKeeps
  <1>6. Fits(w, c, V) /\ Len(w) = n /\ DOMAIN w = 1 .. n
    <2>1. w = [p \in 1 .. n |-> w[p]]
      BY <1>3
    <2>2. \A p \in 1 .. n : w[p].older \in 0 .. c
      BY <1>2, <1>4
    <2>3. \A p \in 1 .. n : /\ w[p] = [items |-> w[p].items, older |-> w[p].older]
                            /\ w[p].items \in Seq(EntrySet(c, V)) /\ w[p].older \in 0 .. c
      BY <1>4, <1>5, <2>2
    <2>4. \A p \in 1 .. n : w[p] \in PageSet(c, V)
      BY <2>3, MakesPage
    <2>5. w \in [1 .. n -> PageSet(c, V)]
      BY <2>1, <2>4, Zenon
    <2>6. Fits(w, c, V) /\ Len(w) = n
      BY <1>2, <2>5, MakesPages
    <2>7. DOMAIN w = 1 .. n
      BY <1>3
    <2> QED
      BY <2>6, <2>7
  <1>7. \A p \in 1 .. n : DOMAIN w[p].items = 1 .. Len(w[p].items)
    BY <1>6, FitsMeans
  <1>8. ASSUME NEW e PROVE e \in Window!Entries(w) <=> e \in Window!Entries(ps) /\ e.m \notin S
    <2>1. ASSUME NEW p \in 1 .. n, NEW i \in DOMAIN w[p].items, e = w[p].items[i]
          PROVE  e \in Window!Entries(ps) /\ e.m \notin S
      <3>1. PICK g : Thinned(w[p].items, ps[p].items, S, g)
        BY <1>5
      <3>2. g[i] \in 1 .. Len(ps[p].items) /\ e = ps[p].items[g[i]] /\ e.m \notin S
        BY <1>7, <2>1, <3>1 DEF Thinned
      <3> QED
        BY <1>2, <3>2, EntriesOf
    <2>2. ASSUME NEW p \in 1 .. n, NEW j \in DOMAIN ps[p].items, e = ps[p].items[j], e.m \notin S
          PROVE  e \in Window!Entries(w)
      <3>1. PICK g : Thinned(w[p].items, ps[p].items, S, g)
        BY <1>5
      <3>2. PICK i \in 1 .. Len(w[p].items) : g[i] = j
        BY <1>2, <2>2, <3>1 DEF Thinned
      <3>3. w[p].items[i] = e
        BY <2>2, <3>1, <3>2 DEF Thinned
      <3> QED
        BY <1>6, <1>7, <3>2, <3>3, EntriesOf
    <2> QED
      BY <1>2, <1>6, <2>1, <2>2, EntriesOf
  <1>9. Real(w) = Real(ps)
    BY <1>8 DEF Real
  <1>10. ASSUME InPlace(ps) PROVE InPlace(w)
    <2> SUFFICES ASSUME NEW p \in 1 .. n, NEW q \in 1 .. n, NEW i \in DOMAIN w[p].items,
                        NEW j \in DOMAIN w[q].items, p > q \/ (p = q /\ i < j),
                        w[p].items[i].m > 0, w[q].items[j].m > 0
                 PROVE  w[p].items[i].m < w[q].items[j].m
      BY <1>6 DEF InPlace
    <2>1. PICK g : Thinned(w[p].items, ps[p].items, S, g)
      BY <1>5
    <2>2. PICK h : Thinned(w[q].items, ps[q].items, S, h) /\ (p = q => h = g)
      BY <1>5, <2>1
    <2>3. /\ g[i] \in DOMAIN ps[p].items /\ w[p].items[i] = ps[p].items[g[i]]
          /\ h[j] \in DOMAIN ps[q].items /\ w[q].items[j] = ps[q].items[h[j]]
      <3>1. i \in 1 .. Len(w[p].items) /\ j \in 1 .. Len(w[q].items)
        BY <1>7
      <3>2. g[i] \in 1 .. Len(ps[p].items) /\ w[p].items[i] = ps[p].items[g[i]]
        BY <2>1, <3>1 DEF Thinned
      <3>3. h[j] \in 1 .. Len(ps[q].items) /\ w[q].items[j] = ps[q].items[h[j]]
        BY <2>2, <3>1 DEF Thinned
      <3> QED
        BY <1>2, <3>2, <3>3
    <2>4. p = q => g[i] < h[j]
      BY <1>7, <2>1, <2>2 DEF Thinned
    <2>5. p \in DOMAIN ps /\ q \in DOMAIN ps /\ (p > q \/ (p = q /\ g[i] < h[j]))
      BY <1>2, <2>4
    <2> QED
      BY <1>10, <2>3, <2>5 DEF InPlace
  <1>11. ASSUME Topped(ps) PROVE Topped(w)
    <2> SUFFICES ASSUME Real(w) # {} PROVE \E i \in DOMAIN w[1].items : w[1].items[i].m > 0
      BY DEF Topped
    <2>1. PICK j \in DOMAIN ps[1].items : ps[1].items[j].m > 0
      BY <1>9, <1>11 DEF Topped
    <2>2. 1 \in 1 .. n
      BY <1>2
    <2>3. PICK g : Thinned(w[1].items, ps[1].items, S, g)
      BY <1>5, <2>2
    <2>4. PICK i \in 1 .. Len(w[1].items) : g[i] = j
      BY <1>2, <2>1, <2>2, <2>3 DEF Thinned
    <2>5. w[1].items[i] = ps[1].items[j]
      BY <2>3, <2>4 DEF Thinned
    <2> QED
      BY <1>7, <2>1, <2>2, <2>4, <2>5
  <1>12. Piece(ps) => Piece(w)
    <2>1. w[Len(w)].older = ps[Len(ps)].older
      BY <1>1, <1>2, <1>4, <1>6
    <2> QED
      BY <1>9, <1>10, <1>11, <2>1 DEF Piece, Unbroken, Opens
  <1> QED
    BY <1>1, <1>2, <1>4, <1>5, <1>6, <1>8, <1>9, <1>12

LEMMA AtEndKeeps ==
    ASSUME NEW ps, NEW c, NEW V, Fits(ps, c, V), NEW e \in EntrySet(c, V),
           NEW w, w = Window!AtEnd(ps, e)
    PROVE  /\ Fits(w, c, V) /\ Len(w) = Len(ps) /\ \A p \in DOMAIN ps : w[p].older = ps[p].older
           /\ \A x : x \in Window!Entries(w) <=> x \in Window!Entries(ps) \/ x = e
           /\ \A m : m \in Real(w) <=> m \in Real(ps) \/ (m = e.m /\ m > 0)
           /\ Piece(ps) /\ (e.m > 0 => /\ \A m \in Real(ps) : m < e.m
                                       /\ IF Real(ps) = {} THEN e.m = 1 ELSE e.m - 1 \in Real(ps))
                => Piece(w)
  <1>1. PICK n : n = Len(ps)
    OBVIOUS
  <1>2. /\ n \in Nat /\ n > 0 /\ DOMAIN ps = 1 .. n
        /\ \A p \in 1 .. n : /\ ps[p] = [items |-> ps[p].items, older |-> ps[p].older] /\ ps[p].older \in 0 .. c
                             /\ ps[p].items \in Seq(EntrySet(c, V)) /\ DOMAIN ps[p].items = 1 .. Len(ps[p].items)
                             /\ Len(ps[p].items) \in Nat
                             /\ \A i \in DOMAIN ps[p].items : ps[p].items[i] \in EntrySet(c, V)
    BY <1>1, FitsMeans
  <1>3. w = [ps EXCEPT ![1].items = Append(@, e)]
    BY DEF Window!AtEnd
  <1>4. DOMAIN w = 1 .. n /\ w = [p \in 1 .. n |-> w[p]]
    <2>1. \E f : ps = [p \in 1 .. n |-> f[p]]
      <3>1. ps \in Seq(PageSet(c, V))
        BY DEF Fits
      <3> QED
        BY <1>2, <3>1
    <2> QED
      BY <1>3, <2>1
  <1>5. PICK s : s = ps[1].items
    OBVIOUS
  <1>6. 1 \in 1 .. n /\ s \in Seq(EntrySet(c, V)) /\ Len(s) \in Nat /\ DOMAIN s = 1 .. Len(s)
    BY <1>2, <1>5
  <1>7. PICK t : t = Append(s, e)
    OBVIOUS
  <1>8. /\ t \in Seq(EntrySet(c, V)) /\ Len(t) = Len(s) + 1 /\ DOMAIN t = 1 .. Len(s) + 1
        /\ \A i \in DOMAIN s : t[i] = s[i]
        /\ t[Len(s) + 1] = e
    <2>1. PICK E : E = EntrySet(c, V)
      OBVIOUS
    <2>2. s \in Seq(E) /\ e \in E
      BY <1>6, <2>1
    <2>3. /\ t \in Seq(E) /\ Len(t) = Len(s) + 1 /\ DOMAIN t = 1 .. Len(s) + 1
          /\ \A i \in 1 .. Len(s) : t[i] = s[i]
          /\ t[Len(s) + 1] = e
      BY <1>7, <2>2
    <2> QED
      BY <1>6, <2>1, <2>3
  <1>9. w[1] = [items |-> t, older |-> ps[1].older] /\ \A p \in 1 .. n : p # 1 => w[p] = ps[p]
    BY <1>2, <1>3, <1>5, <1>6, <1>7
  <1>10. \A p \in 1 .. n : /\ w[p] = [items |-> w[p].items, older |-> w[p].older] /\ w[p].older = ps[p].older
                           /\ w[p].items \in Seq(EntrySet(c, V))
    <2> SUFFICES ASSUME NEW p \in 1 .. n
                 PROVE  /\ w[p] = [items |-> w[p].items, older |-> w[p].older] /\ w[p].older = ps[p].older
                        /\ w[p].items \in Seq(EntrySet(c, V))
      OBVIOUS
    <2>1. CASE p = 1
      <3>1. w[1].items = t /\ w[1].older = ps[1].older
        BY <1>9
      <3>2. w[1] = [items |-> w[1].items, older |-> w[1].older]
        BY <1>9, <3>1
      <3> QED
        BY <1>8, <2>1, <3>1, <3>2
    <2>2. CASE p # 1
      <3>1. w[p] = ps[p]
        BY <1>9, <2>2
      <3> QED
        BY <1>2, <3>1
    <2> QED
      BY <2>1, <2>2
  <1>11. Fits(w, c, V) /\ Len(w) = n
    <2>1. \A p \in 1 .. n : w[p] \in PageSet(c, V)
      BY <1>2, <1>10, MakesPage
    <2>2. w \in [1 .. n -> PageSet(c, V)]
      BY <1>4, <2>1, Zenon
    <2> QED
      BY <1>2, <2>2, MakesPages
  \* Where an entry stood it stands, and e stands last of all.
  <1>12. \A p \in 1 .. n : \A i \in DOMAIN ps[p].items : i \in DOMAIN w[p].items /\ w[p].items[i] = ps[p].items[i]
    BY <1>5, <1>6, <1>8, <1>9
  <1>13. ASSUME NEW p \in 1 .. n, NEW i \in DOMAIN w[p].items
         PROVE  (i \in DOMAIN ps[p].items /\ w[p].items[i] = ps[p].items[i])
                \/ (p = 1 /\ i = Len(s) + 1 /\ w[p].items[i] = e)
    <2>1. CASE p = 1
      <3>1. w[p].items = t
        BY <1>9, <2>1
      <3>2. i \in 1 .. Len(s) + 1
        BY <1>8, <3>1
      <3> QED
        BY <1>5, <1>6, <1>8, <2>1, <3>1, <3>2
    <2>2. CASE p # 1
      BY <1>9, <2>2
    <2> QED
      BY <2>1, <2>2
  <1>14. Len(s) + 1 \in DOMAIN w[1].items /\ w[1].items[Len(s) + 1] = e
    BY <1>6, <1>8, <1>9
  <1>15. ASSUME NEW x PROVE x \in Window!Entries(w) <=> x \in Window!Entries(ps) \/ x = e
    <2>1. x \in Window!Entries(w) => x \in Window!Entries(ps) \/ x = e
      BY <1>2, <1>4, <1>13, EntriesOf
    <2>2. x \in Window!Entries(ps) => x \in Window!Entries(w)
      BY <1>2, <1>4, <1>12, EntriesOf
    <2>3. e \in Window!Entries(w)
      BY <1>4, <1>6, <1>14, EntriesOf
    <2> QED
      BY <2>1, <2>2, <2>3
  <1>16. ASSUME NEW m PROVE m \in Real(w) <=> m \in Real(ps) \/ (m = e.m /\ m > 0)
    BY <1>15 DEF Real
  <1>17. ASSUME Piece(ps), e.m > 0 => /\ \A m \in Real(ps) : m < e.m
                                      /\ IF Real(ps) = {} THEN e.m = 1 ELSE e.m - 1 \in Real(ps)
         PROVE  Piece(w)
    <2>1. InPlace(w)
      <3> SUFFICES ASSUME NEW p \in 1 .. n, NEW q \in 1 .. n, NEW i \in DOMAIN w[p].items,
                          NEW j \in DOMAIN w[q].items, p > q \/ (p = q /\ i < j),
                          w[p].items[i].m > 0, w[q].items[j].m > 0
                   PROVE  w[p].items[i].m < w[q].items[j].m
        BY <1>4 DEF InPlace
      <3>1. CASE i \in DOMAIN ps[p].items /\ w[p].items[i] = ps[p].items[i]
        <4>1. CASE j \in DOMAIN ps[q].items /\ w[q].items[j] = ps[q].items[j]
          BY <1>2, <1>17, <3>1, <4>1 DEF Piece, InPlace
        <4>2. CASE w[q].items[j] = e
          <5>1. ps[p].items[i].m \in Real(ps)
            BY <1>2, <3>1, RealOf
          <5> QED
            BY <1>17, <3>1, <4>2, <5>1
        <4> QED
          BY <1>13, <4>1, <4>2
      <3>2. CASE p = 1 /\ i = Len(s) + 1
        <4>1. q = 1 /\ i < j
          BY <3>2
        <4>2. j \in 1 .. Len(s) + 1
          BY <1>8, <1>9, <4>1
        <4> QED
          BY <1>6, <3>2, <4>1, <4>2
      <3> QED
        BY <1>13, <3>1, <3>2
    <2>2. Unbroken(w)
      <3> SUFFICES ASSUME NEW a \in Real(w), NEW b \in Real(w), NEW m \in a .. b PROVE m \in Real(w)
        BY DEF Unbroken
      <3>1. CASE a \in Real(ps) /\ b \in Real(ps)
        BY <1>16, <1>17, <3>1 DEF Piece, Unbroken
      <3>2. CASE a \in Real(ps) /\ b = e.m /\ e.m > 0
        <4>1. e.m - 1 \in Real(ps)
          BY <1>17, <3>2
        <4>2. a > 0
          BY <3>2 DEF Real
        <4>3. a \in Int /\ b \in Int
          <5>1. e.m \in Int
            BY DEF EntrySet
          <5>2. \E x \in EntrySet(c, V) : a = x.m
            BY <1>2, <3>2, RealOf
          <5> QED
            BY <3>2, <5>1, <5>2 DEF EntrySet
        <4>4. m = e.m \/ m \in a .. (e.m - 1)
          BY <3>2, <4>3
        <4> QED
          BY <1>16, <1>17, <3>2, <4>1, <4>4 DEF Piece, Unbroken
      <3>3. CASE a = e.m /\ b \in Real(ps) /\ e.m > 0
        <4>1. b < a /\ b \in Int /\ a \in Int
          <5>1. e.m \in Int
            BY DEF EntrySet
          <5>2. \E x \in EntrySet(c, V) : b = x.m
            BY <1>2, <3>3, RealOf
          <5> QED
            BY <1>17, <3>3, <5>1, <5>2 DEF EntrySet
        <4> QED
          BY <4>1
      <3>4. CASE a = e.m /\ b = e.m /\ e.m > 0
        <4>1. e.m \in Int
          BY DEF EntrySet
        <4>2. m = e.m
          BY <3>4, <4>1
        <4> QED
          BY <1>16, <3>4, <4>2
      <3> QED
        BY <1>16, <3>1, <3>2, <3>3, <3>4
    <2>3. Opens(w, ps[n].older)
      <3>1. Opens(ps, ps[n].older)
        BY <1>1, <1>17 DEF Piece
      <3>2. e.m \in Int
        BY DEF EntrySet
      <3>3. CASE ps[n].older = 0
        <4>1. Real(ps) = {} \/ 1 \in Real(ps)
          BY <3>1, <3>3 DEF Opens
        <4> QED
          BY <1>16, <1>17, <3>3, <4>1 DEF Opens
      <3>4. CASE ps[n].older # 0
        <4>1. ps[n].older > 1 /\ ps[n].older \in Real(ps) /\ \A m \in Real(ps) : ps[n].older <= m
          BY <3>1, <3>4 DEF Opens
        <4>2. ps[n].older \in Int
          BY <1>2
        <4>3. \A m \in Real(w) : ps[n].older <= m
          BY <1>16, <1>17, <3>2, <4>1, <4>2
        <4> QED
          BY <1>16, <3>4, <4>1, <4>3 DEF Opens
      <3> QED
        BY <3>3, <3>4
    <2>4. Topped(w)
      <3>1. CASE Real(ps) # {}
        <4>1. PICK i \in DOMAIN ps[1].items : ps[1].items[i].m > 0
          BY <1>17, <3>1 DEF Piece, Topped
        <4> QED
          BY <1>6, <1>12, <4>1 DEF Topped
      <3>2. CASE Real(ps) = {}
        BY <1>14, <1>16, <3>2 DEF Topped
      <3> QED
        BY <3>1, <3>2
    <2>5. w[Len(w)].older = ps[n].older
      BY <1>2, <1>10, <1>11
    <2> QED
      BY <2>1, <2>2, <2>3, <2>4, <2>5 DEF Piece
  <1> QED
    BY <1>1, <1>2, <1>10, <1>11, <1>15, <1>16, <1>17

\* A version of a message takes the place of the ones shown.
Replaced(ps, e) ==
    [p \in DOMAIN ps |-> [ps[p] EXCEPT !.items = [i \in DOMAIN @ |-> IF @[i].m = e.m THEN e ELSE @[i]]]]

LEMMA ReplacedKeeps ==
    ASSUME NEW ps, NEW c, NEW V, Fits(ps, c, V), NEW e \in EntrySet(c, V),
           NEW w, w = Replaced(ps, e)
    PROVE  /\ Fits(w, c, V) /\ Len(w) = Len(ps) /\ \A p \in DOMAIN ps : w[p].older = ps[p].older
           /\ \A x \in Window!Entries(w) : x = e \/ (x \in Window!Entries(ps) /\ x.m # e.m)
           /\ Real(w) = Real(ps)
           /\ Piece(ps) => Piece(w)
  <1>1. PICK n : n = Len(ps)
    OBVIOUS
  <1>2. /\ n \in Nat /\ n > 0 /\ DOMAIN ps = 1 .. n
        /\ \A p \in 1 .. n : /\ ps[p] = [items |-> ps[p].items, older |-> ps[p].older] /\ ps[p].older \in 0 .. c
                             /\ ps[p].items \in Seq(EntrySet(c, V)) /\ DOMAIN ps[p].items = 1 .. Len(ps[p].items)
                             /\ Len(ps[p].items) \in Nat
                             /\ \A i \in DOMAIN ps[p].items : ps[p].items[i] \in EntrySet(c, V)
    BY <1>1, FitsMeans
  <1>3. w = [p \in 1 .. n |-> [ps[p] EXCEPT !.items = [i \in DOMAIN @ |-> IF @[i].m = e.m THEN e ELSE @[i]]]]
    BY <1>2 DEF Replaced
  <1>4. \A p \in 1 .. n : /\ w[p] = [items |-> w[p].items, older |-> w[p].older] /\ w[p].older = ps[p].older
                          /\ w[p].items = [i \in DOMAIN ps[p].items |->
                                              IF ps[p].items[i].m = e.m THEN e ELSE ps[p].items[i]]
    <2> SUFFICES ASSUME NEW p \in 1 .. n
                 PROVE  /\ w[p] = [items |-> w[p].items, older |-> w[p].older] /\ w[p].older = ps[p].older
                        /\ w[p].items = [i \in DOMAIN ps[p].items |->
                                            IF ps[p].items[i].m = e.m THEN e ELSE ps[p].items[i]]
      OBVIOUS
    <2>1. PICK s, o : s = ps[p].items /\ o = ps[p].older
      OBVIOUS
    <2>2. ps[p] = [items |-> s, older |-> o]
      BY <1>2, <2>1
    <2>3. PICK t : t = [i \in DOMAIN s |-> IF s[i].m = e.m THEN e ELSE s[i]]
      OBVIOUS
    <2>4. w[p] = [ps[p] EXCEPT !.items = t]
      BY <1>3, <2>1, <2>3
    <2>5. w[p] = [items |-> t, older |-> o]
      BY <2>2, <2>4
    <2> QED
      BY <2>1, <2>3, <2>5
  <1>5. \A p \in 1 .. n : /\ DOMAIN w[p].items = DOMAIN ps[p].items
                          /\ \A i \in DOMAIN ps[p].items :
                                /\ w[p].items[i] = IF ps[p].items[i].m = e.m THEN e ELSE ps[p].items[i]
                                /\ w[p].items[i].m = ps[p].items[i].m
    <2> SUFFICES ASSUME NEW p \in 1 .. n
                 PROVE  /\ DOMAIN w[p].items = DOMAIN ps[p].items
                        /\ \A i \in DOMAIN ps[p].items :
                              /\ w[p].items[i] = IF ps[p].items[i].m = e.m THEN e ELSE ps[p].items[i]
                              /\ w[p].items[i].m = ps[p].items[i].m
      OBVIOUS
    <2>1. w[p].items = [i \in DOMAIN ps[p].items |-> IF ps[p].items[i].m = e.m THEN e ELSE ps[p].items[i]]
      BY <1>4
    <2> QED
      BY <2>1
  <1>6. ASSUME NEW p \in 1 .. n PROVE w[p].items \in Seq(EntrySet(c, V))
    <2>1. PICK E : E = EntrySet(c, V)
      OBVIOUS
    <2>2. PICK s, k : s = w[p].items /\ k = Len(ps[p].items)
      OBVIOUS
    <2>3. s = [i \in 1 .. k |-> IF ps[p].items[i].m = e.m THEN e ELSE ps[p].items[i]]
      BY <1>2, <1>4, <2>2
    <2>4. s = [i \in 1 .. k |-> s[i]] /\ k \in Nat
      BY <1>2, <2>2, <2>3
    <2>5. \A i \in 1 .. k : s[i] \in E
      <3>1. \A i \in 1 .. k : ps[p].items[i] \in E /\ e \in E
        BY <1>2, <2>1, <2>2
      <3> QED
        BY <2>3, <3>1
    <2>6. s \in Seq(E)
      BY <2>4, <2>5, MakesSeq
    <2> QED
      BY <2>1, <2>2, <2>6
  <1>7. Fits(w, c, V) /\ Len(w) = n /\ DOMAIN w = 1 .. n
    <2>1. w = [p \in 1 .. n |-> w[p]] /\ DOMAIN w = 1 .. n
      BY <1>3
    <2>2. \A p \in 1 .. n : w[p] \in PageSet(c, V)
      BY <1>2, <1>4, <1>6, MakesPage
    <2>3. w \in [1 .. n -> PageSet(c, V)]
      BY <2>1, <2>2, Zenon
    <2> QED
      BY <1>2, <2>1, <2>3, MakesPages
  <1>8. ASSUME NEW x \in Window!Entries(w) PROVE x = e \/ (x \in Window!Entries(ps) /\ x.m # e.m)
    <2>1. PICK p \in 1 .. n : \E i \in DOMAIN w[p].items : x = w[p].items[i]
      BY <1>7, EntriesOf
    <2>0. PICK i \in DOMAIN w[p].items : x = w[p].items[i]
      BY <2>1
    <2>2. i \in DOMAIN ps[p].items /\ x = IF ps[p].items[i].m = e.m THEN e ELSE ps[p].items[i]
      BY <1>5, <2>0
    <2> QED
      BY <1>2, <2>2, EntriesOf
  <1>9. Real(w) = Real(ps)
    <2>1. \A m : m \in Real(w) <=>
            \E p \in 1 .. n : \E i \in DOMAIN ps[p].items : m = ps[p].items[i].m /\ ps[p].items[i].m > 0
      <3>1. \A m : m \in Real(w) <=>
              \E p \in 1 .. n : \E i \in DOMAIN w[p].items : m = w[p].items[i].m /\ w[p].items[i].m > 0
        BY <1>7, RealOf
      <3> QED
        BY <1>5, <3>1
    <2>2. \A m : m \in Real(ps) <=>
            \E p \in 1 .. n : \E i \in DOMAIN ps[p].items : m = ps[p].items[i].m /\ ps[p].items[i].m > 0
      <3>1. DOMAIN ps = 1 .. n
        BY <1>2
      <3> QED
        BY <3>1, RealOf
    <2> QED
      BY <2>1, <2>2
  <1>10. ASSUME Piece(ps) PROVE Piece(w)
    <2>1. InPlace(w)
      <3> SUFFICES ASSUME NEW p \in 1 .. n, NEW q \in 1 .. n, NEW i \in DOMAIN w[p].items,
                          NEW j \in DOMAIN w[q].items, p > q \/ (p = q /\ i < j),
                          w[p].items[i].m > 0, w[q].items[j].m > 0
                   PROVE  w[p].items[i].m < w[q].items[j].m
        BY <1>7 DEF InPlace
      <3>1. /\ i \in DOMAIN ps[p].items /\ w[p].items[i].m = ps[p].items[i].m
            /\ j \in DOMAIN ps[q].items /\ w[q].items[j].m = ps[q].items[j].m
        BY <1>5
      <3>2. p \in DOMAIN ps /\ q \in DOMAIN ps
        BY <1>2
      <3> QED
        BY <1>10, <3>1, <3>2 DEF Piece, InPlace
    <2>2. Topped(w)
      <3> SUFFICES ASSUME Real(w) # {} PROVE \E i \in DOMAIN w[1].items : w[1].items[i].m > 0
        BY DEF Topped
      <3>1. PICK i \in DOMAIN ps[1].items : ps[1].items[i].m > 0
        BY <1>9, <1>10 DEF Piece, Topped
      <3>2. 1 \in 1 .. n
        BY <1>2
      <3>3. i \in DOMAIN w[1].items /\ w[1].items[i].m = ps[1].items[i].m
        BY <1>5, <3>2
      <3> QED
        BY <3>1, <3>3
    <2>3. w[Len(w)].older = ps[Len(ps)].older
      <3>1. n \in 1 .. n
        BY <1>2
      <3>2. w[n].older = ps[n].older
        BY <1>4, <3>1
      <3> QED
        BY <1>1, <1>7, <3>2
    <2> QED
      BY <1>9, <1>10, <2>1, <2>2, <2>3 DEF Piece, Unbroken, Opens
  <1> QED
    BY <1>1, <1>2, <1>4, <1>7, <1>8, <1>9, <1>10

\* Copies aside, the last entry of the newest page is the last of all.
LEMMA LastIsLast ==
    ASSUME NEW ps, NEW c, NEW V, Fits(ps, c, V), Piece(ps), NEW m \in Nat,
           Window!LastOf(Window!Without(ps, Copying)) = m - 1
    PROVE  /\ \A k \in Real(ps) : k < m
           /\ IF Real(ps) = {} THEN m = 1 ELSE m - 1 \in Real(ps)
  <1>1. PICK w : w = Window!Without(ps, Copying)
    OBVIOUS
  <1>2. \A x \in Copying : x \in Int /\ ~(x > 0)
    BY WindowNumbers DEF Copying
  <1>3. /\ Fits(w, c, V)
        /\ \A p \in DOMAIN ps : \E g : Thinned(w[p].items, ps[p].items, Copying, g)
        /\ Real(w) = Real(ps)
    BY <1>1, <1>2, WithoutKeeps
  <1>4. /\ Len(ps) > 0 /\ Len(ps) \in Nat /\ DOMAIN ps = 1 .. Len(ps)
        /\ \A p \in DOMAIN ps : DOMAIN ps[p].items = 1 .. Len(ps[p].items) /\ Len(ps[p].items) \in Nat
    BY FitsMeans
  <1>5. 1 \in DOMAIN ps
    BY <1>4
  <1>6. Len(w) > 0 /\ Len(w) \in Nat /\ DOMAIN w = 1 .. Len(w)
    BY <1>3, FitsMeans
  <1>7. 1 \in DOMAIN w
    BY <1>6
  <1>8. PICK s, t : s = w[1].items /\ t = ps[1].items
    OBVIOUS
  <1>9. Len(s) \in Nat /\ DOMAIN s = 1 .. Len(s) /\ s \in Seq(EntrySet(c, V))
    BY <1>3, <1>7, <1>8, FitsMeans
  <1>10. Len(t) \in Nat /\ DOMAIN t = 1 .. Len(t) /\ \A j \in 1 .. Len(t) : t[j] \in EntrySet(c, V)
    BY <1>5, <1>8, FitsMeans
  <1>11. PICK g : Thinned(s, t, Copying, g)
    BY <1>3, <1>5, <1>8
  <1>12. m - 1 = IF s = <<>> THEN 0 ELSE s[Len(s)].m
    BY <1>1, <1>8 DEF Window!LastOf
  <1>13. \A j \in 1 .. Len(t) : t[j].m > 0 => t[j].m \notin Copying
    BY <1>2
  <1>14. CASE s = <<>>
    <2>1. Len(s) = 0
      BY <1>14
    <2>2. ~\E j \in 1 .. Len(t) : t[j].m > 0
      BY <1>11, <1>13, <2>1 DEF Thinned
    <2>3. Real(ps) = {}
      BY <1>8, <1>10, <2>2 DEF Piece, Topped
    <2> QED
      BY <1>12, <1>14, <2>3
  <1>15. CASE s # <<>>
    <2>1. Len(s) > 0
      BY <1>9, <1>15
    <2>2. PICK z : z = Len(s)
      OBVIOUS
    <2>3. z \in 1 .. Len(s) /\ z \in Nat
      BY <1>9, <2>1, <2>2
    <2>4. g[z] \in 1 .. Len(t) /\ s[z] = t[g[z]] /\ t[g[z]].m \notin Copying
      BY <1>11, <2>3 DEF Thinned
    <2>5. t[g[z]].m > 0 /\ t[g[z]].m = m - 1
      <3>1. t[g[z]] \in EntrySet(c, V)
        BY <1>10, <2>4
      <3> QED
        BY <1>12, <1>15, <2>2, <2>4, <3>1 DEF EntrySet
    <2>6. m - 1 \in Real(ps)
      BY <1>5, <1>8, <1>10, <2>4, <2>5, RealOf
    <2>7. ASSUME NEW k \in Real(ps) PROVE k < m
      <3>1. PICK p \in DOMAIN ps : \E j \in DOMAIN ps[p].items : k = ps[p].items[j].m /\ k > 0
        BY RealOf
      <3>0. PICK j \in DOMAIN ps[p].items : k = ps[p].items[j].m /\ k > 0
        BY <3>1
      <3>2. k \in Int
        <4>1. ps[p].items[j] \in EntrySet(c, V)
          BY FitsMeans
        <4> QED
          BY <3>0, <4>1 DEF EntrySet
      <3>3. p \in Int /\ p >= 1
        BY <1>4
      <3>4. CASE p > 1
        <4>1. ps[p].items[j].m < ps[1].items[g[z]].m
          BY <1>5, <1>8, <1>10, <2>4, <2>5, <3>0, <3>4 DEF Piece, InPlace
        <4> QED
          BY <1>8, <2>5, <3>0, <3>2, <4>1
      <3>5. CASE p = 1
        <4>1. j \in 1 .. Len(t) /\ t[j].m = k
          BY <1>8, <1>10, <3>0, <3>5
        <4>2. PICK i \in 1 .. Len(s) : g[i] = j
          BY <1>11, <1>13, <3>0, <4>1 DEF Thinned
        <4>3. CASE i = z
          BY <2>5, <3>2, <4>1, <4>2, <4>3
        <4>4. CASE i < z
          <5>1. g[i] < g[z]
            BY <1>11, <2>3, <4>4 DEF Thinned
          <5>2. ps[1].items[j].m < ps[1].items[g[z]].m
            BY <1>5, <1>8, <1>10, <2>4, <2>5, <3>0, <4>1, <4>2, <5>1 DEF Piece, InPlace
          <5> QED
            BY <1>8, <2>5, <3>2, <4>1, <5>2
        <4> QED
          <5>1. PICK l : l = Len(s)
            OBVIOUS
          <5>2. l \in Nat /\ l = z /\ i \in 1 .. l
            BY <1>9, <2>2, <5>1
          <5>3. i = z \/ i < z
            BY <5>2
          <5> QED
            BY <4>3, <4>4, <5>3
      <3> QED
        BY <3>3, <3>4, <3>5
    <2> QED
      BY <2>6, <2>7
  <1> QED
    BY <1>14, <1>15

LEMMA HasReal ==
    ASSUME NEW m, m > 0 PROVE Window!Has(m) <=> m \in Real(pages)
  <1>1. Window!Has(m) <=> \E e \in Window!Entries(pages) : e.m = m
    BY DEF Window!Has, Window!Shown
  <1>2. m \in Real(pages) <=> \E e \in Window!Entries(pages) : m = e.m /\ e.m > 0
    BY Zenon DEF Real
  <1> QED
    BY <1>1, <1>2

LEMMA UpsertKeeps ==
    ASSUME Fits(pages, total, ver), NEW r, r.m \in 1 .. total, r.v \in 1 .. ver[r.m],
           NEW gone \in SUBSET Copying, NEW w, w = Window!Upsert(r, gone), total \in Nat,
           NEW e, e = [m |-> r.m, v |-> r.v], ver[r.m] \in Nat
    PROVE  /\ Fits(w, total, ver)
           /\ \A x \in Window!Entries(w) : x = e \/ (x \in Window!Entries(pages) /\ x.m # r.m /\ x.m \notin gone)
           /\ \A k : k \in Real(w) <=> k \in Real(pages) \/ k = r.m
           /\ Piece(pages) /\ ~Window!Strays(r, gone) => Piece(w)
  <1>1. PICK u : u = Window!Without(pages, gone)
    OBVIOUS
  <1>2. \A x \in gone : x \in Int /\ ~(x > 0)
    BY WindowNumbers DEF Copying
  <1>3. /\ Fits(u, total, ver)
        /\ \A x : x \in Window!Entries(u) <=> x \in Window!Entries(pages) /\ x.m \notin gone
        /\ Real(u) = Real(pages)
        /\ Piece(pages) => Piece(u)
    BY <1>1, <1>2, WithoutKeeps
  <1>4. e \in EntrySet(total, ver) /\ e.m = r.m /\ e.m > 0
    BY DEF EntrySet
  <1>5. Window!Has(r.m) <=> r.m \in Real(pages)
    <2>1. r.m > 0
      OBVIOUS
    <2> QED
      BY <2>1, HasReal
  <1>6. CASE Window!Has(r.m)
    <2>1. w = Replaced(u, e)
      <3>1. w = [p \in DOMAIN u |-> [u[p] EXCEPT !.items = [i \in DOMAIN @ |-> IF @[i].m = r.m THEN e ELSE @[i]]]]
        BY <1>1, <1>6, Zenon DEF Window!Upsert
      <3> QED
        BY <1>4, <3>1, Zenon DEF Replaced
    <2>2. /\ Fits(w, total, ver)
          /\ \A x \in Window!Entries(w) : x = e \/ (x \in Window!Entries(u) /\ x.m # e.m)
          /\ Real(w) = Real(u)
          /\ Piece(u) => Piece(w)
      BY <1>3, <1>4, <2>1, ReplacedKeeps
    <2> QED
      BY <1>3, <1>4, <1>5, <1>6, <2>2
  <1>7. CASE ~Window!Has(r.m)
    <2>1. w = Window!AtEnd(u, e)
      BY <1>1, <1>7, Zenon DEF Window!Upsert
    <2>2. /\ Fits(w, total, ver)
          /\ \A x : x \in Window!Entries(w) <=> x \in Window!Entries(u) \/ x = e
          /\ \A m : m \in Real(w) <=> m \in Real(u) \/ (m = e.m /\ m > 0)
          /\ Piece(u) /\ (e.m > 0 => /\ \A m \in Real(u) : m < e.m
                                     /\ IF Real(u) = {} THEN e.m = 1 ELSE e.m - 1 \in Real(u))
               => Piece(w)
      BY <1>3, <1>4, <2>1, AtEndKeeps
    <2>3. \A x \in Window!Entries(pages) : x.m # r.m
      BY <1>7 DEF Window!Has, Window!Shown
    <2>4. ASSUME Piece(pages), ~Window!Strays(r, gone) PROVE Piece(w)
      <3>1. Window!LastOf(Window!Without(pages, Copying)) = r.m - 1
        BY <1>7, <2>4 DEF Window!Strays, Copying
      <3>2. r.m \in Nat
        OBVIOUS
      <3>3. /\ \A k \in Real(pages) : k < r.m
            /\ IF Real(pages) = {} THEN r.m = 1 ELSE r.m - 1 \in Real(pages)
        BY <2>4, <3>1, <3>2, LastIsLast
      <3> QED
        BY <1>3, <1>4, <2>2, <2>4, <3>3
    <2> QED
      BY <1>3, <1>4, <2>2, <2>3, <2>4
  <1> QED
    BY <1>6, <1>7

Counted == total \in Nat /\ total <= WindowMessages /\ ver \in [1 .. WindowMessages -> Nat \ {0}]

LEMMA BlockSound ==
    ASSUME Counted, NEW a \in Nat, a > 0, NEW b \in Int, a <= b + 1, b <= total
    PROVE  /\ Block(a, b) \in Seq(EntrySet(total, ver)) /\ DOMAIN Block(a, b) = 1 .. (b - a + 1)
           /\ \A i \in 1 .. (b - a + 1) : /\ Block(a, b)[i].m = a + i - 1 /\ a + i - 1 \in 1 .. total
                                          /\ Block(a, b)[i].v = ver[Block(a, b)[i].m]
           /\ \A m \in a .. b : \E i \in 1 .. (b - a + 1) : Block(a, b)[i].m = m
  <1>1. PICK n, s : n = b - a + 1 /\ s = Block(a, b)
    OBVIOUS
  <1>2. n \in Nat /\ s = [i \in 1 .. n |-> [m |-> a + i - 1, v |-> ver[a + i - 1]]]
    BY <1>1 DEF Block
  <1>3. \A i \in 1 .. n : a + i - 1 \in 1 .. total
    BY <1>1 DEF Counted
  <1>4. \A m \in 1 .. total : ver[m] \in Nat /\ ver[m] > 0
    BY WindowNumbers DEF Counted
  <1>5. ASSUME NEW i \in 1 .. n PROVE s[i] \in EntrySet(total, ver)
    <2>1. s[i] = [m |-> a + i - 1, v |-> ver[a + i - 1]]
      BY <1>2
    <2>2. ver[a + i - 1] \in 1 .. ver[a + i - 1] /\ ver[a + i - 1] \in Nat
      BY <1>3, <1>4
    <2> QED
      BY <1>3, <2>1, <2>2 DEF EntrySet
  <1>6. s \in Seq(EntrySet(total, ver))
    <2>1. s = [i \in 1 .. n |-> s[i]]
      BY <1>2
    <2> QED
      BY <1>2, <1>5, <2>1, MakesSeq
  <1>7. \A i \in 1 .. n : s[i].m = a + i - 1 /\ s[i].v = ver[s[i].m]
    BY <1>2
  <1>8. ASSUME NEW m \in a .. b PROVE \E i \in 1 .. n : s[i].m = m
    <2>1. m - a + 1 \in 1 .. n
      BY <1>1
    <2>2. s[m - a + 1].m = m
      BY <1>7, <2>1
    <2> QED
      BY <2>1, <2>2
  <1>9. DOMAIN s = 1 .. n
    BY <1>2
  <1> QED
    BY <1>1, <1>3, <1>6, <1>7, <1>8, <1>9

PageOf(a, b) == [items |-> Block(a, b), older |-> IF a > 1 THEN a ELSE 0]
Current(ps)  == \A e \in Window!Entries(ps) : e.m > 0 /\ e.v = ver[e.m]

LEMMA OneBlock ==
    ASSUME Counted, NEW a \in Nat, a > 0, NEW b \in Int, a <= b \/ (a = 1 /\ b = 0), b <= total,
           NEW ps, ps = <<PageOf(a, b)>>
    PROVE  Fits(ps, total, ver) /\ Len(ps) = 1 /\ Real(ps) = a .. b /\ Piece(ps) /\ Current(ps)
  <1>0. a <= b + 1
    OBVIOUS
  <1>1. PICK n, s : n = b - a + 1 /\ s = Block(a, b)
    OBVIOUS
  <1>2. /\ s \in Seq(EntrySet(total, ver)) /\ DOMAIN s = 1 .. n /\ n \in Nat
        /\ \A i \in 1 .. n : s[i].m = a + i - 1 /\ s[i].m \in 1 .. total /\ s[i].v = ver[s[i].m]
        /\ \A m \in a .. b : \E i \in 1 .. n : s[i].m = m
    <2>1. /\ Block(a, b) \in Seq(EntrySet(total, ver)) /\ DOMAIN Block(a, b) = 1 .. (b - a + 1)
          /\ \A i \in 1 .. (b - a + 1) : /\ Block(a, b)[i].m = a + i - 1 /\ a + i - 1 \in 1 .. total
                                         /\ Block(a, b)[i].v = ver[Block(a, b)[i].m]
          /\ \A m \in a .. b : \E i \in 1 .. (b - a + 1) : Block(a, b)[i].m = m
      BY <1>0, BlockSound
    <2>2. n \in Nat
      BY <1>0, <1>1
    <2>3. /\ s \in Seq(EntrySet(total, ver)) /\ DOMAIN s = 1 .. n
          /\ \A i \in 1 .. n : s[i].m = a + i - 1 /\ a + i - 1 \in 1 .. total /\ s[i].v = ver[s[i].m]
          /\ \A m \in a .. b : \E i \in 1 .. n : s[i].m = m
      BY <1>1, <2>1, Zenon
    <2> QED
      BY <2>2, <2>3
  <1>3. ps = <<[items |-> s, older |-> IF a > 1 THEN a ELSE 0]>>
    BY <1>1 DEF PageOf
  <1>4. /\ DOMAIN ps = {1} /\ Len(ps) = 1 /\ ps[1].items = s /\ ps[1].older = (IF a > 1 THEN a ELSE 0)
        /\ ps[1] = [items |-> ps[1].items, older |-> ps[1].older]
    BY <1>3
  <1>5. Fits(ps, total, ver)
    <2>1. ps[1].older \in 0 .. total
      BY <1>0, <1>4 DEF Counted
    <2>2. ps[1] \in PageSet(total, ver)
      BY <1>2, <1>4, <2>1, MakesPage
    <2>3. ps \in [1 .. 1 -> PageSet(total, ver)]
      <3>1. PICK D : D = PageSet(total, ver)
        OBVIOUS
      <3>2. ps[1] \in D /\ ps = <<ps[1]>>
        BY <1>3, <2>2, <3>1
      <3>3. ps \in [1 .. 1 -> D]
        BY <3>2
      <3> QED
        BY <3>1, <3>3
    <2>4. 1 \in Nat /\ 1 > 0
      OBVIOUS
    <2> QED
      BY <2>3, <2>4, MakesPages, Zenon
  <1>6. \A m : m \in Real(ps) <=> \E i \in 1 .. n : m = s[i].m /\ s[i].m > 0
    <2>1. 1 \in DOMAIN ps /\ \A p \in DOMAIN ps : p = 1
      BY <1>4
    <2>2. ASSUME NEW m \in Real(ps) PROVE \E i \in 1 .. n : m = s[i].m /\ s[i].m > 0
      <3>1. PICK p \in DOMAIN ps : \E i \in DOMAIN ps[p].items : m = ps[p].items[i].m /\ ps[p].items[i].m > 0
        BY RealOf
      <3>2. ps[p].items = s
        BY <1>4, <2>1
      <3> QED
        BY <1>2, <3>1, <3>2
    <2>3. ASSUME NEW i \in 1 .. n, s[i].m > 0 PROVE s[i].m \in Real(ps)
      <3>1. i \in DOMAIN ps[1].items /\ ps[1].items[i] = s[i]
        BY <1>2, <1>4
      <3> QED
        BY <2>1, <2>3, <3>1, RealOf
    <2> QED
      BY <2>2, <2>3
  <1>7. Real(ps) = a .. b
    <2>1. ASSUME NEW m \in Real(ps) PROVE m \in a .. b
      <3>1. PICK i \in 1 .. n : m = s[i].m
        BY <1>6
      <3>2. m = a + i - 1
        BY <1>2, <3>1
      <3> QED
        BY <1>1, <3>2
    <2>2. ASSUME NEW m \in a .. b PROVE m \in Real(ps)
      <3>1. PICK i \in 1 .. n : s[i].m = m
        BY <1>2
      <3>2. m > 0
        OBVIOUS
      <3> QED
        BY <1>6, <3>1, <3>2
    <2> QED
      BY <2>1, <2>2
  <1>8. Current(ps)
    <2> SUFFICES ASSUME NEW e \in Window!Entries(ps) PROVE e.m > 0 /\ e.v = ver[e.m]
      BY DEF Current
    <2>1. PICK p \in DOMAIN ps : \E i \in DOMAIN ps[p].items : e = ps[p].items[i]
      BY EntriesOf
    <2>2. PICK i \in 1 .. n : e = s[i]
      BY <1>2, <1>4, <2>1
    <2>3. e.m \in 1 .. total /\ e.v = ver[e.m]
      BY <1>2, <2>2
    <2> QED
      BY <2>3
  <1>9. InPlace(ps)
    <2> SUFFICES ASSUME NEW p \in DOMAIN ps, NEW q \in DOMAIN ps, NEW i \in DOMAIN ps[p].items,
                        NEW j \in DOMAIN ps[q].items, p > q \/ (p = q /\ i < j)
                 PROVE  ps[p].items[i].m < ps[q].items[j].m
      BY DEF InPlace
    <2>1. i \in 1 .. n /\ j \in 1 .. n /\ i < j /\ ps[p].items[i] = s[i] /\ ps[q].items[j] = s[j]
      BY <1>2, <1>4
    <2>2. s[i].m = a + i - 1 /\ s[j].m = a + j - 1
      BY <1>2, <2>1
    <2> QED
      BY <2>1, <2>2
  <1>10. Unbroken(ps)
    BY <1>7 DEF Unbroken
  <1>11. Opens(ps, ps[Len(ps)].older)
    BY <1>4, <1>7 DEF Opens
  <1>12. Topped(ps)
    BY <1>2, <1>4, <1>6 DEF Topped
  <1> QED
    BY <1>4, <1>5, <1>7, <1>8, <1>9, <1>10, <1>11, <1>12 DEF Piece

\* A page for a .. b has been added to ps.
Extended(w, ps, a, b) ==
    /\ DOMAIN w = 1 .. Len(ps) + 1 /\ Len(w) = Len(ps) + 1
    /\ \A p \in 1 .. Len(ps) : w[p] = ps[p]
    /\ w[Len(ps) + 1] = PageOf(a, b)

LEMMA PageBelow ==
    ASSUME Counted, NEW ps, Fits(ps, total, ver),
           NEW a \in Nat, a > 0, NEW b \in Int, a <= b + 1, b <= total,
           NEW w, Extended(w, ps, a, b)
    PROVE  /\ \A x \in Window!Entries(w) : x \in Window!Entries(ps) \/ (x.m > 0 /\ x.v = ver[x.m])
           /\ \A m : m \in Real(w) <=> m \in Real(ps) \/ m \in a .. b
           /\ Piece(ps) /\ ps[Len(ps)].older = b + 1 /\ a <= b => Piece(w)
  <1>0. a \in Nat /\ a > 0 /\ b \in Int /\ a <= b + 1
    OBVIOUS
  <1>1. PICK n : n = Len(ps)
    OBVIOUS
  <1>2. /\ n \in Nat /\ n > 0 /\ DOMAIN ps = 1 .. n
        /\ \A p \in 1 .. n : /\ ps[p] = [items |-> ps[p].items, older |-> ps[p].older] /\ ps[p].older \in 0 .. total
                             /\ ps[p].items \in Seq(EntrySet(total, ver)) /\ DOMAIN ps[p].items = 1 .. Len(ps[p].items)
                             /\ Len(ps[p].items) \in Nat
                             /\ \A i \in DOMAIN ps[p].items : ps[p].items[i] \in EntrySet(total, ver)
    BY <1>1, FitsMeans
  <1>3. PICK z, s : z = b - a + 1 /\ s = Block(a, b)
    OBVIOUS
  <1>9. /\ DOMAIN s = 1 .. z
        /\ \A i \in 1 .. z : s[i].m = a + i - 1 /\ a + i - 1 \in 1 .. total /\ s[i].v = ver[s[i].m]
        /\ \A m \in a .. b : \E i \in 1 .. z : s[i].m = m
    <2>1. /\ DOMAIN Block(a, b) = 1 .. (b - a + 1)
          /\ \A i \in 1 .. (b - a + 1) : /\ Block(a, b)[i].m = a + i - 1 /\ a + i - 1 \in 1 .. total
                                         /\ Block(a, b)[i].v = ver[Block(a, b)[i].m]
          /\ \A m \in a .. b : \E i \in 1 .. (b - a + 1) : Block(a, b)[i].m = m
      BY BlockSound
    <2> QED
      BY <1>3, <2>1, Zenon
  <1>10. PICK g : g = [items |-> s, older |-> IF a > 1 THEN a ELSE 0]
    OBVIOUS
  <1>11. g.items = s /\ g.older = IF a > 1 THEN a ELSE 0
    BY <1>10
  <1>12. Len(w) = n + 1 /\ DOMAIN w = 1 .. n + 1 /\ w[n + 1] = g /\ \A p \in 1 .. n : w[p] = ps[p]
    BY <1>1, <1>3, <1>10 DEF Extended, PageOf
  <1>14. ASSUME NEW p \in DOMAIN w, NEW i \in DOMAIN w[p].items
         PROVE  \/ p \in 1 .. n /\ i \in DOMAIN ps[p].items /\ w[p] = ps[p]
                \/ p = n + 1 /\ i \in 1 .. z /\ w[p].items = s
    <2>1. CASE p \in 1 .. n
      BY <1>12, <2>1
    <2>2. CASE p = n + 1
      BY <1>9, <1>11, <1>12, <2>2
    <2> QED
      BY <1>2, <1>12, <2>1, <2>2
  <1>15. ASSUME NEW x \in Window!Entries(w) PROVE x \in Window!Entries(ps) \/ (x.m > 0 /\ x.v = ver[x.m])
    <2>1. PICK p \in DOMAIN w : \E i \in DOMAIN w[p].items : x = w[p].items[i]
      BY EntriesOf
    <2>2. PICK i \in DOMAIN w[p].items : x = w[p].items[i]
      BY <2>1
    <2>3. CASE p \in 1 .. n /\ i \in DOMAIN ps[p].items /\ w[p] = ps[p]
      BY <1>2, <2>2, <2>3, EntriesOf
    <2>4. CASE p = n + 1 /\ i \in 1 .. z /\ w[p].items = s
      <3>1. s[i].m \in 1 .. total /\ s[i].v = ver[s[i].m]
        BY <1>9, <2>4
      <3> QED
        BY <2>2, <2>4, <3>1
    <2> QED
      BY <1>14, <2>3, <2>4
  <1>16. ASSUME NEW m PROVE m \in Real(w) <=> m \in Real(ps) \/ m \in a .. b
    <2>1. ASSUME m \in Real(w) PROVE m \in Real(ps) \/ m \in a .. b
      <3>1. PICK p \in DOMAIN w : \E i \in DOMAIN w[p].items : m = w[p].items[i].m /\ w[p].items[i].m > 0
        BY <2>1, RealOf
      <3>2. PICK i \in DOMAIN w[p].items : m = w[p].items[i].m /\ w[p].items[i].m > 0
        BY <3>1
      <3>3. CASE p \in 1 .. n /\ i \in DOMAIN ps[p].items /\ w[p] = ps[p]
        BY <1>2, <3>2, <3>3, RealOf
      <3>4. CASE p = n + 1 /\ i \in 1 .. z /\ w[p].items = s
        <4>1. m = a + i - 1
          BY <1>9, <3>2, <3>4
        <4> QED
          BY <1>0, <1>3, <3>4, <4>1
      <3> QED
        BY <1>14, <3>3, <3>4
    <2>2. ASSUME m \in Real(ps) PROVE m \in Real(w)
      <3>1. PICK p \in DOMAIN ps : \E i \in DOMAIN ps[p].items : m = ps[p].items[i].m /\ ps[p].items[i].m > 0
        BY <2>2, RealOf
      <3>2. p \in DOMAIN w /\ w[p] = ps[p]
        BY <1>2, <1>12, <3>1
      <3> QED
        BY <3>1, <3>2, RealOf
    <2>3. ASSUME m \in a .. b PROVE m \in Real(w)
      <3>1. PICK i \in 1 .. z : s[i].m = m
        BY <1>9, <2>3
      <3>2. n + 1 \in DOMAIN w /\ w[n + 1].items = s
        BY <1>2, <1>11, <1>12
      <3>3. i \in DOMAIN w[n + 1].items /\ m = w[n + 1].items[i].m /\ m > 0
        BY <1>0, <1>9, <2>3, <3>1, <3>2
      <3> QED
        BY <3>2, <3>3, RealOf
    <2> QED
      BY <2>1, <2>2, <2>3
  <1>17. ASSUME Piece(ps), ps[n].older = b + 1, a <= b PROVE Piece(w)
    <2>0. PICK o : o = b + 1
      OBVIOUS
    <2>01. o \in Int /\ o > 1 /\ b < o /\ o - 1 = b
      BY <1>17, <2>0
    <2>1. o > 1 /\ o \in Real(ps) /\ \A m \in Real(ps) : o <= m
      BY <1>1, <1>17, <2>0, <2>01 DEF Piece, Opens
    <2>2. \A m \in Real(ps) : m \in Int
      <3> SUFFICES ASSUME NEW m \in Real(ps) PROVE m \in Int
        OBVIOUS
      <3>1. \E x \in EntrySet(total, ver) : m = x.m
        BY <1>2, RealOf
      <3> QED
        BY <3>1 DEF EntrySet
    <2>3. InPlace(w)
      <3> SUFFICES ASSUME NEW p \in DOMAIN w, NEW q \in DOMAIN w, NEW i \in DOMAIN w[p].items,
                          NEW j \in DOMAIN w[q].items, p > q \/ (p = q /\ i < j),
                          w[p].items[i].m > 0, w[q].items[j].m > 0
                   PROVE  w[p].items[i].m < w[q].items[j].m
        BY DEF InPlace
      <3>1. CASE p \in 1 .. n /\ i \in DOMAIN ps[p].items /\ w[p] = ps[p]
        <4>1. q \in 1 .. n
          BY <1>2, <1>12, <3>1
        <4>2. w[q] = ps[q]
          BY <1>12, <4>1
        <4> QED
          BY <1>2, <1>17, <3>1, <4>1, <4>2 DEF Piece, InPlace
      <3>2. CASE p = n + 1 /\ i \in 1 .. z /\ w[p].items = s
        <4>1. i \in Int /\ w[p].items[i].m = a + i - 1 /\ w[p].items[i].m <= b /\ w[p].items[i].m \in Int
          <5>1. i \in Int /\ a + i - 1 <= b
            BY <1>0, <1>3, <3>2
          <5>2. w[p].items[i].m = a + i - 1
            BY <1>9, <3>2
          <5> QED
            BY <1>0, <5>1, <5>2
        <4>2. CASE q \in 1 .. n /\ j \in DOMAIN ps[q].items /\ w[q] = ps[q]
          <5>1. w[q].items[j].m \in Real(ps)
            BY <1>2, <4>2, RealOf
          <5>2. o <= w[q].items[j].m /\ w[q].items[j].m \in Int
            BY <2>1, <2>2, <5>1
          <5> QED
            BY <2>01, <4>1, <5>2
        <4>3. CASE q = n + 1 /\ j \in 1 .. z /\ w[q].items = s
          <5>1. j \in Int /\ w[q].items[j].m = a + j - 1 /\ i < j
            BY <1>2, <1>9, <3>2, <4>3
          <5> QED
            BY <1>0, <4>1, <5>1
        <4> QED
          BY <1>14, <4>2, <4>3
      <3> QED
        BY <1>14, <3>1, <3>2
    <2>4. Unbroken(w)
      <3> SUFFICES ASSUME NEW c \in Real(w), NEW d \in Real(w), NEW m \in c .. d PROVE m \in Real(w)
        BY DEF Unbroken
      <3>1. c \in Int /\ d \in Int /\ m \in Int
        BY <1>16, <2>2
      <3>2. CASE c \in Real(ps) /\ d \in Real(ps)
        BY <1>16, <1>17, <3>2 DEF Piece, Unbroken
      <3>3. CASE c \in a .. b /\ d \in a .. b
        BY <1>0, <1>16, <3>1, <3>3
      <3>4. CASE c \in a .. b /\ d \in Real(ps)
        <4>1. CASE m < o
          BY <2>01, <1>16, <3>1, <3>4, <4>1
        <4>2. CASE m >= o
          <5>1. m \in o .. d
            BY <2>01, <3>1, <3>4, <4>2
          <5> QED
            BY <1>16, <1>17, <2>1, <3>4, <5>1 DEF Piece, Unbroken
        <4> QED
          BY <2>01, <3>1, <4>1, <4>2
      <3>5. CASE c \in Real(ps) /\ d \in a .. b
        <4>1. o <= c /\ d < o
          BY <2>01, <2>1, <3>5
        <4> QED
          BY <2>01, <3>1, <4>1
      <3> QED
        BY <1>16, <3>2, <3>3, <3>4, <3>5
    <2>5. Opens(w, g.older)
      <3>1. a \in a .. b /\ \A m \in Real(w) : a <= m
        <4>1. a <= b /\ b < o
          BY <1>17, <2>01
        <4> QED
          BY <2>01, <1>0, <1>16, <2>1, <2>2, <4>1
      <3> QED
        BY <1>0, <1>11, <1>16, <3>1 DEF Opens
    <2>6. Topped(w)
      <3>1. PICK i \in DOMAIN ps[1].items : ps[1].items[i].m > 0
        BY <1>17, <2>1 DEF Piece, Topped
      <3>2. w[1] = ps[1]
        BY <1>2, <1>12
      <3> QED
        BY <3>1, <3>2 DEF Topped
    <2> QED
      BY <1>12, <2>3, <2>4, <2>5, <2>6 DEF Piece
  <1> QED
    BY <1>1, <1>15, <1>16, <1>17

LEMMA OlderKeeps ==
    ASSUME Counted, NEW ps, Fits(ps, total, ver), NEW w,
           ps[Len(ps)].older # 0, w = Append(ps, Window!Before(ps[Len(ps)].older))
    PROVE  /\ Fits(w, total, ver)
           /\ \A x \in Window!Entries(w) : x \in Window!Entries(ps) \/ (x.m > 0 /\ x.v = ver[x.m])
           /\ \A m \in Real(ps) : m \in Real(w)
           /\ Piece(ps) => Piece(w)
  <1>1. PICK n, o : n = Len(ps) /\ o = ps[n].older
    OBVIOUS
  <1>2. n \in Nat /\ n > 0 /\ DOMAIN ps = 1 .. n /\ \A p \in 1 .. n : ps[p].older \in 0 .. total
    <2>1. Len(ps) \in Nat /\ Len(ps) > 0 /\ DOMAIN ps = 1 .. Len(ps)
          /\ \A p \in DOMAIN ps : ps[p].older \in 0 .. total
      BY FitsMeans
    <2> QED
      BY <1>1, <2>1
  <1>3. total \in Nat /\ o \in 1 .. total
    <2>1. n \in 1 .. n /\ total \in Nat
      BY <1>2 DEF Counted
    <2>2. o \in 0 .. total /\ o # 0
      BY <1>1, <1>2, <2>1
    <2> QED
      BY <2>1, <2>2
  <1>4. PICK a, b : a = Foot(o) /\ b = o - 1
    OBVIOUS
  <1>5. a \in Nat /\ a > 0 /\ b \in Int /\ a <= b + 1 /\ b <= total /\ (o > 1 => a <= b)
    <2>1. WindowSize \in Nat /\ WindowSize > 0 /\ o \in Int /\ o >= 1 /\ o <= total /\ total \in Int
      BY <1>3, WindowNumbers
    <2>2. a = IF o > WindowSize THEN o - WindowSize ELSE 1
      BY <1>4 DEF Foot
    <2> QED
      BY <1>4, <2>1, <2>2
  <1>6. Window!Before(o) = PageOf(a, b)
    <2>1. o \in 1 .. total + 1
      BY <1>3
    <2> QED
      BY <1>3, <1>4, <2>1, BeforeIs DEF PageOf
  <1>7. PageOf(a, b) \in PageSet(total, ver)
    <2>1. PICK g, s : g = PageOf(a, b) /\ s = Block(a, b)
      OBVIOUS
    <2>2. g = [items |-> s, older |-> IF a > 1 THEN a ELSE 0]
      BY <2>1 DEF PageOf
    <2>3. g = [items |-> g.items, older |-> g.older] /\ g.items = s /\ g.older = IF a > 1 THEN a ELSE 0
      BY <2>2
    <2>4. s \in Seq(EntrySet(total, ver))
      BY <1>5, <2>1, BlockSound
    <2>5. g.older \in 0 .. total
      BY <1>3, <1>4, <1>5, <2>3
    <2> QED
      BY <2>1, <2>3, <2>4, <2>5, MakesPage
  <1>8. /\ w \in Seq(PageSet(total, ver)) /\ Len(w) = n + 1 /\ DOMAIN w = 1 .. n + 1
        /\ w[n + 1] = PageOf(a, b) /\ \A p \in 1 .. n : w[p] = ps[p]
    <2>1. PICK D, g : D = PageSet(total, ver) /\ g = PageOf(a, b)
      OBVIOUS
    <2>2. ps \in Seq(D) /\ g \in D /\ w = Append(ps, g)
      BY <1>1, <1>6, <1>7, <2>1 DEF Fits
    <2>3. /\ w \in Seq(D) /\ Len(w) = n + 1 /\ DOMAIN w = 1 .. n + 1
          /\ w[n + 1] = g /\ \A p \in 1 .. n : w[p] = ps[p]
      BY <1>1, <2>2
    <2> QED
      BY <2>1, <2>3
  <1>9. Extended(w, ps, a, b)
    BY <1>1, <1>8 DEF Extended
  <1>10. Fits(w, total, ver)
    BY <1>2, <1>8 DEF Fits
  <1>11. /\ \A x \in Window!Entries(w) : x \in Window!Entries(ps) \/ (x.m > 0 /\ x.v = ver[x.m])
         /\ \A m : m \in Real(w) <=> m \in Real(ps) \/ m \in a .. b
         /\ Piece(ps) /\ ps[Len(ps)].older = b + 1 /\ a <= b => Piece(w)
    BY <1>5, <1>9, PageBelow
  <1>12. Piece(ps) => Piece(w)
    <2>1. Piece(ps) => o > 1
      BY <1>1 DEF Piece, Opens
    <2>2. ps[Len(ps)].older = b + 1
      BY <1>1, <1>3, <1>4
    <2> QED
      BY <1>5, <1>11, <2>1, <2>2
  <1> QED
    BY <1>10, <1>11, <1>12

LEMMA Climbs ==
    ASSUME NEW S, 1 \in S, \A n \in Nat \ {0} : n \in S => n + 1 \in S
    PROVE  \A n \in Nat \ {0} : n \in S
  <1> SUFFICES ASSUME NEW n \in Nat \ {0}, n \notin S PROVE FALSE
    OBVIOUS
  <1>1. PICK B : B = {k \in 1 .. n : k \notin S}
    OBVIOUS
  <1>2. B \in SUBSET (1 .. n) /\ n \in B
    BY <1>1
  <1>3. PICK h : h = [k \in B |-> k]
    OBVIOUS
  <1>4. Ranked(h, B)
    <2>1. IsFiniteSet(1 .. n)
      BY FS_Interval
    <2>2. IsFiniteSet(B)
      BY <1>2, <2>1, FS_Subset
    <2> QED
      BY <1>2, <1>3, <2>2 DEF Ranked
  <1>5. PICK s \in B : \A o \in B : h[s] <= h[o]
    BY <1>2, <1>4, Extremes
  <1>6. \A o \in B : s <= o
    BY <1>3, <1>5
  <1>7. s \in 1 .. n /\ s \notin S
    BY <1>1
  <1>8. s # 1
    BY <1>7
  <1>9. s - 1 \in 1 .. n /\ s - 1 \notin B
    BY <1>2, <1>6, <1>7, <1>8
  <1>10. s - 1 \in S /\ s - 1 \in Nat \ {0}
    BY <1>1, <1>9
  <1>11. (s - 1) + 1 \in S
    BY <1>10
  <1> QED
    BY <1>7, <1>11

\* The pages of a reload, one after the other.
FirstPages == <<Window!Before(total + 1)>>
Further(r) == IF r[Len(r)].older = 0 THEN r ELSE Append(r, Window!Before(r[Len(r)].older))
Chain(f, n) ==
    /\ DOMAIN f = 1 .. n /\ f[1] = FirstPages
    /\ \A k \in 1 .. n : k > 1 => f[k] = Further(f[k - 1])

LEMMA ChainsThere == \A n \in Nat \ {0} : \E f : Chain(f, n)
  <1>1. PICK S : S = {n \in Nat \ {0} : \E f : Chain(f, n)}
    OBVIOUS
  <1>2. 1 \in S
    <2>1. PICK f : f = [k \in 1 .. 1 |-> FirstPages]
      OBVIOUS
    <2>2. Chain(f, 1)
      BY <2>1 DEF Chain
    <2> QED
      BY <1>1, <2>2
  <1>3. ASSUME NEW n \in Nat \ {0}, n \in S PROVE n + 1 \in S
    <2>1. PICK f : Chain(f, n)
      BY <1>1, <1>3
    <2>2. PICK g : g = [k \in 1 .. n + 1 |-> IF k = n + 1 THEN Further(f[n]) ELSE f[k]]
      OBVIOUS
    <2>3. DOMAIN g = 1 .. n + 1 /\ g[n + 1] = Further(f[n]) /\ \A k \in 1 .. n : g[k] = f[k]
      BY <2>2
    <2>4. g[1] = FirstPages
      BY <2>1, <2>3 DEF Chain
    <2>5. ASSUME NEW k \in 1 .. n + 1, k > 1 PROVE g[k] = Further(g[k - 1])
      <3>1. k - 1 \in 1 .. n
        BY <2>5
      <3>2. g[k - 1] = f[k - 1]
        BY <2>3, <3>1
      <3>3. CASE k = n + 1
        <4>1. k - 1 = n
          BY <3>3
        <4> QED
          BY <2>3, <3>2, <3>3, <4>1
      <3>4. CASE k \in 1 .. n
        BY <2>1, <2>3, <2>5, <3>2, <3>4 DEF Chain
      <3> QED
        BY <3>3, <3>4
    <2>6. Chain(g, n + 1)
      BY <2>3, <2>4, <2>5 DEF Chain
    <2> QED
      BY <1>1, <2>6
  <1>4. \A n \in Nat \ {0} : n \in S
    BY <1>2, <1>3, Climbs
  <1> QED
    BY <1>1, <1>4

LEMMA ChainsAgree ==
    ASSUME NEW m \in Nat \ {0}, NEW n \in Nat \ {0}, NEW f, NEW g, Chain(f, m), Chain(g, n)
    PROVE  \A k \in Nat \ {0} : k <= m /\ k <= n => f[k] = g[k]
  <1>1. PICK S : S = {k \in Nat \ {0} : k <= m /\ k <= n => f[k] = g[k]}
    OBVIOUS
  <1>2. 1 \in S
    BY <1>1 DEF Chain
  <1>3. ASSUME NEW k \in Nat \ {0}, k \in S PROVE k + 1 \in S
    <2>1. ASSUME k + 1 <= m, k + 1 <= n PROVE f[k + 1] = g[k + 1]
      <3>1. f[k] = g[k]
        BY <1>1, <1>3, <2>1
      <3>2. PICK j : j = k + 1
        OBVIOUS
      <3>3. j \in 1 .. m /\ j \in 1 .. n /\ j > 1 /\ j - 1 = k
        BY <2>1, <3>2
      <3>4. f[j] = Further(f[j - 1]) /\ g[j] = Further(g[j - 1])
        BY <3>3 DEF Chain
      <3> QED
        BY <3>1, <3>2, <3>3, <3>4
    <2> QED
      BY <1>1, <2>1
  <1>4. \A k \in Nat \ {0} : k \in S
    BY <1>2, <1>3, Climbs
  <1> QED
    BY <1>1, <1>4

LEMMA ReloadIs ==
    \A n \in Nat : Window!Reload[n] = IF n <= 1 THEN FirstPages ELSE Further(Window!Reload[n - 1])
  <1>1. PICK c : c = [n \in Nat |-> CHOOSE f : Chain(f, n)]
    OBVIOUS
  <1>2. \A n \in Nat \ {0} : Chain(c[n], n)
    BY <1>1, ChainsThere
  <1>3. PICK h : h = [n \in Nat |-> IF n <= 1 THEN FirstPages ELSE c[n][n]]
    OBVIOUS
  <1>4. ASSUME NEW n \in Nat, n > 1 PROVE h[n] = Further(h[n - 1])
    <2>1. n \in 1 .. n /\ n \in Nat \ {0} /\ n - 1 \in Nat \ {0} /\ n - 1 <= n /\ n - 1 <= n - 1
      BY <1>4
    <2>2. c[n][n] = Further(c[n][n - 1])
      BY <1>2, <1>4, <2>1 DEF Chain
    <2>3. c[n][n - 1] = c[n - 1][n - 1]
      BY <1>2, <2>1, ChainsAgree
    <2>4. h[n - 1] = c[n - 1][n - 1]
      <3>1. CASE n - 1 > 1
        BY <1>3, <2>1, <3>1
      <3>2. CASE n - 1 = 1
        <4>1. h[n - 1] = FirstPages
          BY <1>3, <3>2
        <4>2. c[1][1] = FirstPages
          BY <1>2 DEF Chain
        <4> QED
          BY <3>2, <4>1, <4>2
      <3> QED
        BY <2>1, <3>1, <3>2
    <2> QED
      BY <1>3, <1>4, <2>2, <2>3, <2>4
  <1>5. h = [n \in Nat |-> IF n <= 1 THEN <<Window!Before(total + 1)>>
                           ELSE LET r == h[n - 1]  last == r[Len(r)].older
                                IN  IF last = 0 THEN r ELSE Append(r, Window!Before(last))]
    <2>1. ASSUME NEW n \in Nat
          PROVE  h[n] = IF n <= 1 THEN <<Window!Before(total + 1)>>
                        ELSE LET r == h[n - 1]  last == r[Len(r)].older
                             IN  IF last = 0 THEN r ELSE Append(r, Window!Before(last))
      <3>1. CASE n <= 1
        BY <1>3, <3>1 DEF FirstPages
      <3>2. CASE n > 1
        <4>1. h[n] = Further(h[n - 1])
          BY <1>4, <3>2
        <4>2. ~(n <= 1)
          BY <3>2
        <4> QED
          BY <4>1, <4>2, Zenon DEF Further
      <3> QED
        BY <3>1, <3>2
    <2> QED
      BY <1>3, <2>1, Zenon
  <1>6. Window!Reload = [n \in Nat |-> IF n <= 1 THEN <<Window!Before(total + 1)>>
                           ELSE LET r == Window!Reload[n - 1]  last == r[Len(r)].older
                                IN  IF last = 0 THEN r ELSE Append(r, Window!Before(last))]
    BY <1>5, Zenon DEF Window!Reload
  <1> SUFFICES ASSUME NEW n \in Nat
               PROVE  Window!Reload[n] = IF n <= 1 THEN FirstPages ELSE Further(Window!Reload[n - 1])
    OBVIOUS
  <1>7. Window!Reload[n] = IF n <= 1 THEN <<Window!Before(total + 1)>>
                           ELSE LET r == Window!Reload[n - 1]  last == r[Len(r)].older
                                IN  IF last = 0 THEN r ELSE Append(r, Window!Before(last))
    BY <1>6, Zenon
  <1> QED
    BY <1>7, Zenon DEF FirstPages, Further

Whole(ps) ==
    Fits(ps, total, ver) /\ Piece(ps) /\ Current(ps) /\ (total > 0 => total \in Real(ps))

LEMMA ReloadWhole ==
    ASSUME Counted, NEW n \in Nat \ {0}
    PROVE  Whole(Window!Reload[n])
  <1>1. PICK S : S = {k \in Nat \ {0} : Whole(Window!Reload[k])}
    OBVIOUS
  <1>2. 1 \in S
    <2>0. total \in Nat /\ WindowSize \in Nat /\ WindowSize > 0
      BY WindowNumbers DEF Counted
    <2>1. PICK a, c : c = total + 1 /\ a = Foot(c)
      OBVIOUS
    <2>2. a \in Nat /\ a > 0 /\ (a <= total \/ (a = 1 /\ total = 0)) /\ c - 1 = total
      BY <2>0, <2>1 DEF Foot
    <2>3. Window!Before(c) = PageOf(a, total)
      <3>1. c \in 1 .. total + 1
        BY <2>0, <2>1
      <3> QED
        BY <2>0, <2>1, <2>2, <3>1, BeforeIs DEF PageOf
    <2>4. PICK ps : ps = <<PageOf(a, total)>>
      OBVIOUS
    <2>5. Window!Reload[1] = ps
      <3>1. 1 \in Nat /\ 1 <= 1
        OBVIOUS
      <3>2. Window!Reload[1] = FirstPages
        BY <3>1, ReloadIs
      <3> QED
        BY <2>1, <2>3, <2>4, <3>2 DEF FirstPages
    <2>6. Fits(ps, total, ver) /\ Real(ps) = a .. total /\ Piece(ps) /\ Current(ps)
      BY <2>0, <2>2, <2>4, OneBlock
    <2>7. total > 0 => total \in Real(ps)
      BY <2>0, <2>2, <2>6
    <2>8. Whole(ps)
      BY <2>6, <2>7 DEF Whole
    <2>9. 1 \in Nat \ {0} /\ Whole(Window!Reload[1])
      BY <2>5, <2>8
    <2> QED
      BY <1>1, <2>9
  <1>3. ASSUME NEW k \in Nat \ {0}, k \in S PROVE k + 1 \in S
    <2>1. PICK r : r = Window!Reload[k]
      OBVIOUS
    <2>2. Whole(r)
      BY <1>1, <1>3, <2>1
    <2>3. Window!Reload[k + 1] = Further(r)
      <3>1. k + 1 \in Nat /\ ~(k + 1 <= 1) /\ (k + 1) - 1 = k
        OBVIOUS
      <3> QED
        BY <2>1, <3>1, ReloadIs
    <2>4. Whole(Further(r))
      <3>1. CASE r[Len(r)].older = 0
        BY <2>2, <3>1 DEF Further
      <3>2. CASE r[Len(r)].older # 0
        <4>1. PICK w : w = Append(r, Window!Before(r[Len(r)].older))
          OBVIOUS
        <4>2. /\ Fits(w, total, ver)
              /\ \A x \in Window!Entries(w) : x \in Window!Entries(r) \/ (x.m > 0 /\ x.v = ver[x.m])
              /\ \A m \in Real(r) : m \in Real(w)
              /\ Piece(r) => Piece(w)
          BY <2>2, <3>2, <4>1, OlderKeeps DEF Whole
        <4>3. Current(w)
          BY <2>2, <4>2 DEF Whole, Current
        <4>4. Further(r) = w
          BY <3>2, <4>1 DEF Further
        <4> QED
          BY <2>2, <4>2, <4>3, <4>4 DEF Whole
      <3> QED
        BY <3>1, <3>2
    <2> QED
      BY <1>1, <2>3, <2>4
  <1>4. n \in S
    BY <1>2, <1>3, Climbs
  <1> QED
    BY <1>1, <1>4

-----------------------------------------------------------------------------
(* What the window knows, unless something odd has happened: what is shown *)
(* is current or something better is on its way, what is not shown yet is  *)
(* on its way too, and the only copy is that of the attempt pending.       *)

asking    == x5
attempt   == x9
connected == x13
failed    == x15
troubles  == x16
opening   == x17
USE DEF asking, attempt, connected, failed, troubles, opening

Kinds == {"stray", "late", "crossed", "missed"}

Better(b, rs, m, v)   == m \in b \/ \E q \in rs : q.by = 0 /\ q.m = m /\ q.v > v
Recent(ps, V, b, rs)   == \A e \in Window!Entries(ps) : e.m > 0 => e.v = V[e.m] \/ Better(b, rs, e.m, e.v)
Reaches(ps, c, b, rs) == \A m \in 1 .. c : (\A k \in Real(ps) : k < m) => Better(b, rs, m, 0)
Copied(ps, s)         == \A e \in Window!Entries(ps) : ~(e.m > 0) => s # 0 /\ e.m = -s
Good(ps, s, whole, c, V, b, rs) ==
    /\ Piece(ps) /\ Recent(ps, V, b, rs) /\ Copied(ps, s)
    /\ IF whole THEN Reaches(ps, c, b, rs) ELSE Real(ps) # {}

LoadRow(l, c, V) ==
    /\ l = [result |-> l.result, again |-> l.again, odd |-> l.odd]
    /\ Fits(l.result, c, V) /\ l.again \in BOOLEAN /\ l.odd \in SUBSET Kinds
ReplyRow(r, c, V, s) ==
    /\ r.m \in 1 .. c /\ r.v \in 1 .. V[r.m] /\ r.by \in 0 .. WindowAttempts
    /\ r.by # 0 => r.by = s

WindowTypes ==
    /\ total \in Nat /\ WindowOld <= total /\ total <= WindowMessages
    /\ ver \in [1 .. WindowMessages -> Nat \ {0}]
    /\ sending \in 0 .. WindowAttempts /\ attempt \in Nat
    /\ bus \in SUBSET (1 .. total) /\ odd \in SUBSET Kinds
    /\ Fits(pages, total, ver)
    /\ load # Window!None => LoadRow(load, total, ver)

\* An attempt has made one message at most; one answer to it is under way.
MadeOnce ==
    /\ made \in [1 .. WindowAttempts -> 0 .. total]
    /\ \A a, b \in 1 .. WindowAttempts : made[a] # 0 /\ made[a] = made[b] => a = b
    /\ mine = {made[a] : a \in {b \in 1 .. WindowAttempts : made[b] # 0}}
RepliesSound ==
    /\ \A r \in replies : ReplyRow(r, total, ver, sending)
    /\ \A r, q \in replies : r.by # 0 /\ q.by # 0 => r = q

PagesGood == odd = {} => Good(pages, sending, view = "latest", total, ver, bus, replies)
LoadGood  ==
    load # Window!None /\ load.odd = {} /\ (load.again \/ odd = {}) =>
        Good(load.result, IF load.again THEN 0 ELSE sending, load.again \/ view = "latest", total, ver, bus, replies)

\* A search result that is being opened shows the page it was read from.
AroundRow(o, c, V) ==
    /\ o = [m |-> o.m, result |-> o.result, odd |-> o.odd]
    /\ Fits(o.result, c, V) /\ o.odd \in SUBSET Kinds
AroundGood ==
    \A o \in opening : /\ AroundRow(o, total, ver)
                       /\ o.odd = {} => Good(o.result, 0, FALSE, total, ver, bus, replies)

WindowInv == WindowTypes /\ MadeOnce /\ RepliesSound /\ PagesGood /\ LoadGood /\ AroundGood

LEMMA EntrySetGrows ==
    ASSUME NEW c \in Nat, NEW d \in Nat, c <= d, NEW V, NEW W,
           \A m \in 1 .. c : V[m] \in Nat /\ W[m] \in Nat /\ V[m] <= W[m]
    PROVE  EntrySet(c, V) \subseteq EntrySet(d, W)
  BY DEF EntrySet

LEMMA FitsGrows ==
    ASSUME NEW c \in Nat, NEW d \in Nat, c <= d, NEW V, NEW W,
           \A m \in 1 .. c : V[m] \in Nat /\ W[m] \in Nat /\ V[m] <= W[m],
           NEW ps, Fits(ps, c, V)
    PROVE  Fits(ps, d, W)
  <1>1. PICK n : n = Len(ps)
    OBVIOUS
  <1>2. /\ n \in Nat /\ n > 0 /\ DOMAIN ps = 1 .. n
        /\ \A p \in 1 .. n : /\ ps[p] = [items |-> ps[p].items, older |-> ps[p].older] /\ ps[p].older \in 0 .. c
                             /\ ps[p].items \in Seq(EntrySet(c, V))
    BY <1>1, FitsMeans
  <1>3. EntrySet(c, V) \subseteq EntrySet(d, W)
    BY EntrySetGrows
  <1>4. ASSUME NEW p \in 1 .. n PROVE ps[p] \in PageSet(d, W)
    <2>1. PICK E, F, s : E = EntrySet(c, V) /\ F = EntrySet(d, W) /\ s = ps[p].items
      OBVIOUS
    <2>2. s \in Seq(E) /\ E \subseteq F
      BY <1>2, <1>3, <2>1
    <2>3. s \in Seq(F)
      BY <2>2
    <2>4. ps[p].older \in 0 .. d
      BY <1>2
    <2> QED
      BY <1>2, <2>1, <2>3, <2>4, MakesPage
  <1>5. ps \in [1 .. n -> PageSet(d, W)]
    <2>1. ps \in Seq(PageSet(c, V))
      BY DEF Fits
    <2>2. ps = [p \in 1 .. n |-> ps[p]]
      BY <1>2, <2>1
    <2> QED
      BY <1>4, <2>2, Zenon
  <1> QED
    BY <1>2, <1>5, MakesPages

LEMMA GoodStays ==
    ASSUME NEW ps, NEW s, NEW whole, NEW c \in Nat, NEW d \in Nat, c <= d, NEW V, NEW W,
           NEW b, NEW e, NEW rs, NEW ts, Fits(ps, c, V), Good(ps, s, whole, c, V, b, rs),
           \A m \in 1 .. c : V[m] \in Nat /\ V[m] > 0 /\ (W[m] = V[m] \/ m \in e),
           \A m \in (c + 1) .. d : m \in e,
           \A m \in 1 .. c : \A v \in Nat : v < V[m] /\ Better(b, rs, m, v) => Better(e, ts, m, v)
    PROVE  Good(ps, s, whole, d, W, e, ts)
  <1>1. Recent(ps, W, e, ts)
    <2> SUFFICES ASSUME NEW x \in Window!Entries(ps), x.m > 0
                 PROVE  x.v = W[x.m] \/ Better(e, ts, x.m, x.v)
      BY DEF Recent
    <2>1. x \in EntrySet(c, V)
      BY FitsMeans, EntriesOf
    <2>2. x.m \in 1 .. c /\ x.v \in 1 .. V[x.m]
      BY <2>1, WindowNumbers DEF EntrySet, Copying
    <2>3. x.v = V[x.m] \/ Better(b, rs, x.m, x.v)
      BY DEF Good, Recent
    <2>4. CASE x.v = V[x.m]
      BY <2>2, <2>4 DEF Better
    <2>5. CASE x.v # V[x.m]
      <3>1. x.v \in Nat /\ x.v < V[x.m]
        BY <2>2, <2>5
      <3> QED
        BY <2>2, <2>3, <2>5, <3>1
    <2> QED
      BY <2>4, <2>5
  <1>2. whole => Reaches(ps, d, e, ts)
    <2> SUFFICES ASSUME whole, NEW m \in 1 .. d, \A k \in Real(ps) : k < m PROVE Better(e, ts, m, 0)
      BY DEF Reaches
    <2>1. CASE m \in 1 .. c
      <3>1. Better(b, rs, m, 0)
        BY <2>1 DEF Good, Reaches
      <3>2. 0 \in Nat /\ 0 < V[m]
        BY <2>1
      <3> QED
        BY <2>1, <3>1, <3>2
    <2>2. CASE m \in (c + 1) .. d
      BY <2>2 DEF Better
    <2> QED
      BY <2>1, <2>2
  <1>3. ~whole => Real(ps) # {}
    BY DEF Good
  <1> QED
    BY <1>1, <1>2, <1>3 DEF Good

LEMMA NotNone ==
    ASSUME NEW l, NEW c, NEW V, LoadRow(l, c, V)
    PROVE  l # Window!None
  <1>1. Len(l.result) > 0
    BY DEF LoadRow, Fits
  <1>2. Window!None.result = <<>> /\ Len(<<>>) = 0
    BY DEF Window!None
  <1> QED
    BY <1>1, <1>2

LEMMA MarkedIs ==
    ASSUME NEW c, NEW V, load # Window!None => LoadRow(load, c, V), NEW S \in SUBSET Kinds,
           NEW l, l = Window!Marked(S)
    PROVE  /\ load = Window!None => l = Window!None
           /\ load # Window!None => /\ LoadRow(l, c, V) /\ l.result = load.result /\ l.again = load.again
                                    /\ l.odd = load.odd \cup S
  <1>1. load = Window!None => l = Window!None
    BY DEF Window!Marked, Window!Busy
  <1>2. ASSUME load # Window!None
        PROVE  /\ LoadRow(l, c, V) /\ l.result = load.result /\ l.again = load.again
               /\ l.odd = load.odd \cup S
    <2>1. load = [result |-> load.result, again |-> load.again, odd |-> load.odd]
      BY <1>2 DEF LoadRow
    <2>2. l = [load EXCEPT !.odd = load.odd \cup S]
      BY <1>2 DEF Window!Marked, Window!Busy
    <2>3. /\ l = [result |-> l.result, again |-> l.again, odd |-> l.odd]
          /\ l.result = load.result /\ l.again = load.again /\ l.odd = load.odd \cup S
      BY <2>1, <2>2
    <2>4. l.odd \in SUBSET Kinds
      BY <1>2, <2>3 DEF LoadRow
    <2> QED
      BY <1>2, <2>3, <2>4 DEF LoadRow
  <1> QED
    BY <1>1, <1>2

\* What a step notes: in the window, in the load and in the results being opened.
Noting(S) ==
    /\ S \in SUBSET Kinds /\ odd' = odd \cup S
    /\ load' = Window!Marked(S) \/ (S = {} /\ load' = load)
    /\ opening' = Window!Opened(S) \/ (S = {} /\ opening' = opening)

LEMMA LoadAfter ==
    ASSUME WindowTypes, NEW S, Noting(S)
    PROVE  /\ odd' \in SUBSET Kinds /\ (odd' = {} => odd = {} /\ S = {})
           /\ load' # Window!None =>
                 /\ load # Window!None /\ LoadRow(load', total, ver)
                 /\ load'.result = load.result /\ load'.again = load.again
                 /\ load'.odd = {} => load.odd = {} /\ S = {}
  <1>1. odd' \in SUBSET Kinds /\ (odd' = {} => odd = {} /\ S = {})
    BY DEF Noting, WindowTypes
  <1>2. CASE load' = Window!Marked(S)
    <2>1. /\ load = Window!None => load' = Window!None
          /\ load # Window!None => /\ LoadRow(load', total, ver) /\ load'.result = load.result
                                   /\ load'.again = load.again /\ load'.odd = load.odd \cup S
      <3>1. load # Window!None => LoadRow(load, total, ver)
        BY DEF WindowTypes
      <3>2. PICK l : l = load'
        OBVIOUS
      <3>3. S \in SUBSET Kinds /\ l = Window!Marked(S)
        BY <1>2, <3>2 DEF Noting
      <3> QED
        BY <3>1, <3>2, <3>3, MarkedIs
    <2> QED
      BY <1>1, <2>1
  <1>3. CASE S = {} /\ load' = load
    BY <1>1, <1>3 DEF WindowTypes
  <1> QED
    BY <1>2, <1>3 DEF Noting

LEMMA LoadRowGrows ==
    ASSUME NEW c \in Nat, NEW d \in Nat, c <= d, NEW V, NEW W,
           \A m \in 1 .. c : V[m] \in Nat /\ W[m] \in Nat /\ V[m] <= W[m],
           NEW l, LoadRow(l, c, V)
    PROVE  LoadRow(l, d, W)
  <1>1. Fits(l.result, d, W)
    <2>1. Fits(l.result, c, V)
      BY DEF LoadRow
    <2> QED
      BY <2>1, FitsGrows
  <1> QED
    BY <1>1 DEF LoadRow

\* The thread grows; whatever is new or changed is announced, or noted.
Growing(S) ==
    /\ total' \in Nat /\ total <= total' /\ total' <= WindowMessages
    /\ ver' \in [1 .. WindowMessages -> Nat \ {0}] /\ \A m \in 1 .. total : ver[m] <= ver'[m]
    /\ bus' \in SUBSET (1 .. total')
    /\ S = {} => /\ \A m \in 1 .. total : ver'[m] = ver[m] \/ m \in bus'
                 /\ \A m \in (total + 1) .. total' : m \in bus'
                 /\ \A m \in 1 .. total : \A v \in Nat :
                       v < ver[m] /\ Better(bus, replies, m, v) => Better(bus', replies', m, v)

LEMMA GrowingIs ==
    ASSUME WindowTypes, NEW S, Growing(S)
    PROVE  /\ total \in Nat /\ total' \in Nat /\ total <= total'
           /\ \A m \in 1 .. total : ver[m] \in Nat /\ ver[m] > 0 /\ ver'[m] \in Nat /\ ver[m] <= ver'[m]
  <1>0. PICK d, W : d = total' /\ W = ver'
    OBVIOUS
  <1>1. /\ total \in Nat /\ d \in Nat /\ total <= d /\ d <= WindowMessages
        /\ \A m \in 1 .. total : ver[m] \in Nat /\ ver[m] > 0 /\ W[m] \in Nat /\ ver[m] <= W[m]
    <2>1. WindowMessages \in Nat /\ total \in Nat /\ d \in Nat /\ total <= d /\ d <= WindowMessages
      BY <1>0, WindowNumbers DEF WindowTypes, Growing
    <2>2. \A m \in 1 .. total : m \in 1 .. WindowMessages
      BY <2>1
    <2>3. \A m \in 1 .. WindowMessages : ver[m] \in Nat /\ ver[m] > 0 /\ W[m] \in Nat
      BY <1>0 DEF WindowTypes, Growing
    <2>4. \A m \in 1 .. total : ver[m] <= W[m]
      BY <1>0 DEF Growing
    <2> QED
      BY <2>1, <2>2, <2>3, <2>4
  <1> QED
    BY <1>0, <1>1

LEMMA GoodGrows ==
    ASSUME WindowTypes, NEW S, S = {}, Growing(S), NEW ps, Fits(ps, total, ver), NEW s, NEW whole,
           Good(ps, s, whole, total, ver, bus, replies)
    PROVE  Good(ps, s, whole, total', ver', bus', replies')
  <1>0. PICK d, W, b, rs : d = total' /\ W = ver' /\ b = bus' /\ rs = replies'
    OBVIOUS
  <1>1. /\ total \in Nat /\ d \in Nat /\ total <= d
        /\ \A m \in 1 .. total : ver[m] \in Nat /\ ver[m] > 0 /\ W[m] \in Nat /\ ver[m] <= W[m]
    BY <1>0, GrowingIs
  <1>2. \A m \in 1 .. total : ver[m] \in Nat /\ ver[m] > 0 /\ (W[m] = ver[m] \/ m \in b)
    BY <1>0, <1>1 DEF Growing
  <1>3. \A m \in (total + 1) .. d : m \in b
    BY <1>0 DEF Growing
  <1>4. \A m \in 1 .. total : \A v \in Nat : v < ver[m] /\ Better(bus, replies, m, v) => Better(b, rs, m, v)
    BY <1>0, Zenon DEF Growing
  <1>5. PICK c, V, f, ts : c = total /\ V = ver /\ f = bus /\ ts = replies
    OBVIOUS
  <1>6. /\ c \in Nat /\ c <= d /\ Fits(ps, c, V) /\ Good(ps, s, whole, c, V, f, ts)
        /\ \A m \in 1 .. c : V[m] \in Nat /\ V[m] > 0 /\ (W[m] = V[m] \/ m \in b)
        /\ \A m \in (c + 1) .. d : m \in b
        /\ \A m \in 1 .. c : \A v \in Nat : v < V[m] /\ Better(f, ts, m, v) => Better(b, rs, m, v)
    BY <1>1, <1>2, <1>3, <1>4, <1>5, Zenon
  <1> QED
    BY <1>0, <1>1, <1>6, GoodStays

LEMMA OpenedIs ==
    ASSUME NEW c, NEW V, NEW S \in SUBSET Kinds, NEW o, AroundRow(o, c, V), NEW q, q = [o EXCEPT !.odd = @ \cup S]
    PROVE  AroundRow(q, c, V) /\ q.result = o.result /\ q.odd = o.odd \cup S
  <1>1. o = [m |-> o.m, result |-> o.result, odd |-> o.odd] /\ o.odd \in SUBSET Kinds
    BY DEF AroundRow
  <1>2. q = [m |-> o.m, result |-> o.result, odd |-> o.odd \cup S]
    BY <1>1
  <1>3. q.m = o.m /\ q.result = o.result /\ q.odd = o.odd \cup S
    BY <1>2
  <1> QED
    BY <1>1, <1>2, <1>3 DEF AroundRow

LEMMA AroundStays ==
    ASSUME WindowTypes, AroundGood, NEW S \in SUBSET Kinds, Growing(S),
           opening' = Window!Opened(S) \/ (S = {} /\ opening' \subseteq opening)
    PROVE  AroundGood'
  <1>1. PICK d, W, b, rs : d = total' /\ W = ver' /\ b = bus' /\ rs = replies'
    OBVIOUS
  <1>2. /\ total \in Nat /\ d \in Nat /\ total <= d
        /\ \A m \in 1 .. total : ver[m] \in Nat /\ W[m] \in Nat /\ ver[m] <= W[m]
    BY <1>1, GrowingIs
  <1>3. ASSUME NEW q \in opening'
        PROVE  AroundRow(q, d, W) /\ (q.odd = {} => Good(q.result, 0, FALSE, d, W, b, rs))
    <2>1. PICK o \in opening : (q = o /\ S = {}) \/ q = [o EXCEPT !.odd = @ \cup S]
      BY <1>3, Zenon DEF Window!Opened
    <2>2. AroundRow(o, total, ver) /\ (o.odd = {} => Good(o.result, 0, FALSE, total, ver, bus, replies))
      BY <2>1 DEF AroundGood
    <2>3. AroundRow(q, total, ver) /\ q.result = o.result /\ q.odd = o.odd \cup S
      BY <2>1, <2>2, OpenedIs
    <2>4. Fits(q.result, total, ver)
      BY <2>3 DEF AroundRow
    <2>5. AroundRow(q, d, W)
      <3>1. Fits(q.result, d, W)
        BY <1>2, <2>4, FitsGrows
      <3> QED
        BY <2>3, <3>1 DEF AroundRow
    <2>6. ASSUME q.odd = {} PROVE Good(q.result, 0, FALSE, d, W, b, rs)
      <3>1. S = {} /\ Good(q.result, 0, FALSE, total, ver, bus, replies)
        BY <2>2, <2>3, <2>6
      <3>2. PICK w : w = FALSE
        OBVIOUS
      <3>3. Good(q.result, 0, w, total, ver, bus, replies)
        BY <3>1, <3>2
      <3>4. Good(q.result, 0, w, total', ver', bus', replies')
        BY <2>4, <3>1, <3>3, GoodGrows
      <3> QED
        BY <1>1, <3>2, <3>4
    <2> QED
      BY <2>5, <2>6
  <1> QED
    BY <1>1, <1>3 DEF AroundGood

LEMMA WindowUnmoved ==
    ASSUME WindowTypes, PagesGood, LoadGood, AroundGood, NEW S, Noting(S), Growing(S),
           pages' = pages, view' = view, sending' = sending, attempt' \in Nat
    PROVE  WindowTypes' /\ PagesGood' /\ LoadGood' /\ AroundGood'
  <1>0. PICK d, W, b, rs : d = total' /\ W = ver' /\ b = bus' /\ rs = replies'
    OBVIOUS
  <1>1. /\ total \in Nat /\ d \in Nat /\ total <= d /\ d <= WindowMessages
        /\ \A m \in 1 .. total : ver[m] \in Nat /\ ver[m] > 0 /\ W[m] \in Nat /\ ver[m] <= W[m]
    BY <1>0, GrowingIs DEF Growing
  <1>2. /\ odd' \in SUBSET Kinds /\ (odd' = {} => odd = {} /\ S = {})
        /\ load' # Window!None =>
              /\ load # Window!None /\ LoadRow(load', total, ver)
              /\ load'.result = load.result /\ load'.again = load.again
              /\ load'.odd = {} => load.odd = {} /\ S = {}
    BY LoadAfter
  <1>3. Fits(pages, d, W)
    <2>1. Fits(pages, total, ver)
      BY DEF WindowTypes
    <2> QED
      BY <1>1, <2>1, FitsGrows
  <1>4. load' # Window!None => LoadRow(load', d, W)
    BY <1>1, <1>2, LoadRowGrows
  <1>5. WindowTypes'
    <2>1. total' \in Nat /\ WindowOld <= total' /\ total' <= WindowMessages
      BY <1>0, <1>1, WindowNumbers DEF WindowTypes
    <2>2. sending' \in 0 .. WindowAttempts
      BY DEF WindowTypes
    <2>3. ver' \in [1 .. WindowMessages -> Nat \ {0}] /\ bus' \in SUBSET (1 .. total')
      BY DEF Growing
    <2>4. Fits(pages', total', ver') /\ (load' # Window!None => LoadRow(load', total', ver'))
      BY <1>0, <1>3, <1>4
    <2> QED
      BY <1>2, <2>1, <2>2, <2>3, <2>4 DEF WindowTypes
  <1>6. ASSUME S = {}, NEW ps, Fits(ps, total, ver), NEW s, NEW whole, Good(ps, s, whole, total, ver, bus, replies)
        PROVE  Good(ps, s, whole, d, W, b, rs)
    BY <1>0, <1>6, GoodGrows
  <1>7. PagesGood'
    <2> SUFFICES ASSUME odd' = {} PROVE Good(pages, sending, view = "latest", d, W, b, rs)
      BY <1>0 DEF PagesGood
    <2>1. odd = {} /\ S = {}
      BY <1>2
    <2>2. Fits(pages, total, ver) /\ Good(pages, sending, view = "latest", total, ver, bus, replies)
      BY <2>1 DEF PagesGood, WindowTypes
    <2> QED
      BY <1>6, <2>1, <2>2
  <1>8. LoadGood'
    <2>0. PICK s, whole : s = (IF load.again THEN 0 ELSE sending) /\ whole = (load.again \/ view = "latest")
      OBVIOUS
    <2> SUFFICES ASSUME load' # Window!None, load'.odd = {}, load'.again \/ odd' = {}
                 PROVE  Good(load.result, s, whole, d, W, b, rs)
      BY <1>0, <1>2, <2>0 DEF LoadGood
    <2>1. load # Window!None /\ load.odd = {} /\ S = {} /\ (load.again \/ odd = {})
      BY <1>2
    <2>2. Good(load.result, s, whole, total, ver, bus, replies)
      BY <2>0, <2>1 DEF LoadGood
    <2>3. Fits(load.result, total, ver)
      BY <2>1 DEF WindowTypes, LoadRow
    <2> QED
      BY <1>6, <2>1, <2>2, <2>3
  <1>9. AroundGood'
    BY AroundStays DEF Noting
  <1> QED
    BY <1>5, <1>7, <1>8, <1>9

LEMMA MadeStays ==
    ASSUME MadeOnce, total \in Nat, total' \in Nat, total <= total', made' = made, mine' = mine
    PROVE  MadeOnce'
  <1>1. made \in [1 .. WindowAttempts -> 0 .. total']
    BY DEF MadeOnce
  <1>2. /\ \A a, b \in 1 .. WindowAttempts : made[a] # 0 /\ made[a] = made[b] => a = b
        /\ mine = {made[a] : a \in {b \in 1 .. WindowAttempts : made[b] # 0}}
    BY DEF MadeOnce
  <1>3. /\ \A a, b \in 1 .. WindowAttempts : made'[a] # 0 /\ made'[a] = made'[b] => a = b
        /\ mine' = {made'[a] : a \in {b \in 1 .. WindowAttempts : made'[b] # 0}}
    BY <1>2, Zenon
  <1> QED
    BY <1>1, <1>3 DEF MadeOnce

LEMMA RepliesStay ==
    ASSUME WindowTypes, RepliesSound, NEW S, Growing(S), sending' = sending, NEW ts, ts \subseteq replies, replies' = ts
    PROVE  RepliesSound'
  <1>1. ASSUME NEW r \in ts PROVE ReplyRow(r, total', ver', sending')
    <2>1. r.m \in 1 .. total /\ r.v \in 1 .. ver[r.m] /\ r.by \in 0 .. WindowAttempts /\ (r.by # 0 => r.by = sending)
      BY <1>1 DEF RepliesSound, ReplyRow
    <2>2. total \in Nat /\ total' \in Nat /\ total <= total' /\ WindowMessages \in Nat /\ total <= WindowMessages
      BY WindowNumbers DEF WindowTypes, Growing
    <2>3. r.m \in 1 .. WindowMessages
      BY <2>1, <2>2
    <2>4. ver[r.m] \in Nat /\ ver'[r.m] \in Nat /\ ver[r.m] <= ver'[r.m]
      BY <2>1, <2>3 DEF WindowTypes, Growing
    <2>5. r.m \in 1 .. total' /\ r.v \in 1 .. ver'[r.m]
      BY <2>1, <2>2, <2>4
    <2> QED
      BY <2>1, <2>5 DEF ReplyRow
  <1> QED
    BY <1>1 DEF RepliesSound

\* A change of the server is announced to an open stream, or else missed.
LEMMA PublishIs ==
    ASSUME WindowTypes, NEW m, Window!Publish(m)
    PROVE  /\ \E S : Noting(S) /\ bus' = (IF S = {} THEN bus \cup {m} ELSE bus)
           /\ pages' = pages /\ view' = view /\ sending' = sending /\ attempt' = attempt /\ replies' = replies
  <1>1. pages' = pages /\ view' = view /\ sending' = sending /\ attempt' = attempt /\ replies' = replies
    BY DEF Window!Publish, Window!tries
  <1>2. CASE connected
    <2>1. Noting({}) /\ bus' = bus \cup {m}
      BY <1>2 DEF Window!Publish, Window!loads, Noting
    <2> QED
      BY <1>1, <2>1
  <1>3. CASE ~connected
    <2>1. Noting({"missed"}) /\ bus' = bus
      BY <1>3 DEF Window!Publish, Window!Misses, Window!Note, Noting, Kinds
    <2>2. {"missed"} # {}
      OBVIOUS
    <2> QED
      BY <1>1, <2>1, <2>2
  <1> QED
    BY <1>2, <1>3

\* A step that only reports, or changes the server and announces it.
LEMMA Announced ==
    ASSUME WindowTypes, NEW m, Window!Publish(m), total' \in Nat, total <= total', total' <= WindowMessages,
           ver' \in [1 .. WindowMessages -> Nat \ {0}], \A k \in 1 .. total : ver[k] <= ver'[k],
           m \in 1 .. total', \A k \in 1 .. total : ver'[k] = ver[k] \/ k = m,
           \A k \in (total + 1) .. total' : k = m
    PROVE  \E S : Noting(S) /\ Growing(S)
  <1>1. PICK S : Noting(S) /\ bus' = (IF S = {} THEN bus \cup {m} ELSE bus)
    BY PublishIs
  <1>2. replies' = replies
    BY PublishIs
  <1>3. bus' \in SUBSET (1 .. total')
    <2>1. bus \in SUBSET (1 .. total) /\ total \in Nat
      BY DEF WindowTypes
    <2>2. \A k \in 1 .. total : k \in 1 .. total'
      BY <2>1
    <2> QED
      BY <1>1, <2>1, <2>2
  <1>4. ASSUME S = {} PROVE /\ \A k \in 1 .. total : ver'[k] = ver[k] \/ k \in bus'
                            /\ \A k \in (total + 1) .. total' : k \in bus'
                            /\ \A k \in 1 .. total : \A v \in Nat :
                                  v < ver[k] /\ Better(bus, replies, k, v) => Better(bus', replies', k, v)
    <2>1. m \in bus' /\ bus \subseteq bus'
      BY <1>1, <1>4
    <2>2. \A k, v : Better(bus, replies, k, v) => Better(bus', replies', k, v)
      BY <1>2, <2>1 DEF Better
    <2> QED
      BY <2>1, <2>2
  <1> QED
    BY <1>1, <1>3, <1>4 DEF Growing

LEMMA StepPost ==
    ASSUME WindowInv, Window!Post
    PROVE  WindowInv'
  <1>1. total < WindowMessages /\ total' = total + 1 /\ ver' = ver /\ mine' = mine /\ made' = made /\ Window!Publish(total')
    BY DEF Window!Post
  <1>2. total \in Nat /\ ver \in [1 .. WindowMessages -> Nat \ {0}] /\ WindowMessages \in Nat
    BY WindowNumbers DEF WindowInv, WindowTypes
  <1>3. WindowTypes /\ MadeOnce /\ RepliesSound /\ PagesGood /\ LoadGood /\ AroundGood
    BY DEF WindowInv
  <1>4. PICK S : Noting(S) /\ Growing(S)
    <2>1. /\ total' \in Nat /\ total <= total' /\ total' <= WindowMessages /\ total' \in 1 .. total'
          /\ \A k \in (total + 1) .. total' : k = total'
      BY <1>1, <1>2
    <2>2. \A k \in 1 .. total : ver[k] <= ver'[k] /\ ver'[k] = ver[k]
      <3>1. \A k \in 1 .. total : k \in 1 .. WindowMessages
        BY <1>1, <1>2
      <3> QED
        BY <1>1, <1>2, <3>1
    <2>3. PICK m : m = total'
      OBVIOUS
    <2>4. Window!Publish(m)
      BY <1>1, <2>3
    <2>5. ver' \in [1 .. WindowMessages -> Nat \ {0}]
      BY <1>1, <1>2
    <2> QED
      BY <1>3, <2>1, <2>2, <2>3, <2>4, <2>5, Announced
  <1>5. pages' = pages /\ view' = view /\ sending' = sending /\ attempt' = attempt /\ replies' = replies
    BY <1>1, <1>3, PublishIs
  <1>6. WindowTypes' /\ PagesGood' /\ LoadGood' /\ AroundGood'
    <2>1. attempt' \in Nat
      BY <1>3, <1>5 DEF WindowTypes
    <2> QED
      BY <1>3, <1>4, <1>5, <2>1, WindowUnmoved
  <1>7. MadeOnce'
    <2>1. total' \in Nat /\ total <= total'
      BY <1>4 DEF Growing
    <2> QED
      BY <1>1, <1>2, <1>3, <2>1, MadeStays
  <1>8. RepliesSound'
    BY <1>3, <1>4, <1>5, RepliesStay
  <1> QED
    BY <1>6, <1>7, <1>8 DEF WindowInv

LEMMA StepEdit ==
    ASSUME WindowInv, NEW m \in 1 .. WindowMessages, Window!Edit(m)
    PROVE  WindowInv'
  <1>1. /\ m <= total /\ ver' = [ver EXCEPT ![m] = @ + 1] /\ Window!Publish(m)
        /\ total' = total /\ mine' = mine /\ made' = made
    BY DEF Window!Edit
  <1>2. total \in Nat /\ ver \in [1 .. WindowMessages -> Nat \ {0}] /\ WindowMessages \in Nat /\ total <= WindowMessages
    BY WindowNumbers DEF WindowInv, WindowTypes
  <1>3. WindowTypes /\ MadeOnce /\ RepliesSound /\ PagesGood /\ LoadGood /\ AroundGood
    BY DEF WindowInv
  <1>4. PICK S : Noting(S) /\ Growing(S)
    <2>1. /\ total' \in Nat /\ total <= total' /\ total' <= WindowMessages /\ m \in 1 .. total'
          /\ \A k \in (total + 1) .. total' : k = m
      BY <1>1, <1>2
    <2>2. \A k \in 1 .. WindowMessages : ver'[k] = (IF k = m THEN ver[k] + 1 ELSE ver[k]) /\ ver[k] \in Nat \ {0}
      BY <1>1, <1>2
    <2>3. ver' \in [1 .. WindowMessages -> Nat \ {0}]
      BY <1>1, <1>2
    <2>4. \A k \in 1 .. total : ver[k] <= ver'[k] /\ (ver'[k] = ver[k] \/ k = m)
      <3>1. \A k \in 1 .. total : k \in 1 .. WindowMessages
        BY <1>2
      <3> QED
        BY <2>2, <3>1
    <2> QED
      BY <1>1, <1>3, <2>1, <2>3, <2>4, Announced
  <1>5. pages' = pages /\ view' = view /\ sending' = sending /\ attempt' = attempt /\ replies' = replies
    BY <1>1, <1>3, PublishIs
  <1>6. WindowTypes' /\ PagesGood' /\ LoadGood' /\ AroundGood'
    <2>1. attempt' \in Nat
      BY <1>3, <1>5 DEF WindowTypes
    <2> QED
      BY <1>3, <1>4, <1>5, <2>1, WindowUnmoved
  <1>7. MadeOnce'
    BY <1>1, <1>2, <1>3, MadeStays
  <1>8. RepliesSound'
    BY <1>3, <1>4, <1>5, RepliesStay
  <1> QED
    BY <1>6, <1>7, <1>8 DEF WindowInv

LEMMA SameServer ==
    ASSUME WindowTypes, NEW S, total' = total, ver' = ver, bus' \in SUBSET (1 .. total),
           S = {} => \A k \in 1 .. total : \A v \in Nat :
                        v < ver[k] /\ Better(bus, replies, k, v) => Better(bus', replies', k, v)
    PROVE  Growing(S)
  <1>1. total \in Nat /\ WindowMessages \in Nat /\ total <= WindowMessages /\ ver \in [1 .. WindowMessages -> Nat \ {0}]
    BY WindowNumbers DEF WindowTypes
  <1>2. \A m \in 1 .. total : ver[m] \in Nat
    <2>1. \A m \in 1 .. total : m \in 1 .. WindowMessages
      BY <1>1
    <2> QED
      BY <1>1, <2>1
  <1>3. total' \in Nat /\ total <= total' /\ total' <= WindowMessages /\ ver' \in [1 .. WindowMessages -> Nat \ {0}]
    BY <1>1
  <1>4. \A m \in 1 .. total : ver[m] <= ver'[m]
    BY <1>2
  <1>5. bus' \in SUBSET (1 .. total')
    OBVIOUS
  <1>6. S = {} => /\ \A m \in 1 .. total : ver'[m] = ver[m] \/ m \in bus'
                  /\ \A m \in (total + 1) .. total' : m \in bus'
    BY <1>1
  <1> QED
    BY <1>3, <1>4, <1>5, <1>6 DEF Growing

\* What is being opened stays good while the server and its events do.
LEMMA AroundSame ==
    ASSUME WindowTypes, AroundGood, total' = total, ver' = ver, bus' = bus, opening' \subseteq opening,
           \A q \in replies : q.by = 0 => q \in replies'
    PROVE  AroundGood'
  <1>1. PICK S : S = {}
    OBVIOUS
  <1>2. S \in SUBSET Kinds
    BY <1>1
  <1>3. \A k, v : Better(bus, replies, k, v) => Better(bus', replies', k, v)
    BY DEF Better
  <1>4. bus' \in SUBSET (1 .. total)
    BY DEF WindowTypes
  <1>5. Growing(S)
    BY <1>3, <1>4, SameServer
  <1> QED
    BY <1>1, <1>2, <1>5, AroundStays

LEMMA StepHear ==
    ASSUME WindowInv, NEW m, Window!Hear(m)
    PROVE  WindowInv'
  <1>0. PICK q : q = [m |-> m, v |-> ver[m], by |-> 0]
    OBVIOUS
  <1>1. /\ m \in bus /\ bus' = bus \ {m} /\ replies' = replies \cup {q}
        /\ total' = total /\ ver' = ver /\ mine' = mine /\ made' = made /\ pages' = pages /\ view' = view
        /\ odd' = odd /\ sending' = sending /\ attempt' = attempt /\ load' = load /\ opening' = opening
    BY <1>0 DEF Window!loads, Window!Hear, Window!server, Window!cache, Window!tries
  <1>2. WindowTypes /\ MadeOnce /\ RepliesSound /\ PagesGood /\ LoadGood /\ AroundGood
    BY DEF WindowInv
  <1>3. m \in 1 .. total /\ ver[m] \in Nat \ {0} /\ total \in Nat
    <2>1. m \in 1 .. total /\ total \in Nat /\ total <= WindowMessages /\ WindowMessages \in Nat
      BY <1>1, <1>2, WindowNumbers DEF WindowTypes
    <2>2. m \in 1 .. WindowMessages
      BY <2>1
    <2> QED
      BY <1>2, <2>1, <2>2 DEF WindowTypes
  <1>4. Noting({})
    BY <1>1 DEF Noting, Kinds
  <1>5. Growing({})
    <2>1. bus' \in SUBSET (1 .. total)
      BY <1>1, <1>2 DEF WindowTypes
    <2>2. ASSUME NEW k \in 1 .. total, NEW v \in Nat, v < ver[k], Better(bus, replies, k, v)
          PROVE  Better(bus', replies', k, v)
      <3>1. CASE k = m
        <4>1. q \in replies' /\ q.by = 0 /\ q.m = k /\ q.v > v
          BY <1>0, <1>1, <1>3, <2>2, <3>1
        <4> QED
          BY <4>1 DEF Better
      <3>2. CASE k # m /\ k \in bus
        BY <1>1, <3>2 DEF Better
      <3>3. CASE k \notin bus
        BY <1>1, <2>2, <3>3 DEF Better
      <3> QED
        BY <3>1, <3>2, <3>3
    <2>3. PICK S : S = {}
      OBVIOUS
    <2>4. Growing(S)
      BY <1>1, <1>2, <2>1, <2>2, SameServer
    <2> QED
      BY <2>3, <2>4
  <1>6. WindowTypes' /\ PagesGood' /\ LoadGood' /\ AroundGood'
    <2>1. attempt' \in Nat
      BY <1>1, <1>2 DEF WindowTypes
    <2> QED
      BY <1>1, <1>2, <1>4, <1>5, <2>1, WindowUnmoved
  <1>7. MadeOnce'
    BY <1>1, <1>2, <1>3, MadeStays
  <1>8. RepliesSound'
    <2>1. ReplyRow(q, total, ver, sending) /\ q.by = 0
      BY <1>0, <1>3, WindowNumbers DEF ReplyRow
    <2>2. /\ \A r \in replies \cup {q} : ReplyRow(r, total, ver, sending)
          /\ \A r, s \in replies \cup {q} : r.by # 0 /\ s.by # 0 => r = s
      BY <1>2, <2>1 DEF RepliesSound
    <2> QED
      BY <1>1, <2>2 DEF RepliesSound
  <1> QED
    BY <1>6, <1>7, <1>8 DEF WindowInv

LEMMA StepAnswer ==
    ASSUME WindowInv, Window!Answer
    PROVE  WindowInv'
  <1>0. PICK m, q : m = made[sending] /\ q = [m |-> m, v |-> ver[m], by |-> sending]
    OBVIOUS
  <1>1. /\ sending # 0 /\ m # 0 /\ (\A r \in replies : r.by = 0) /\ bus' = bus /\ replies' = replies \cup {q}
        /\ total' = total /\ ver' = ver /\ mine' = mine /\ made' = made /\ pages' = pages /\ view' = view
        /\ odd' = odd /\ sending' = sending /\ attempt' = attempt /\ load' = load /\ opening' = opening
    BY <1>0 DEF Window!loads, Window!Answer, Window!server, Window!cache, Window!tries, Window!wire
  <1>2. WindowTypes /\ MadeOnce /\ RepliesSound /\ PagesGood /\ LoadGood /\ AroundGood
    BY DEF WindowInv
  <1>3. m \in 1 .. total /\ ver[m] \in Nat \ {0} /\ total \in Nat /\ sending \in 0 .. WindowAttempts
    <2>1. sending \in 1 .. WindowAttempts /\ total \in Nat /\ total <= WindowMessages /\ WindowMessages \in Nat
      BY <1>1, <1>2, WindowNumbers DEF WindowTypes
    <2>2. m \in 0 .. total
      BY <1>0, <1>2, <2>1 DEF MadeOnce
    <2>3. m \in 1 .. total /\ m \in 1 .. WindowMessages
      BY <1>1, <2>1, <2>2
    <2> QED
      BY <1>2, <2>1, <2>3 DEF WindowTypes
  <1>4. Noting({})
    BY <1>1 DEF Noting, Kinds
  <1>5. Growing({})
    <2>1. bus' \in SUBSET (1 .. total)
      BY <1>1, <1>2 DEF WindowTypes
    <2>2. ASSUME NEW k \in 1 .. total, NEW v \in Nat, v < ver[k], Better(bus, replies, k, v)
          PROVE  Better(bus', replies', k, v)
      BY <1>1, <2>2 DEF Better
    <2>3. PICK S : S = {}
      OBVIOUS
    <2>4. Growing(S)
      BY <1>1, <1>2, <2>1, <2>2, SameServer
    <2> QED
      BY <2>3, <2>4
  <1>6. WindowTypes' /\ PagesGood' /\ LoadGood' /\ AroundGood'
    <2>1. attempt' \in Nat
      BY <1>1, <1>2 DEF WindowTypes
    <2> QED
      BY <1>1, <1>2, <1>4, <1>5, <2>1, WindowUnmoved
  <1>7. MadeOnce'
    BY <1>1, <1>2, <1>3, MadeStays
  <1>8. RepliesSound'
    <2>1. ReplyRow(q, total, ver, sending)
      BY <1>0, <1>3, WindowNumbers DEF ReplyRow
    <2>2. /\ \A r \in replies \cup {q} : ReplyRow(r, total, ver, sending)
          /\ \A r, s \in replies \cup {q} : r.by # 0 /\ s.by # 0 => r = s
      BY <1>1, <1>2, <2>1 DEF RepliesSound
    <2> QED
      BY <1>1, <2>2 DEF RepliesSound
  <1> QED
    BY <1>6, <1>7, <1>8 DEF WindowInv

LEMMA StepConnect ==
    ASSUME WindowInv, Window!Connect
    PROVE  WindowInv'
  <1>1. /\ bus' = bus /\ replies' = replies
        /\ total' = total /\ ver' = ver /\ mine' = mine /\ made' = made /\ pages' = pages /\ view' = view
        /\ odd' = odd /\ sending' = sending /\ attempt' = attempt /\ load' = load /\ opening' = opening
    BY DEF Window!loads, Window!Connect, Window!server, Window!cache, Window!tries
  <1> QED
    BY <1>1 DEF WindowInv, WindowTypes, MadeOnce, RepliesSound, PagesGood, LoadGood, AroundGood

LEMMA StepDrop ==
    ASSUME WindowInv, Window!Drop
    PROVE  WindowInv'
  <1>0. PICK S : S = IF bus = {} THEN {} ELSE {"missed"}
    OBVIOUS
  <1>1. /\ bus' = {} /\ replies' = replies /\ odd' = odd \cup S /\ load' = Window!Marked(S)
        /\ total' = total /\ ver' = ver /\ mine' = mine /\ made' = made /\ pages' = pages /\ view' = view
        /\ sending' = sending /\ attempt' = attempt /\ opening' = Window!Opened(S)
    BY <1>0 DEF Window!Drop, Window!server, Window!tries, Window!Misses, Window!Note
  <1>2. WindowTypes /\ MadeOnce /\ RepliesSound /\ PagesGood /\ LoadGood /\ AroundGood /\ total \in Nat
    BY DEF WindowInv, WindowTypes
  <1>3. Noting(S)
    <2>1. S \in SUBSET Kinds
      BY <1>0 DEF Kinds
    <2> QED
      BY <1>1, <2>1 DEF Noting
  <1>4. Growing(S)
    <2>1. bus' \in SUBSET (1 .. total)
      BY <1>1
    <2>2. ASSUME S = {}, NEW k \in 1 .. total, NEW v \in Nat, v < ver[k], Better(bus, replies, k, v)
          PROVE  Better(bus', replies', k, v)
      <3>1. bus = {}
        BY <1>0, <2>2
      <3> QED
        BY <1>1, <2>2, <3>1 DEF Better
    <2> QED
      BY <1>1, <1>2, <2>1, <2>2, SameServer
  <1>5. WindowTypes' /\ PagesGood' /\ LoadGood' /\ AroundGood'
    <2>1. attempt' \in Nat
      BY <1>1, <1>2 DEF WindowTypes
    <2> QED
      BY <1>1, <1>2, <1>3, <1>4, <2>1, WindowUnmoved
  <1>6. MadeOnce'
    BY <1>1, <1>2, MadeStays
  <1>7. RepliesSound'
    BY <1>1, <1>2, <1>4, RepliesStay
  <1> QED
    BY <1>5, <1>6, <1>7 DEF WindowInv

\* As with Drop, one event is gone, and that is noted.
LEMMA StepMiss ==
    ASSUME WindowInv, NEW m, Window!Miss(m)
    PROVE  WindowInv'
  <1>0. PICK S : S = {"missed"}
    OBVIOUS
  <1>1. /\ bus' = bus \ {m} /\ replies' = replies /\ odd' = odd \cup S /\ load' = Window!Marked(S)
        /\ total' = total /\ ver' = ver /\ mine' = mine /\ made' = made /\ pages' = pages /\ view' = view
        /\ sending' = sending /\ attempt' = attempt /\ opening' = Window!Opened(S)
    BY <1>0 DEF Window!Miss, Window!server, Window!tries, Window!Misses, Window!Note
  <1>2. WindowTypes /\ MadeOnce /\ RepliesSound /\ PagesGood /\ LoadGood /\ AroundGood /\ total \in Nat
    BY DEF WindowInv, WindowTypes
  <1>3. Noting(S) /\ S # {}
    BY <1>0, <1>1 DEF Noting, Kinds
  <1>4. Growing(S)
    <2>1. bus' \in SUBSET (1 .. total)
      BY <1>1, <1>2 DEF WindowTypes
    <2> QED
      BY <1>1, <1>2, <1>3, <2>1, SameServer
  <1>5. WindowTypes' /\ PagesGood' /\ LoadGood' /\ AroundGood'
    <2>1. attempt' \in Nat
      BY <1>1, <1>2 DEF WindowTypes
    <2> QED
      BY <1>1, <1>2, <1>3, <1>4, <2>1, WindowUnmoved
  <1>6. MadeOnce'
    BY <1>1, <1>2, MadeStays
  <1>7. RepliesSound'
    BY <1>1, <1>2, <1>4, RepliesStay
  <1> QED
    BY <1>5, <1>6, <1>7 DEF WindowInv

LEMMA StepCommit ==
    ASSUME WindowInv, NEW a \in 1 .. WindowAttempts, Window!Commit(a)
    PROVE  WindowInv'
  <1>1. WindowTypes /\ MadeOnce /\ RepliesSound /\ PagesGood /\ LoadGood /\ AroundGood
    BY DEF WindowInv
  <1>2. total \in Nat /\ ver \in [1 .. WindowMessages -> Nat \ {0}] /\ WindowMessages \in Nat /\ ver' = ver
    BY <1>1, WindowNumbers DEF WindowTypes, Window!Commit
  <1>3. CASE made[a] # 0
    <2>1. /\ bus' = bus /\ replies' = replies
          /\ total' = total /\ mine' = mine /\ made' = made /\ pages' = pages /\ view' = view
          /\ odd' = odd /\ sending' = sending /\ attempt' = attempt /\ load' = load /\ opening' = opening
      BY <1>3 DEF Window!Commit, Window!wire, Window!loads, Window!tries
    <2> QED
      BY <1>2, <2>1 DEF WindowInv, WindowTypes, MadeOnce, RepliesSound, PagesGood, LoadGood, AroundGood
  <1>4. CASE made[a] = 0
    <2>1. /\ total < WindowMessages /\ total' = total + 1 /\ Window!Publish(total')
          /\ mine' = mine \cup {total'} /\ made' = [made EXCEPT ![a] = total']
      BY <1>4 DEF Window!Commit
    <2>2. PICK S : Noting(S) /\ Growing(S)
      <3>1. /\ total' \in Nat /\ total <= total' /\ total' <= WindowMessages /\ total' \in 1 .. total'
            /\ \A k \in (total + 1) .. total' : k = total'
        BY <1>2, <2>1
      <3>2. \A k \in 1 .. total : ver[k] <= ver'[k] /\ ver'[k] = ver[k]
        <4>1. \A k \in 1 .. total : k \in 1 .. WindowMessages
          BY <1>2, <2>1
        <4> QED
          BY <1>2, <4>1
      <3>3. PICK m : m = total'
        OBVIOUS
      <3>4. Window!Publish(m)
        BY <2>1, <3>3
      <3>5. ver' \in [1 .. WindowMessages -> Nat \ {0}]
        BY <1>2
      <3> QED
        BY <1>1, <3>1, <3>2, <3>3, <3>4, <3>5, Announced
    <2>3. pages' = pages /\ view' = view /\ sending' = sending /\ attempt' = attempt /\ replies' = replies
      BY <1>1, <2>1, PublishIs
    <2>4. WindowTypes' /\ PagesGood' /\ LoadGood' /\ AroundGood'
      <3>1. attempt' \in Nat
        BY <1>1, <2>3 DEF WindowTypes
      <3> QED
        BY <1>1, <2>2, <2>3, <3>1, WindowUnmoved
    <2>5. MadeOnce'
      <3>1. PICK t : t = total'
        OBVIOUS
      <3>2. /\ made \in [1 .. WindowAttempts -> 0 .. total]
            /\ \A b, c \in 1 .. WindowAttempts : made[b] # 0 /\ made[b] = made[c] => b = c
            /\ mine = {made[b] : b \in {c \in 1 .. WindowAttempts : made[c] # 0}}
        BY <1>1 DEF MadeOnce
      <3>3. t = total + 1 /\ t \in Nat /\ t # 0 /\ \A b \in 1 .. WindowAttempts : made[b] \in 0 .. total /\ made[b] # t
        BY <1>2, <2>1, <3>1, <3>2
      <3>4. made' \in [1 .. WindowAttempts -> 0 .. t]
        <4>1. \A x \in 0 .. total : x \in 0 .. t
          BY <1>2, <3>3
        <4>2. t \in 0 .. t
          BY <3>3
        <4> QED
          BY <2>1, <3>1, <3>2, <4>1, <4>2
      <3>5. \A b \in 1 .. WindowAttempts : made'[b] = IF b = a THEN t ELSE made[b]
        BY <2>1, <3>1, <3>2
      <3>6. \A b, c \in 1 .. WindowAttempts : made'[b] # 0 /\ made'[b] = made'[c] => b = c
        BY <3>2, <3>3, <3>5
      <3>7. mine' = {made'[b] : b \in {c \in 1 .. WindowAttempts : made'[c] # 0}}
        <4>1. PICK M, N : M = {made[b] : b \in {c \in 1 .. WindowAttempts : made[c] # 0}}
                          /\ N = {made'[b] : b \in {c \in 1 .. WindowAttempts : made'[c] # 0}}
          OBVIOUS
        <4>2. \A x : x \in M <=> \E b \in 1 .. WindowAttempts : made[b] # 0 /\ x = made[b]
          BY <4>1, Zenon
        <4>3. \A x : x \in N <=> \E b \in 1 .. WindowAttempts : made'[b] # 0 /\ x = made'[b]
          BY <4>1, Zenon
        <4>4. \A x \in N : x \in M \cup {t}
          BY <3>5, <4>2, <4>3
        <4>5. t \in N
          BY <3>3, <3>5, <4>3
        <4>6. \A x \in M : x \in N
          BY <1>4, <3>5, <4>2, <4>3
        <4>7. N = M \cup {t}
          BY <4>4, <4>5, <4>6
        <4>8. mine' = M \cup {t}
          BY <2>1, <3>1, <3>2, <4>1
        <4> QED
          BY <4>1, <4>7, <4>8
      <3>8. made' \in [1 .. WindowAttempts -> 0 .. total']
        BY <3>1, <3>4
      <3> QED
        BY <3>6, <3>7, <3>8 DEF MadeOnce
    <2>6. RepliesSound'
      BY <1>1, <2>2, <2>3, RepliesStay
    <2> QED
      BY <2>4, <2>5, <2>6 DEF WindowInv
  <1> QED
    BY <1>3, <1>4

LEMMA WholeGood ==
    ASSUME WindowTypes, NEW ps, Whole(ps), NEW s, NEW b, NEW rs
    PROVE  Good(ps, s, TRUE, total, ver, b, rs)
  <1>1. \A e \in Window!Entries(ps) : e.m > 0 /\ e.v = ver[e.m]
    BY DEF Whole, Current
  <1>2. Recent(ps, ver, b, rs)
    BY <1>1 DEF Recent
  <1>3. Copied(ps, s)
    BY <1>1 DEF Copied
  <1>4. Reaches(ps, total, b, rs)
    <2> SUFFICES ASSUME NEW m \in 1 .. total, \A k \in Real(ps) : k < m PROVE FALSE
      BY DEF Reaches
    <2>1. total \in Nat /\ total > 0 /\ ~(total < m)
      BY DEF WindowTypes
    <2> QED
      BY <2>1 DEF Whole
  <1> QED
    BY <1>2, <1>3, <1>4 DEF Good, Whole

LEMMA GoodLess ==
    ASSUME NEW ps, NEW s, NEW t, NEW u, NEW w, NEW c, NEW V, NEW b, NEW rs,
           Good(ps, s, w, c, V, b, rs), u <=> w, s = t \/ s = 0
    PROVE  Good(ps, t, u, c, V, b, rs)
  BY DEF Good, Copied

LEMMA NewReload ==
    ASSUME WindowTypes, NEW n \in Nat \ {0}, NEW l, l = [result |-> Window!Reload[n], again |-> TRUE, odd |-> {}]
    PROVE  /\ LoadRow(l, total, ver) /\ l.again = TRUE
           /\ \A s, b, rs : Good(l.result, s, TRUE, total, ver, b, rs)
  <1>1. Counted
    BY DEF Counted, WindowTypes
  <1>2. Whole(Window!Reload[n])
    BY <1>1, ReloadWhole
  <1>3. l.result = Window!Reload[n] /\ l.again = TRUE /\ l.odd = {} /\ l = [result |-> l.result, again |-> l.again, odd |-> l.odd]
    OBVIOUS
  <1>4. Whole(l.result)
    BY <1>2, <1>3
  <1>5. LoadRow(l, total, ver)
    <2>1. Fits(l.result, total, ver)
      BY <1>4 DEF Whole
    <2> QED
      BY <1>3, <2>1 DEF LoadRow
  <1> QED
    BY <1>3, <1>4, <1>5, WholeGood

LEMMA StepBeginReload ==
    ASSUME WindowInv, Window!BeginReload
    PROVE  WindowInv'
  <1>1. /\ bus' = bus /\ replies' = replies
        /\ total' = total /\ ver' = ver /\ mine' = mine /\ made' = made /\ pages' = pages /\ view' = view
        /\ odd' = odd /\ sending' = sending /\ attempt' = attempt /\ opening' = opening
        /\ load' = [result |-> Window!Reload[Len(pages)], again |-> TRUE, odd |-> {}]
    BY DEF Window!BeginReload, Window!server, Window!cache, Window!tries, Window!wire
  <1>2. WindowTypes /\ Len(pages) \in Nat \ {0}
    <2>1. WindowTypes
      BY DEF WindowInv
    <2>2. Fits(pages, total, ver)
      BY <2>1 DEF WindowTypes
    <2>3. Len(pages) \in Nat /\ Len(pages) > 0
      BY <2>2, FitsMeans
    <2> QED
      BY <2>1, <2>3
  <1>3. PICK l : l = load'
    OBVIOUS
  <1>4. /\ LoadRow(l, total, ver) /\ l.again = TRUE
        /\ \A s, b, rs : Good(l.result, s, TRUE, total, ver, b, rs)
    BY <1>1, <1>2, <1>3, NewReload
  <1>5. WindowTypes'
    BY <1>1, <1>3, <1>4 DEF WindowInv, WindowTypes
  <1>6. LoadGood'
    <2>1. \A s : Good(l.result, s, l.again \/ view = "latest", total, ver, bus, replies)
      BY <1>4, GoodLess
    <2> QED
      BY <1>1, <1>3, <2>1, Zenon DEF LoadGood
  <1> QED
    BY <1>1, <1>5, <1>6 DEF WindowInv, MadeOnce, RepliesSound, PagesGood, AroundGood

LEMMA StepBeginOlder ==
    ASSUME WindowInv, Window!BeginOlder
    PROVE  WindowInv'
  <1>0. PICK w : w = Append(pages, Window!Before(pages[Len(pages)].older))
    OBVIOUS
  <1>1. /\ bus' = bus /\ replies' = replies /\ pages[Len(pages)].older # 0
        /\ total' = total /\ ver' = ver /\ mine' = mine /\ made' = made /\ pages' = pages /\ view' = view
        /\ odd' = odd /\ sending' = sending /\ attempt' = attempt /\ opening' = opening
        /\ load' = [result |-> w, again |-> FALSE, odd |-> {}]
    BY <1>0 DEF Window!BeginOlder, Window!server, Window!cache, Window!tries, Window!wire
  <1>2. WindowTypes /\ PagesGood
    BY DEF WindowInv
  <1>3. /\ Fits(w, total, ver)
        /\ \A x \in Window!Entries(w) : x \in Window!Entries(pages) \/ (x.m > 0 /\ x.v = ver[x.m])
        /\ \A m \in Real(pages) : m \in Real(w)
        /\ Piece(pages) => Piece(w)
    <2>1. Counted /\ Fits(pages, total, ver)
      BY <1>2 DEF Counted, WindowTypes
    <2> QED
      BY <1>0, <1>1, <2>1, OlderKeeps
  <1>4. PICK l : l = load'
    OBVIOUS
  <1>5. l.result = w /\ l.again = FALSE /\ l.odd = {} /\ l = [result |-> l.result, again |-> l.again, odd |-> l.odd]
    BY <1>1, <1>4
  <1>6. LoadRow(l, total, ver)
    BY <1>3, <1>5 DEF LoadRow
  <1>7. WindowTypes'
    BY <1>1, <1>4, <1>6 DEF WindowInv, WindowTypes
  <1>8. LoadGood'
    <2>1. ASSUME odd = {} PROVE Good(w, sending, view = "latest", total, ver, bus, replies)
      <3>1. Good(pages, sending, view = "latest", total, ver, bus, replies)
        BY <1>2, <2>1 DEF PagesGood
      <3>2. Recent(w, ver, bus, replies)
        BY <1>3, <3>1 DEF Good, Recent
      <3>3. IF view = "latest" THEN Reaches(w, total, bus, replies) ELSE Real(w) # {}
        BY <1>3, <3>1 DEF Good, Reaches
      <3>4. Copied(w, sending)
        BY <1>3, <3>1 DEF Good, Copied
      <3> QED
        BY <1>3, <3>1, <3>2, <3>3, <3>4 DEF Good
    <2>2. PICK g : g = (view = "latest")
      OBVIOUS
    <2>3. (l.again \/ view = "latest") <=> g
      BY <1>5, <2>2
    <2>4. ASSUME odd = {} PROVE Good(l.result, sending, l.again \/ view = "latest", total, ver, bus, replies)
      BY <1>5, <2>1, <2>4, GoodLess
    <2>5. (IF l.again THEN 0 ELSE sending) = sending /\ (l.again \/ odd = {} => odd = {})
      BY <1>5
    <2> QED
      BY <1>1, <1>4, <2>4, <2>5, Zenon DEF LoadGood
  <1> QED
    BY <1>1, <1>7, <1>8 DEF WindowInv, MadeOnce, RepliesSound, PagesGood, AroundGood

\* What crosses a load is noted in it.
LEMMA CrossedLoad ==
    ASSUME WindowTypes, NEW S \in SUBSET Kinds, Window!Crossed \subseteq S, load' = Window!Marked(S)
    PROVE  LoadGood' /\ (load' # Window!None => LoadRow(load', total, ver))
  <1>1. load # Window!None => LoadRow(load, total, ver)
    BY DEF WindowTypes
  <1>2. PICK l : l = load'
    OBVIOUS
  <1>3. /\ load = Window!None => l = Window!None
        /\ load # Window!None => LoadRow(l, total, ver) /\ l.odd = load.odd \cup S
    BY <1>1, <1>2, MarkedIs
  <1>4. load # Window!None => l.odd # {}
    BY <1>3 DEF Window!Crossed, Window!Busy
  <1> QED
    BY <1>2, <1>3, <1>4, Zenon DEF LoadGood

LEMMA CrossedKind == Window!Crossed \in SUBSET Kinds /\ (Window!Crossed = {} => load = Window!None)
  BY DEF Window!Crossed, Window!Busy, Kinds

LEMMA StepEndLoad ==
    ASSUME WindowInv, Window!EndLoad
    PROVE  WindowInv'
  <1>1. /\ bus' = bus /\ replies' = replies /\ load # Window!None /\ load' = Window!None
        /\ total' = total /\ ver' = ver /\ mine' = mine /\ made' = made /\ pages' = load.result
        /\ view' = (IF load.again THEN "latest" ELSE view)
        /\ odd' = (IF load.again THEN load.odd ELSE odd \cup load.odd)
        /\ sending' = sending /\ attempt' = attempt /\ opening' = opening
    BY DEF Window!EndLoad, Window!server, Window!tries, Window!wire, Window!Busy
  <1>2. WindowTypes /\ LoadGood /\ LoadRow(load, total, ver)
    BY <1>1 DEF WindowInv, WindowTypes
  <1>3. WindowTypes'
    BY <1>1, <1>2 DEF WindowTypes, LoadRow
  <1>4. LoadGood'
    BY <1>1 DEF LoadGood
  <1>5. PagesGood'
    <2> SUFFICES ASSUME odd' = {} PROVE Good(load.result, sending, view' = "latest", total, ver, bus, replies)
      BY <1>1 DEF PagesGood
    <2>1. PICK s, w, u : /\ s = (IF load.again THEN 0 ELSE sending) /\ w = (load.again \/ view = "latest")
                         /\ u = (view' = "latest")
      OBVIOUS
    <2>2. load.odd = {} /\ (load.again \/ odd = {})
      BY <1>1
    <2>3. Good(load.result, s, w, total, ver, bus, replies)
      BY <1>1, <1>2, <2>1, <2>2 DEF LoadGood
    <2>4. (u <=> w) /\ (s = sending \/ s = 0)
      BY <1>1, <2>1
    <2>5. Good(load.result, sending, u, total, ver, bus, replies)
      BY <2>3, <2>4, GoodLess
    <2> QED
      BY <2>1, <2>5
  <1> QED
    BY <1>1, <1>3, <1>4, <1>5 DEF WindowInv, MadeOnce, RepliesSound, AroundGood

\* The page around a message is read as it is.
LEMMA StepBeginAround ==
    ASSUME WindowInv, NEW m \in WindowFound, Window!BeginAround(m)
    PROVE  WindowInv'
  <1>0. PICK q, ps : ps = <<Window!Around(m)>> /\ q = [m |-> m, result |-> ps, odd |-> {}]
    OBVIOUS
  <1>1. /\ bus' = bus /\ replies' = replies
        /\ total' = total /\ ver' = ver /\ mine' = mine /\ made' = made /\ pages' = pages /\ view' = view
        /\ odd' = odd /\ sending' = sending /\ attempt' = attempt /\ load' = load
        /\ opening' = opening \cup {q}
    BY <1>0 DEF Window!BeginAround, Window!server, Window!cache, Window!tries, Window!wire
  <1>2. WindowTypes /\ Counted /\ total \in Nat /\ m \in 1 .. total
    <2>1. WindowTypes /\ WindowOld <= total /\ total \in Nat
      BY DEF WindowInv, WindowTypes
    <2>2. m \in 1 .. WindowOld /\ WindowOld \in Nat
      BY WindowNumbers
    <2>3. Counted
      BY <2>1 DEF WindowTypes, Counted
    <2> QED
      BY <2>1, <2>2, <2>3
  <1>3. PICK a \in 1 .. m, b \in m .. total :
           Window!Around(m) = [items |-> Block(a, b), older |-> IF a > 1 THEN a ELSE 0]
    BY <1>2, AroundIs
  <1>4. Fits(ps, total, ver) /\ Real(ps) = a .. b /\ Piece(ps) /\ Current(ps)
    <2>1. a \in Nat /\ a > 0 /\ b \in Int /\ a <= b /\ b <= total
      BY <1>2
    <2>2. ps = <<PageOf(a, b)>>
      BY <1>0, <1>3 DEF PageOf
    <2> QED
      BY <1>2, <2>1, <2>2, OneBlock
  <1>5. Good(ps, 0, FALSE, total, ver, bus, replies)
    <2>1. \A e \in Window!Entries(ps) : e.m > 0 /\ e.v = ver[e.m]
      BY <1>4 DEF Current
    <2>2. Recent(ps, ver, bus, replies) /\ Copied(ps, 0)
      BY <2>1 DEF Recent, Copied
    <2>3. m \in Real(ps)
      BY <1>2, <1>4
    <2> QED
      BY <1>4, <2>2, <2>3 DEF Good
  <1>6. AroundRow(q, total, ver) /\ Good(q.result, 0, FALSE, total, ver, bus, replies)
    <2>1. q.m = m /\ q.result = ps /\ q.odd = {}
      BY <1>0
    <2> QED
      BY <1>0, <1>4, <1>5, <2>1 DEF AroundRow
  <1>7. AroundGood'
    BY <1>1, <1>6 DEF WindowInv, AroundGood
  <1> QED
    BY <1>1, <1>7 DEF WindowInv, WindowTypes, MadeOnce, RepliesSound, PagesGood, LoadGood

LEMMA StepOpenAround ==
    ASSUME WindowInv, NEW o \in opening, Window!OpenAround(o)
    PROVE  WindowInv'
  <1>1. /\ bus' = bus /\ replies' = replies
        /\ total' = total /\ ver' = ver /\ mine' = mine /\ made' = made
        /\ sending' = sending /\ attempt' = attempt /\ opening' \subseteq opening
    BY DEF Window!OpenAround, Window!server, Window!tries, Window!wire
  <1>2. WindowTypes /\ MadeOnce /\ RepliesSound /\ PagesGood /\ LoadGood /\ AroundGood
    BY DEF WindowInv
  <1>3. AroundGood'
    BY <1>1, <1>2, AroundSame
  <1>4. CASE pages' = pages /\ view' = view /\ odd' = odd /\ load' = load
    BY <1>1, <1>3, <1>4 DEF WindowInv, WindowTypes, MadeOnce, RepliesSound, PagesGood, LoadGood
  <1>5. CASE /\ pages' = o.result /\ view' = "around"
             /\ odd' = o.odd /\ load' = Window!Marked(Window!Crossed)
    <2>1. /\ Fits(o.result, total, ver) /\ o.odd \in SUBSET Kinds
          /\ o.odd = {} => Good(o.result, 0, FALSE, total, ver, bus, replies)
      BY <1>2 DEF AroundGood, AroundRow
    <2>2. PICK S : S = Window!Crossed
      OBVIOUS
    <2>3. LoadGood' /\ (load' # Window!None => LoadRow(load', total, ver))
      <3>1. S \in SUBSET Kinds /\ load' = Window!Marked(S) /\ Window!Crossed \subseteq S
        BY <1>5, <2>2, CrossedKind
      <3> QED
        BY <1>2, <3>1, CrossedLoad
    <2>4. WindowTypes'
      BY <1>1, <1>2, <1>5, <2>1, <2>3 DEF WindowTypes
    <2>5. PagesGood'
      <3>1. PICK u : u = (view' = "latest")
        OBVIOUS
      <3>2. u <=> FALSE
        BY <1>5, <3>1
      <3>3. o.odd = {} => Good(o.result, sending, u, total, ver, bus, replies)
        BY <2>1, <3>2, GoodLess
      <3> QED
        BY <1>1, <1>5, <3>1, <3>3 DEF PagesGood
    <2> QED
      BY <1>1, <1>2, <1>3, <2>3, <2>4, <2>5 DEF WindowInv, MadeOnce, RepliesSound
  <1> QED
    BY <1>4, <1>5 DEF Window!OpenAround, Window!cache

LEMMA StepSend ==
    ASSUME WindowInv, Window!Send
    PROVE  WindowInv'
  <1>0. PICK S : S = Window!Crossed
    OBVIOUS
  <1>1. /\ bus' = bus /\ replies' = replies /\ sending = 0
        /\ total' = total /\ ver' = ver /\ mine' = mine /\ made' = made /\ view' = view
        /\ odd' = odd \cup S /\ load' = Window!Marked(S) /\ opening' = opening
    BY <1>0 DEF Window!Send, Window!wire, Window!Note
  <1>2. PICK a \in {attempt, attempt + 1} \ {0} :
           /\ a <= WindowAttempts /\ sending' = a /\ attempt' = a
           /\ pages' = Window!AtEnd(pages, [m |-> -a, v |-> 1])
    BY DEF Window!Send
  <1>3. WindowTypes /\ PagesGood /\ RepliesSound
    BY DEF WindowInv
  <1>4. a \in 1 .. WindowAttempts
    BY <1>2, <1>3, WindowNumbers DEF WindowTypes
  <1>5. PICK e, w : e = [m |-> -a, v |-> 1] /\ w = pages'
    OBVIOUS
  <1>6. e.m = -a /\ e.v = 1 /\ ~(e.m > 0) /\ e \in EntrySet(total, ver)
    <2>1. e.m = -a /\ e.v = 1 /\ ~(e.m > 0) /\ e \in [m : Int, v : Nat] /\ a \in 1 .. WindowAttempts
      BY <1>4, <1>5, WindowNumbers
    <2>2. e.m \in Copying
      BY <2>1, Zenon DEF Copying
    <2> QED
      BY <2>1, <2>2 DEF EntrySet
  <1>7. /\ Fits(w, total, ver)
        /\ \A x : x \in Window!Entries(w) <=> x \in Window!Entries(pages) \/ x = e
        /\ \A m : m \in Real(w) <=> m \in Real(pages) \/ (m = e.m /\ m > 0)
        /\ Piece(pages) => Piece(w)
    <2>1. Fits(pages, total, ver) /\ w = Window!AtEnd(pages, e)
      BY <1>2, <1>3, <1>5 DEF WindowTypes
    <2> QED
      BY <1>6, <2>1, AtEndKeeps
  <1>8. Real(w) = Real(pages)
    BY <1>6, <1>7
  <1>9. S \in SUBSET Kinds /\ LoadGood' /\ (load' # Window!None => LoadRow(load', total, ver))
    <2>1. S \in SUBSET Kinds /\ Window!Crossed \subseteq S
      BY <1>0, CrossedKind
    <2> QED
      BY <1>1, <1>3, <2>1, CrossedLoad
  <1>10. WindowTypes'
    <2>1. sending' \in 0 .. WindowAttempts /\ attempt' \in Nat
      BY <1>2, <1>4, WindowNumbers
    <2>2. odd' \in SUBSET Kinds
      BY <1>1, <1>3, <1>9 DEF WindowTypes
    <2> QED
      BY <1>1, <1>3, <1>5, <1>7, <1>9, <2>1, <2>2 DEF WindowTypes
  <1>11. PagesGood'
    <2> SUFFICES ASSUME odd = {} PROVE Good(w, a, view = "latest", total, ver, bus, replies)
      BY <1>1, <1>2, <1>5 DEF PagesGood
    <2>1. Good(pages, sending, view = "latest", total, ver, bus, replies)
      BY <1>3 DEF PagesGood
    <2>2. Recent(w, ver, bus, replies)
      BY <1>6, <1>7, <2>1 DEF Good, Recent
    <2>3. IF view = "latest" THEN Reaches(w, total, bus, replies) ELSE Real(w) # {}
      BY <1>8, <2>1 DEF Good, Reaches
    <2>4. Copied(w, a)
      <3>1. \A x \in Window!Entries(pages) : x.m > 0
        BY <1>1, <2>1 DEF Good, Copied
      <3>2. a # 0
        BY <1>4
      <3> QED
        BY <1>6, <1>7, <3>1, <3>2 DEF Copied
    <2> QED
      BY <1>7, <2>1, <2>2, <2>3, <2>4 DEF Good
  <1>12. RepliesSound'
    <2>1. \A r \in replies : r.by = 0
      BY <1>1, <1>3 DEF RepliesSound, ReplyRow
    <2> QED
      BY <1>1, <1>3, <2>1 DEF RepliesSound, ReplyRow
  <1> QED
    BY <1>1, <1>9, <1>10, <1>11, <1>12 DEF WindowInv, MadeOnce, AroundGood

LEMMA StepFail ==
    ASSUME WindowInv, Window!Fail
    PROVE  WindowInv'
  <1>0. PICK S, gone, w, ts : S = Window!Crossed /\ gone = {-sending} /\ w = pages' /\ ts = {r \in replies : r.by = 0}
    OBVIOUS
  <1>1. /\ bus' = bus /\ replies' = ts /\ sending # 0 /\ sending' = 0 /\ attempt' = attempt
        /\ total' = total /\ ver' = ver /\ mine' = mine /\ made' = made /\ view' = view
        /\ odd' = odd \cup S /\ load' = Window!Marked(S) /\ opening' = opening
    BY <1>0 DEF Window!Fail, Window!server, Window!wire, Window!Note
  <1>2. w = Window!Without(pages, gone)
    BY <1>0 DEF Window!Fail, Window!Dropped
  <1>3. WindowTypes /\ PagesGood /\ RepliesSound
    BY DEF WindowInv
  <1>4. /\ Fits(w, total, ver)
        /\ \A x : x \in Window!Entries(w) <=> x \in Window!Entries(pages) /\ x.m \notin gone
        /\ Real(w) = Real(pages)
        /\ Piece(pages) => Piece(w)
    <2>1. \A x \in gone : ~(x > 0)
      BY <1>0, <1>3, WindowNumbers DEF WindowTypes
    <2>2. Fits(pages, total, ver)
      BY <1>3 DEF WindowTypes
    <2> QED
      BY <1>2, <2>1, <2>2, WithoutKeeps
  <1>5. S \in SUBSET Kinds /\ LoadGood' /\ (load' # Window!None => LoadRow(load', total, ver))
    <2>1. S \in SUBSET Kinds /\ Window!Crossed \subseteq S
      BY <1>0, CrossedKind
    <2> QED
      BY <1>1, <1>3, <2>1, CrossedLoad
  <1>6. WindowTypes'
    <2>1. sending' \in 0 .. WindowAttempts /\ attempt' \in Nat
      BY <1>1, <1>3, WindowNumbers DEF WindowTypes
    <2>2. odd' \in SUBSET Kinds
      BY <1>1, <1>3, <1>5 DEF WindowTypes
    <2> QED
      BY <1>0, <1>1, <1>3, <1>4, <1>5, <2>1, <2>2 DEF WindowTypes
  <1>7. PagesGood'
    <2> SUFFICES ASSUME odd = {} PROVE Good(w, 0, view = "latest", total, ver, bus, ts)
      BY <1>0, <1>1 DEF PagesGood
    <2>1. Good(pages, sending, view = "latest", total, ver, bus, replies)
      BY <1>3 DEF PagesGood
    <2>2. \A m, v : Better(bus, replies, m, v) => Better(bus, ts, m, v)
      BY <1>0 DEF Better
    <2>3. Recent(w, ver, bus, ts)
      BY <1>4, <2>1, <2>2 DEF Good, Recent
    <2>4. IF view = "latest" THEN Reaches(w, total, bus, ts) ELSE Real(w) # {}
      BY <1>4, <2>1, <2>2 DEF Good, Reaches
    <2>5. Copied(w, 0)
      BY <1>0, <1>4, <2>1 DEF Good, Copied
    <2> QED
      BY <1>4, <2>1, <2>3, <2>4, <2>5 DEF Good
  <1>8. RepliesSound'
    <2>1. \A r \in ts : r.by = 0 /\ r \in replies
      BY <1>0
    <2>2. \A r \in ts : ReplyRow(r, total, ver, 0)
      BY <1>3, <2>1 DEF RepliesSound, ReplyRow
    <2> QED
      BY <1>1, <2>1, <2>2 DEF RepliesSound
  <1>9. AroundGood'
    <2>1. \A q \in replies : q.by = 0 => q \in replies'
      BY <1>0, <1>1
    <2> QED
      BY <1>1, <1>3, <2>1, AroundSame DEF WindowInv
  <1> QED
    BY <1>1, <1>5, <1>6, <1>7, <1>8, <1>9 DEF WindowInv, MadeOnce

\* What is written is known to be current, or better is on its way.
LEMMA UpsertGood ==
    ASSUME WindowTypes, NEW r, r.m \in 1 .. total, r.v \in 1 .. ver[r.m], ver[r.m] \in Nat,
           NEW gone \in SUBSET Copying, ~Window!Strays(r, gone), ~Window!Late(r), NEW whole,
           Good(pages, sending, whole, total, ver, bus, replies),
           NEW ts, \A q \in replies : q.by = 0 /\ (q.m # r.m \/ q.v > r.v) => q \in ts,
           NEW s, s = sending \/ (s = 0 /\ -sending \in gone),
           NEW w, w = Window!Upsert(r, gone)
    PROVE  Good(w, s, whole, total, ver, bus, ts)
  <1>1. PICK e : e = [m |-> r.m, v |-> r.v]
    OBVIOUS
  <1>2. /\ \A x \in Window!Entries(w) : x = e \/ (x \in Window!Entries(pages) /\ x.m # r.m /\ x.m \notin gone)
        /\ \A k : k \in Real(w) <=> k \in Real(pages) \/ k = r.m
        /\ Piece(pages) /\ ~Window!Strays(r, gone) => Piece(w)
    <2>1. Fits(pages, total, ver) /\ total \in Nat
      BY DEF WindowTypes
    <2> QED
      BY <1>1, <2>1, UpsertKeeps
  <1>3. e.m = r.m /\ e.v = r.v
    BY <1>1
  <1>4. Piece(w)
    BY <1>2 DEF Good
  <1>5. \A m, v : m # r.m /\ Better(bus, replies, m, v) => Better(bus, ts, m, v)
    BY DEF Better
  <1>6. r.v = ver[r.m] \/ Better(bus, ts, r.m, r.v)
    <2>1. ~(r.v < ver[r.m]) => r.v = ver[r.m]
      OBVIOUS
    <2>2. r.v < ver[r.m] => r.m \in bus \/ \E q \in replies : q.m = r.m /\ q.by = 0 /\ q.v > r.v
      BY DEF Window!Late
    <2> QED
      BY <2>1, <2>2 DEF Better
  <1>7. Recent(w, ver, bus, ts)
    <2> SUFFICES ASSUME NEW x \in Window!Entries(w), x.m > 0
                 PROVE  x.v = ver[x.m] \/ Better(bus, ts, x.m, x.v)
      BY DEF Recent
    <2>1. CASE x = e
      BY <1>3, <1>6, <2>1
    <2>2. CASE x \in Window!Entries(pages) /\ x.m # r.m
      BY <1>5, <2>2 DEF Good, Recent
    <2> QED
      BY <1>2, <2>1, <2>2
  <1>8. whole => Reaches(w, total, bus, ts)
    <2> SUFFICES ASSUME whole, NEW m \in 1 .. total, \A k \in Real(w) : k < m PROVE Better(bus, ts, m, 0)
      BY DEF Reaches
    <2>1. r.m < m /\ \A k \in Real(pages) : k < m
      BY <1>2
    <2>2. Better(bus, replies, m, 0)
      BY <2>1 DEF Good, Reaches
    <2>3. m # r.m
      BY <2>1
    <2> QED
      BY <1>5, <2>2, <2>3
  <1>9. Real(w) # {}
    BY <1>2
  <1>10. Copied(w, s)
    <2> SUFFICES ASSUME NEW x \in Window!Entries(w), ~(x.m > 0) PROVE s # 0 /\ x.m = -s
      BY DEF Copied
    <2>1. x # e
      BY <1>3
    <2>2. x \in Window!Entries(pages) /\ x.m \notin gone
      BY <1>2, <2>1
    <2>3. sending # 0 /\ x.m = -sending
      BY <2>2 DEF Good, Copied
    <2> QED
      BY <2>2, <2>3
  <1> QED
    BY <1>4, <1>7, <1>8, <1>9, <1>10 DEF Good

\* A row of the answers names a message there is.
LEMMA ReplyThere ==
    ASSUME WindowTypes, RepliesSound, NEW r \in replies
    PROVE  r.m \in 1 .. total /\ r.v \in 1 .. ver[r.m] /\ ver[r.m] \in Nat /\ (r.by # 0 => r.by = sending)
  <1>1. r.m \in 1 .. total /\ r.v \in 1 .. ver[r.m] /\ (r.by # 0 => r.by = sending)
    BY DEF RepliesSound, ReplyRow
  <1>2. total \in Nat /\ total <= WindowMessages /\ WindowMessages \in Nat /\ ver \in [1 .. WindowMessages -> Nat \ {0}]
    BY WindowNumbers DEF WindowTypes
  <1>3. r.m \in 1 .. WindowMessages
    BY <1>1, <1>2
  <1> QED
    BY <1>1, <1>2, <1>3

LEMMA OddlyIs ==
    ASSUME NEW r, NEW gone, NEW S, S = Window!Oddly(r, gone)
    PROVE  /\ S \in SUBSET Kinds /\ Window!Crossed \subseteq S
           /\ S \ {"crossed"} = {} => ~Window!Strays(r, gone) /\ ~Window!Late(r)
  BY DEF Window!Oddly, Window!Crossed, Kinds

LEMMA StepWriteHeard ==
    ASSUME WindowInv, NEW r \in replies, Window!WriteHeard(r)
    PROVE  WindowInv'
  <1>0. PICK ts, w : ts = replies \ {r} /\ w = pages'
    OBVIOUS
  <1>1. /\ bus' = bus /\ replies' = ts /\ r.by = 0 /\ view' = view
        /\ total' = total /\ ver' = ver /\ mine' = mine /\ made' = made /\ sending' = sending /\ attempt' = attempt
        /\ opening' = Window!Opened({"crossed"})
    BY <1>0 DEF Window!WriteHeard, Window!server, Window!tries, Window!wire
  <1>2. PICK gone : /\ gone \in {Window!Matching(r)} \cup {{c} : c \in IF r.m \in mine THEN Window!Copies ELSE {}}
                    /\ w = Window!Upsert(r, gone)
                    /\ odd' = odd \cup Window!Oddly(r, gone) /\ load' = Window!Marked(Window!Oddly(r, gone))
    BY <1>0, Zenon DEF Window!WriteHeard, Window!Note
  <1>3. gone \in SUBSET Copying
    <2>1. Window!Copies \subseteq Copying
      BY Zenon DEF Window!Copies, Copying
    <2>2. Window!Matching(r) \subseteq Window!Copies
      BY Zenon DEF Window!Matching
    <2> QED
      BY <1>2, <2>1, <2>2
  <1>4. WindowTypes /\ PagesGood /\ RepliesSound
    BY DEF WindowInv
  <1>5. r.m \in 1 .. total /\ r.v \in 1 .. ver[r.m] /\ ver[r.m] \in Nat
    BY <1>4, ReplyThere
  <1>6. Fits(w, total, ver)
    <2>1. Fits(pages, total, ver) /\ total \in Nat
      BY <1>4 DEF WindowTypes
    <2>2. PICK e : e = [m |-> r.m, v |-> r.v]
      OBVIOUS
    <2> QED
      BY <1>2, <1>3, <1>5, <2>1, <2>2, UpsertKeeps
  <1>7. PICK S : S = Window!Oddly(r, gone)
    OBVIOUS
  <1>8. /\ S \in SUBSET Kinds /\ Window!Crossed \subseteq S
        /\ S \ {"crossed"} = {} => ~Window!Strays(r, gone) /\ ~Window!Late(r)
    BY <1>7, OddlyIs
  <1>9. LoadGood' /\ (load' # Window!None => LoadRow(load', total, ver))
    BY <1>2, <1>4, <1>7, <1>8, CrossedLoad
  <1>10. WindowTypes'
    <2>1. odd' \in SUBSET Kinds
      BY <1>2, <1>4, <1>7, <1>8 DEF WindowTypes
    <2> QED
      BY <1>0, <1>1, <1>4, <1>6, <1>9, <2>1 DEF WindowTypes
  <1>11. PagesGood'
    <2> SUFFICES ASSUME odd' = {} PROVE Good(w, sending, view = "latest", total, ver, bus, ts)
      BY <1>0, <1>1 DEF PagesGood
    <2>1. odd = {} /\ ~Window!Strays(r, gone) /\ ~Window!Late(r)
      BY <1>2, <1>7, <1>8
    <2>2. Good(pages, sending, view = "latest", total, ver, bus, replies)
      BY <1>4, <2>1 DEF PagesGood
    <2>3. \A q \in replies : q.by = 0 /\ (q.m # r.m \/ q.v > r.v) => q \in ts
      BY <1>0, <1>5
    <2> QED
      BY <1>2, <1>3, <1>4, <1>5, <2>1, <2>2, <2>3, UpsertGood
  <1>12. RepliesSound'
    <2>1. /\ \A q \in ts : ReplyRow(q, total, ver, sending)
          /\ \A q, x \in ts : q.by # 0 /\ x.by # 0 => q = x
      BY <1>0, <1>4 DEF RepliesSound
    <2> QED
      BY <1>1, <2>1 DEF RepliesSound
  <1>13. AroundGood'
    <2>1. PICK C : C = {"crossed"}
      OBVIOUS
    <2>2. C \in SUBSET Kinds /\ C # {}
      BY <2>1 DEF Kinds
    <2>3. bus' \in SUBSET (1 .. total)
      BY <1>1, <1>4 DEF WindowTypes
    <2>4. Growing(C)
      BY <1>1, <1>4, <2>2, <2>3, SameServer
    <2>5. opening' = Window!Opened(C)
      BY <1>1, <2>1
    <2> QED
      BY <1>4, <2>2, <2>4, <2>5, AroundStays DEF WindowInv
  <1> QED
    BY <1>1, <1>9, <1>10, <1>11, <1>12, <1>13 DEF WindowInv, MadeOnce

LEMMA StepWriteSent ==
    ASSUME WindowInv, NEW r \in replies, Window!WriteSent(r)
    PROVE  WindowInv'
  <1>0. PICK ts, w, gone, l : ts = replies \ {r} /\ w = pages' /\ gone = {-r.by} /\ l = load'
    OBVIOUS
  <1>1. /\ bus' = bus /\ replies' = ts /\ r.by # 0 /\ view' = view /\ sending' = 0
        /\ total' = total /\ ver' = ver /\ mine' = mine /\ made' = made /\ attempt' = attempt
        /\ w = Window!Upsert(r, gone) /\ odd' = odd \cup (Window!Oddly(r, gone) \ {"crossed"})
        /\ l = [result |-> Window!Reload[Len(pages)], again |-> TRUE, odd |-> {}] /\ opening' = opening
    BY <1>0 DEF Window!WriteSent, Window!server, Window!wire, Window!Note, Window!Gone
  <1>2. WindowTypes /\ PagesGood /\ RepliesSound
    BY DEF WindowInv
  <1>3. r.m \in 1 .. total /\ r.v \in 1 .. ver[r.m] /\ ver[r.m] \in Nat /\ r.by = sending
    BY <1>1, <1>2, ReplyThere
  <1>4. gone \in SUBSET Copying /\ -sending \in gone
    <2>1. r.by \in 1 .. WindowAttempts
      BY <1>1, <1>2, <1>3, WindowNumbers DEF WindowTypes
    <2>2. -r.by \in Copying
      BY <2>1, Zenon DEF Copying
    <2> QED
      BY <1>0, <1>3, <2>2
  <1>5. Fits(w, total, ver) /\ Len(pages) \in Nat \ {0}
    <2>1. Fits(pages, total, ver) /\ total \in Nat
      BY <1>2 DEF WindowTypes
    <2>2. PICK e : e = [m |-> r.m, v |-> r.v]
      OBVIOUS
    <2>3. Fits(w, total, ver)
      BY <1>1, <1>3, <1>4, <2>1, <2>2, UpsertKeeps
    <2>4. Len(pages) \in Nat /\ Len(pages) > 0
      BY <2>1, FitsMeans
    <2> QED
      BY <2>3, <2>4
  <1>6. PICK S : S = Window!Oddly(r, gone)
    OBVIOUS
  <1>7. /\ S \in SUBSET Kinds
        /\ S \ {"crossed"} = {} => ~Window!Strays(r, gone) /\ ~Window!Late(r)
    BY <1>6, OddlyIs
  <1>8. /\ LoadRow(l, total, ver) /\ l.again = TRUE
        /\ \A s, b, rs : Good(l.result, s, TRUE, total, ver, b, rs)
    BY <1>1, <1>2, <1>5, NewReload
  <1>9. WindowTypes'
    <2>1. odd' \in SUBSET Kinds
      BY <1>1, <1>2, <1>6, <1>7 DEF WindowTypes
    <2>2. sending' \in 0 .. WindowAttempts
      BY <1>1, WindowNumbers
    <2> QED
      BY <1>0, <1>1, <1>2, <1>5, <1>8, <2>1, <2>2 DEF WindowTypes
  <1>10. LoadGood'
    <2>1. \A s : Good(l.result, s, l.again \/ view = "latest", total, ver, bus, ts)
      BY <1>8, GoodLess
    <2> QED
      BY <1>0, <1>1, <1>8, <2>1, Zenon DEF LoadGood
  <1>11. PagesGood'
    <2> SUFFICES ASSUME odd' = {} PROVE Good(w, 0, view = "latest", total, ver, bus, ts)
      BY <1>0, <1>1 DEF PagesGood
    <2>1. odd = {} /\ ~Window!Strays(r, gone) /\ ~Window!Late(r)
      BY <1>1, <1>6, <1>7
    <2>2. Good(pages, sending, view = "latest", total, ver, bus, replies)
      BY <1>2, <2>1 DEF PagesGood
    <2>3. \A q \in replies : q.by = 0 /\ (q.m # r.m \/ q.v > r.v) => q \in ts
      BY <1>0, <1>1
    <2> QED
      BY <1>1, <1>2, <1>3, <1>4, <2>1, <2>2, <2>3, UpsertGood
  <1>12. RepliesSound'
    <2>1. \A q \in ts : q.by = 0 /\ q \in replies
      BY <1>0, <1>1, <1>2 DEF RepliesSound
    <2>2. \A q \in ts : ReplyRow(q, total, ver, 0)
      BY <1>2, <2>1 DEF RepliesSound, ReplyRow
    <2> QED
      BY <1>1, <2>1, <2>2 DEF RepliesSound
  <1>13. AroundGood'
    <2>1. \A q \in replies : q.by = 0 => q \in replies'
      BY <1>0, <1>1
    <2> QED
      BY <1>1, <1>2, <2>1, AroundSame DEF WindowInv
  <1> QED
    BY <1>1, <1>9, <1>10, <1>11, <1>12, <1>13 DEF WindowInv, MadeOnce

LEMMA InitWindow == Window!Init => WindowInv
  <1> SUFFICES ASSUME Window!Init PROVE WindowInv
    OBVIOUS
  <1>1. /\ total = WindowOld /\ ver = [m \in 1 .. WindowMessages |-> 1] /\ mine = {}
        /\ made = [a \in 1 .. WindowAttempts |-> 0] /\ pages = Window!Reload[1] /\ view = "latest" /\ odd = {}
        /\ sending = 0 /\ attempt = 0 /\ bus = {} /\ replies = {} /\ load = Window!None /\ opening = {}
    BY DEF Window!Init
  <1>2. total \in Nat /\ WindowOld <= total /\ total <= WindowMessages /\ ver \in [1 .. WindowMessages -> Nat \ {0}]
    BY <1>1, WindowNumbers
  <1>3. Whole(pages)
    <2>1. Counted /\ 1 \in Nat \ {0}
      BY <1>2 DEF Counted
    <2> QED
      BY <1>1, <2>1, ReloadWhole
  <1>4. WindowTypes
    BY <1>1, <1>2, <1>3, WindowNumbers DEF WindowTypes, Whole, Kinds
  <1>5. MadeOnce
    <2>1. made \in [1 .. WindowAttempts -> 0 .. total] /\ \A a \in 1 .. WindowAttempts : made[a] = 0
      BY <1>1, <1>2
    <2>2. mine = {made[a] : a \in {b \in 1 .. WindowAttempts : made[b] # 0}}
      <3>1. PICK D : D = {b \in 1 .. WindowAttempts : made[b] # 0}
        OBVIOUS
      <3>2. D = {}
        BY <2>1, <3>1
      <3>3. {made[a] : a \in D} = {}
        BY <3>2
      <3> QED
        BY <1>1, <3>1, <3>3, Zenon
    <2> QED
      BY <2>1, <2>2 DEF MadeOnce
  <1>6. RepliesSound
    BY <1>1 DEF RepliesSound
  <1>7. PagesGood
    <2>1. Good(pages, sending, TRUE, total, ver, bus, replies)
      BY <1>3, <1>4, WholeGood
    <2>2. Good(pages, sending, view = "latest", total, ver, bus, replies)
      BY <1>1, <2>1, GoodLess
    <2> QED
      BY <2>2 DEF PagesGood
  <1>8. LoadGood
    BY <1>1 DEF LoadGood
  <1> QED
    BY <1>1, <1>4, <1>5, <1>6, <1>7, <1>8 DEF WindowInv, AroundGood

LEMMA StepKeepsWindow == WindowInv /\ (Window!Next \/ UNCHANGED Window!vars) => WindowInv'
  <1> SUFFICES ASSUME WindowInv, Window!Next \/ UNCHANGED Window!vars PROVE WindowInv'
    OBVIOUS
  <1>1. CASE UNCHANGED Window!vars
    BY <1>1 DEF WindowInv, WindowTypes, MadeOnce, RepliesSound, PagesGood, LoadGood, AroundGood,
       Window!vars, Window!server, Window!cache, Window!tries, Window!wire, Window!loads
  <1>2. CASE Window!Next
    <2>1. CASE Window!Post \/ Window!Send \/ Window!Answer \/ Window!Fail \/ Window!Drop \/ Window!Connect
      BY <2>1, StepPost, StepSend, StepAnswer, StepFail, StepDrop, StepConnect
    <2>2. CASE \E m \in 1 .. WindowMessages : Window!Edit(m) \/ Window!Hear(m) \/ Window!Miss(m)
      BY <2>2, StepEdit, StepHear, StepMiss
    <2>3. CASE (\E m \in WindowFound : Window!BeginAround(m)) \/ (\E o \in opening : Window!OpenAround(o))
      BY <2>3, StepBeginAround, StepOpenAround
    <2>4. CASE \E a \in 1 .. WindowAttempts : Window!Commit(a)
      BY <2>4, StepCommit
    <2>5. CASE \E r \in replies : Window!WriteHeard(r) \/ Window!WriteSent(r)
      BY <2>5, StepWriteHeard, StepWriteSent
    <2>6. CASE Window!BeginReload \/ Window!BeginOlder \/ Window!EndLoad
      BY <2>6, StepBeginReload, StepBeginOlder, StepEndLoad
    <2> QED
      BY <1>2, <2>1, <2>2, <2>3, <2>4, <2>5, <2>6 DEF Window!Next
  <1> QED
    BY <1>1, <1>2

LEMMA WindowFollows == WindowInv => Window!WindowExact /\ Window!OneMessagePerAttempt
  <1> SUFFICES ASSUME WindowInv PROVE Window!WindowExact /\ Window!OneMessagePerAttempt
    OBVIOUS
  <1>1. Window!OneMessagePerAttempt
    BY DEF WindowInv, MadeOnce, Window!OneMessagePerAttempt
  <1>2. ASSUME Window!Quiet, odd = {}
        PROVE  /\ \A p, q \in DOMAIN pages : \A i \in DOMAIN pages[p].items, j \in DOMAIN pages[q].items :
                     p > q \/ (p = q /\ i < j) => pages[p].items[i].m < pages[q].items[j].m
               /\ \A e \in Window!Entries(pages) : e.m > 0 /\ e.v = ver[e.m]
               /\ \A d, e \in Window!Entries(pages) : \A m \in d.m .. e.m : Window!Has(m)
               /\ view = "latest" /\ total > 0 => Window!Has(total)
               /\ IF pages[Len(pages)].older = 0 THEN total > 0 => Window!Has(1)
                  ELSE /\ pages[Len(pages)].older > 1 /\ Window!Has(pages[Len(pages)].older)
                       /\ ~Window!Has(pages[Len(pages)].older - 1)
    <2>1. sending = 0 /\ bus = {} /\ replies = {}
      BY <1>2 DEF Window!Quiet
    <2>2. Good(pages, sending, view = "latest", total, ver, bus, replies) /\ Fits(pages, total, ver) /\ total \in Nat
      BY <1>2 DEF WindowInv, WindowTypes, PagesGood
    <2>3. \A m, v : ~Better(bus, replies, m, v)
      BY <2>1 DEF Better
    <2>4. \A e \in Window!Entries(pages) : e.m > 0 /\ e.v = ver[e.m]
      BY <2>1, <2>2, <2>3 DEF Good, Recent, Copied
    <2>5. \A p \in DOMAIN pages : \A i \in DOMAIN pages[p].items : pages[p].items[i].m > 0
      BY <2>4, EntriesOf
    <2>6. \A p, q \in DOMAIN pages : \A i \in DOMAIN pages[p].items, j \in DOMAIN pages[q].items :
             p > q \/ (p = q /\ i < j) => pages[p].items[i].m < pages[q].items[j].m
      BY <2>2, <2>5 DEF Good, Piece, InPlace
    <2>7. \A e \in Window!Entries(pages) : e.m \in Real(pages)
      BY <2>4, Zenon DEF Real
    <2>8. \A m \in Real(pages) : m \in 1 .. total
      <3> SUFFICES ASSUME NEW m \in Real(pages) PROVE m \in 1 .. total
        OBVIOUS
      <3>1. PICK e \in Window!Entries(pages) : m = e.m /\ e.m > 0
        BY Zenon DEF Real
      <3>2. e \in EntrySet(total, ver)
        BY <2>2, <3>1, FitsMeans, EntriesOf
      <3>3. m \in 1 .. total \/ m \in Copying
        BY <3>1, <3>2 DEF EntrySet
      <3> QED
        BY <3>1, <3>3, WindowNumbers DEF Copying
    <2>9. ASSUME NEW d \in Window!Entries(pages), NEW e \in Window!Entries(pages), NEW m \in d.m .. e.m
          PROVE  Window!Has(m)
      <3>1. d.m \in Real(pages) /\ e.m \in Real(pages)
        BY <2>7
      <3>2. m \in Real(pages)
        BY <2>2, <3>1 DEF Good, Piece, Unbroken
      <3>3. m > 0
        BY <2>8, <3>2
      <3> QED
        BY <3>2, <3>3, HasReal
    <2>10. ASSUME view = "latest", total > 0 PROVE total \in Real(pages)
      <3>1. Reaches(pages, total, bus, replies)
        BY <2>2, <2>10 DEF Good
      <3>2. total \in 1 .. total
        BY <2>2, <2>10
      <3>3. ~\A k \in Real(pages) : k < total
        BY <2>3, <3>1, <3>2 DEF Reaches
      <3>4. PICK k \in Real(pages) : ~(k < total)
        BY <3>3
      <3>5. k = total
        BY <2>2, <2>8, <3>4
      <3> QED
        BY <3>5
    <2>11. view = "latest" /\ total > 0 => Window!Has(total)
      BY <2>10, HasReal
    <2>12. PICK o : o = pages[Len(pages)].older
      OBVIOUS
    <2>13. Opens(pages, o)
      BY <2>2, <2>12 DEF Good, Piece
    <2>14. ASSUME o = 0, total > 0 PROVE Window!Has(1)
      <3>1. Real(pages) # {}
        BY <2>2, <2>10, <2>14 DEF Good
      <3>2. 1 \in Real(pages) /\ 1 > 0
        BY <2>13, <2>14, <3>1 DEF Opens
      <3> QED
        BY <3>2, HasReal
    <2>15. ASSUME o # 0 PROVE o > 1 /\ Window!Has(o) /\ ~Window!Has(o - 1)
      <3>1. o > 1 /\ o \in Real(pages) /\ \A m \in Real(pages) : o <= m
        BY <2>13, <2>15 DEF Opens
      <3>2. o \in 1 .. total
        BY <2>8, <3>1
      <3>3. o - 1 > 0 /\ o > 0 /\ ~(o <= o - 1)
        BY <2>2, <3>1, <3>2
      <3>4. o - 1 \notin Real(pages)
        BY <3>1, <3>3
      <3> QED
        BY <3>1, <3>3, <3>4, HasReal
    <2> QED
      BY <2>4, <2>6, <2>9, <2>11, <2>12, <2>14, <2>15, Zenon
  <1>3. Window!WindowExact
    BY <1>2 DEF Window!WindowExact
  <1> QED
    BY <1>1, <1>3

LEMMA WindowTyped == WindowInv => Window!TypeOK
  <1> SUFFICES ASSUME WindowInv PROVE Window!TypeOK
    OBVIOUS
  <1>1. WindowTypes /\ MadeOnce /\ RepliesSound /\ total \in Nat
    BY DEF WindowInv, WindowTypes
  <1>2. total \in WindowOld .. WindowMessages
    BY <1>1, WindowNumbers DEF WindowTypes
  <1>3. mine \subseteq 1 .. total
    <2> SUFFICES ASSUME NEW m \in mine PROVE m \in 1 .. total
      OBVIOUS
    <2>1. PICK a \in 1 .. WindowAttempts : made[a] # 0 /\ m = made[a]
      BY <1>1, Zenon DEF MadeOnce
    <2>2. made[a] \in 0 .. total
      BY <1>1 DEF MadeOnce
    <2> QED
      BY <1>1, <2>1, <2>2
  <1>4. \A r \in replies : r.m \in 1 .. total /\ r.v \in 1 .. ver[r.m]
    BY <1>1 DEF RepliesSound, ReplyRow
  <1>5. Len(pages) > 0 /\ \A p \in DOMAIN pages : pages[p].older \in 0 .. total
    BY <1>1, FitsMeans DEF WindowTypes
  <1>6. bus \subseteq 1 .. total /\ odd \subseteq {"stray", "late", "crossed", "missed"}
    BY <1>1 DEF WindowTypes, Kinds
  <1> QED
    BY <1>2, <1>3, <1>4, <1>5, <1>6 DEF Window!TypeOK

\* Whatever events, answers and loads cross in a window, once it is at rest and
\* nothing odd has happened since the last reload it shows an unbroken piece of
\* the thread as it is, up to the newest message unless a search result is open,
\* and offers older ones exactly when there are any; and an attempt to send makes
\* one message however often it is repeated (MessagesPage.tsx, messageCache.ts,
\* useMessageRealtime.ts, messagesPage and post of messages.service.ts).
THEOREM WindowSound == Spec => []WindowExact
  <1> DEFINE Inv == focus = "window" => WindowInv
  <1>1. Init => Inv
    BY InitWindow DEF Init
  <1>2. Inv /\ [Next]_vars => Inv'
    <2> SUFFICES ASSUME Inv, [Next]_vars, focus' = "window" PROVE WindowInv'
      OBVIOUS
    <2>1. focus = "window"
      BY DEF Next, vars
    <2>2. Window!Next \/ UNCHANGED Window!vars
      BY <2>1 DEF Next, vars, from9, from12, from15, Window!vars, Window!server, Window!cache,
         Window!tries, Window!wire, Window!loads
    <2> QED
      BY <2>1, <2>2, StepKeepsWindow
  <1>3. Inv => WindowExact
    BY WindowFollows DEF WindowExact
  <1> QED
    BY <1>1, <1>2, <1>3, PTL DEF Spec

-----------------------------------------------------------------------------
(* The types of all of them; mostly parts of the invariants.               *)

OpeningStages == {"idle", "lookup", "find", "attach", "insert", "again",
                  "record", "context", "join", "open", "done", "refused"}
OpeningTypes ==
    /\ pc \in [Requests -> OpeningStages]
    /\ \A r \in Requests : pc[r] = "idle" => asked[r].thread = Opening!NoThread

LEMMA RequestGoesOn ==
    ASSUME OpeningInv, OpeningTypes, NEW r \in Requests, Opening!Create(r) \/ Opening!GroupThread(r)
    PROVE  /\ \E x \in OpeningStages \ {"idle"} : pc' = [pc EXCEPT ![r] = x]
           /\ \A q \in Requests \ {r} : asked'[q] = asked[q]
  <1>0. DOMAIN asked = Requests
    BY DEF OpeningInv, OpenersSound
  <1>1. CASE Opening!Arrive(r) \/ Opening!ArriveContext(r)
    BY <1>0, <1>1 DEF Opening!Arrive, Opening!ArriveContext, Opening!Go, OpeningStages
  <1>2. CASE Opening!Replay(r) \/ Opening!LookUp(r)
    BY <1>0, <1>2 DEF Opening!Replay, Opening!LookUp, Opening!Answer, Opening!Go, OpeningStages
  <1>3. CASE Opening!Find(r) \/ Opening!FindAgain(r)
    BY <1>0, <1>3 DEF Opening!Find, Opening!FindAgain, Opening!Go, OpeningStages
  <1>4. CASE Opening!Attach(r) \/ Opening!RecordWinner(r) \/ Opening!InsertFails(r)
    BY <1>0, <1>4 DEF Opening!Attach, Opening!RecordWinner, Opening!InsertFails, Opening!Go, OpeningStages
  <1>5. CASE Opening!Insert(r) \/ Opening!Open(r)
    BY <1>0, <1>5 DEF Opening!Insert, Opening!Open, Opening!Answer, Opening!Go, OpeningStages
  <1>6. CASE Opening!ReadContext(r) \/ Opening!ContextMissing(r) \/ Opening!Join(r)
    BY <1>0, <1>6 DEF Opening!ReadContext, Opening!ContextMissing, Opening!Join, Opening!Go, OpeningStages
  <1> QED
    BY <1>1, <1>2, <1>3, <1>4, <1>5, <1>6 DEF Opening!Create, Opening!GroupThread

LEMMA StepTypesOpening ==
    OpeningInv /\ OpeningTypes /\ (Opening!Next \/ UNCHANGED Opening!vars) => OpeningTypes'
  <1> SUFFICES ASSUME OpeningInv, OpeningTypes, Opening!Next \/ UNCHANGED Opening!vars PROVE OpeningTypes'
    OBVIOUS
  <1>1. CASE UNCHANGED <<pc, asked>>
    BY <1>1 DEF OpeningTypes
  <1>2. ASSUME NEW r \in Requests, Opening!Create(r) \/ Opening!GroupThread(r) PROVE OpeningTypes'
    <2>1. PICK x \in OpeningStages \ {"idle"} : pc' = [pc EXCEPT ![r] = x]
      BY <1>2, RequestGoesOn
    <2>2. \A q \in Requests \ {r} : asked'[q] = asked[q]
      BY <1>2, RequestGoesOn
    <2> QED
      BY <2>1, <2>2 DEF OpeningTypes
  <1> QED
    BY <1>1, <1>2 DEF Opening!Next, Opening!GroupJoin, Opening!vars

LEMMA OpeningTyped == OpeningInv /\ OpeningTypes => Opening!TypeOK
  <1> SUFFICES ASSUME OpeningInv, OpeningTypes PROVE Opening!TypeOK
    OBVIOUS
  <1>1. \A p \in People \X Names : idem[p].thread \in Opening!Threads \cup {Opening!NoThread}
    BY DEF OpeningInv, RecordsSound, RecordRows, Opening!NoRecord
  <1>2. ASSUME NEW r \in Requests PROVE asked[r].thread \in Opening!Threads \cup {Opening!NoThread}
    <2>1. pc[r] # "idle" => Creates(r) \/ Contexts(r)
      BY DEF OpeningInv, OpenersSound, Stands, OpeningTypes, OpeningStages
    <2> QED
      BY <2>1 DEF OpeningTypes, Creates, Contexts, CreateRows, ContextRows
  <1> QED
    BY <1>1, <1>2 DEF OpeningInv, ThreadsSound, OpeningTypes, OpeningStages, Opening!TypeOK

PostTypes == subscription \in [People -> {"ABSENT", "NONE", "MENTIONS", "ALL"}]

LEMMA StepTypesPost ==
    PostTypes /\ (Post!TextNext \/ Post!TalkNext \/ UNCHANGED Post!vars) => PostTypes'
  <1> SUFFICES ASSUME PostTypes, Post!TextNext \/ Post!TalkNext \/ UNCHANGED Post!vars PROVE PostTypes'
    OBVIOUS
  <1>1. CASE UNCHANGED subscription
    BY <1>1 DEF PostTypes
  <1>2. CASE Post!Create
    BY <1>2 DEF Post!Create, PostTypes
  <1>3. CASE Post!Subscribe
    BY <1>3 DEF Post!Subscribe, PostTypes
  <1>4. ASSUME NEW s \in Slots, Post!CommitComment(s) PROVE PostTypes'
    BY <1>4 DEF Post!CommitComment, PostTypes
  <1>5. Post!Refetch \/ Post!Move => UNCHANGED subscription
    BY DEF Post!Refetch, Post!Move, Post!talk
  <1>6. ASSUME NEW s \in Slots,
               \/ Post!BeginUpdate(s) \/ Post!BeginOther(s) \/ Post!BeginArchive(s) \/ Post!BeginAck(s)
               \/ Post!BeginToggle(s) \/ Post!BeginComment(s)
        PROVE  UNCHANGED subscription
    BY <1>6 DEF Post!BeginUpdate, Post!BeginOther, Post!BeginArchive, Post!BeginAck, Post!BeginToggle,
                Post!BeginComment, Post!Begin, Post!talk
  <1>7. ASSUME NEW s \in Slots,
               Post!CommitUpdate(s) \/ Post!CommitArchive(s) \/ Post!CommitAck(s) \/ Post!CommitToggle(s) \/ Post!Refuse(s)
        PROVE  UNCHANGED subscription
    BY <1>7 DEF Post!CommitUpdate, Post!CommitArchive, Post!CommitAck, Post!CommitToggle, Post!Refuse, Post!talk, Post!people
  <1>8. UNCHANGED Post!vars => UNCHANGED subscription
    BY DEF Post!vars, Post!talk
  <1> QED
    BY <1>1, <1>2, <1>3, <1>4, <1>5, <1>6, <1>7, <1>8 DEF Post!TextNext, Post!TalkNext

LEMMA PostTyped == PostInv /\ PostTypes => Post!TypeOK
  <1> SUFFICES ASSUME PostInv, PostTypes PROVE Post!TypeOK
    OBVIOUS
  <1>1. wanted \subseteq People \X Nat /\ acked \subseteq People \X Nat
    BY DEF PostInv, PostSound
  <1> QED
    BY <1>1 DEF PostInv, PostSound, PostRows, LikesSound, CardSound, PostTypes, Post!TypeOK

ReadingTypes == counts \subseteq Sources /\ cursor <= clock /\ walk.next <= Places

LEMMA StepTypesReading ==
    ReadingInv /\ ReadingTypes /\ (Reading!Next \/ UNCHANGED Reading!vars) => ReadingTypes'
  <1> SUFFICES ASSUME ReadingInv, ReadingTypes, Reading!Next \/ UNCHANGED Reading!vars PROVE ReadingTypes'
    OBVIOUS
  <1>0. PlacesSound /\ walk \in Walks /\ clock \in Nat /\ cursor \in Nat
    BY DEF ReadingInv, PlacesSound, WalkSound
  <1>1. CASE UNCHANGED Reading!vars
    BY <1>1 DEF Reading!vars, Reading!reader, ReadingTypes
  <1>2. ASSUME NEW s \in Sources, Reading!Touch(s) PROVE walk'.next = walk.next
    BY <1>0, <1>2 DEF Reading!Touch, Walks
  <1>3. ASSUME NEW s \in Sources, Reading!Live(s) PROVE ReadingTypes'
    BY <1>0, <1>2, <1>3 DEF Reading!Live, ReadingTypes
  <1>4. ASSUME NEW s \in Sources, Reading!Move(s) PROVE ReadingTypes'
    BY <1>0, <1>2, <1>4 DEF Reading!Move, ReadingTypes
  <1>5. ASSUME NEW s \in Sources, Reading!Import(s) PROVE ReadingTypes'
    BY <1>0, <1>2, <1>5, ImportIs DEF ReadingTypes
  <1>6. CASE Reading!FirstPage
    <2>1. PICK p : p = Reading!Page(Reading!Start)
      OBVIOUS
    <2>2. Reading!Start \in Nat
      BY PagesAssumption DEF Reading!Start
    <2>3. p.next <= Places
      BY <1>0, <2>1, <2>2, PageBounded
    <2>4. walk' = [seen |-> p.items, next |-> p.next, calm |-> Sources] /\ UNCHANGED <<counts, cursor, clock>>
      BY <1>6, <2>1 DEF Reading!FirstPage
    <2> QED
      BY <2>3, <2>4 DEF ReadingTypes
  <1>7. CASE Reading!NextPage
    <2>1. PICK p : p = Reading!Page(walk.next)
      OBVIOUS
    <2>2. walk.next \in Nat
      BY <1>0 DEF Walks
    <2>3. p.next <= Places
      BY <1>0, <2>1, <2>2, PageBounded
    <2>4. walk' = [walk EXCEPT !.seen = @ \o p.items, !.next = p.next] /\ UNCHANGED <<counts, cursor, clock>>
      BY <1>7, <2>1 DEF Reading!NextPage
    <2>5. walk'.next = p.next
      BY <1>0, <2>4 DEF Walks
    <2> QED
      BY <2>3, <2>4, <2>5 DEF ReadingTypes
  <1>8. CASE Reading!MarkRead
    BY <1>8 DEF Reading!MarkRead, ReadingTypes
  <1>9. CASE Reading!FindLatest \/ Reading!FindCursor
    BY <1>9 DEF Reading!FindLatest, Reading!FindCursor, Reading!reader, ReadingTypes
  <1>10. CASE Reading!Upsert
    <2>1. cursor' \in Nat /\ cursor' <= Cutover /\ Cutover <= clock /\ UNCHANGED <<counts, clock, walk>>
      BY <1>0, <1>10, UpsertIs DEF PlacesSound
    <2> QED
      BY <1>0, <2>1, PagesAssumption DEF ReadingTypes
  <1>11. ASSUME NEW q \in marking, Reading!Take(q) PROVE ReadingTypes'
    BY <1>11, TakeIs DEF ReadingTypes
  <1>12. ASSUME NEW q \in marking, Reading!Look(q) \/ Reading!Lose(q) PROVE ReadingTypes'
    BY <1>12 DEF Reading!Look, Reading!Lose, Reading!reader, ReadingTypes
  <1> QED
    BY <1>1, <1>3, <1>4, <1>5, <1>6, <1>7, <1>8, <1>9, <1>10, <1>11, <1>12 DEF Reading!Next

LEMMA ReadingTyped == ReadingInv /\ ReadingTypes => Reading!TypeOK
  <1> SUFFICES ASSUME ReadingInv, ReadingTypes PROVE Reading!TypeOK
    OBVIOUS
  <1>1. walk.seen \in Seq(Sources) /\ walk.next \in Nat /\ walk.calm \subseteq Sources
    BY DEF ReadingInv, WalkSound, Walks
  <1>2. head \in [Sources -> Nat] /\ \A s \in Sources : head[s] \in 0 .. Places
    BY PagesAssumption DEF ReadingInv, PlacesSound
  <1>3. head \in [Sources -> 0 .. Places]
    BY <1>2
  <1>4. clock \in Cutover .. Places /\ cursor \in 0 .. Places /\ marker \in 0 .. Places /\ sent \in 0 .. Places
    BY PagesAssumption DEF ReadingInv, PlacesSound, ReadingTypes
  <1>5. counts \cup row \cup shown \cup walk.calm \subseteq Sources
    BY <1>1 DEF ReadingInv, PlacesSound, ReadingTypes
  <1>6. walk.next \in 0 .. Places
    BY <1>1, PagesAssumption DEF ReadingTypes
  <1>7. /\ past \in [Sources -> 0 .. Cutover]
        /\ seed \in [latest : 0 .. Cutover, behind : BOOLEAN, crossed : BOOLEAN]
    BY DEF ReadingInv, SeedSound
  <1>8. marking \subseteq [to : 1 .. Places, found : BOOLEAN]
    <2> SUFFICES ASSUME NEW q \in marking PROVE q \in [to : 1 .. Places, found : BOOLEAN]
      OBVIOUS
    <2>1. q \in [to : Nat, found : BOOLEAN] /\ q.to # 0 /\ q.to <= clock /\ clock <= Places /\ clock \in Nat
      BY DEF ReadingInv, SeedSound, PlacesSound
    <2>2. q.to \in 1 .. Places
      BY <2>1, PagesAssumption
    <2> QED
      BY <2>1, <2>2
  <1> QED
    BY <1>1, <1>3, <1>4, <1>5, <1>6, <1>7, <1>8 DEF Reading!TypeOK

LEMMA InboxTyped == InboxInv => Inbox!TypeOK
  <1> SUFFICES ASSUME InboxInv PROVE Inbox!TypeOK
    OBVIOUS
  <1>0. InboxThreads \in Nat /\ InboxPosts \in Nat
    BY InboxAssumption
  <1>1. opened \in 1 .. InboxThreads /\ now \in 0 .. InboxPosts
    BY DEF InboxInv, RowsSound
  <1>2. \A t \in 1 .. InboxThreads : recent[t] \in 0 .. now /\ readTo[t] \in 0 .. recent[t]
    BY <1>0, <1>1 DEF InboxInv, RowsSound
  <1>3. \A t \in Inbox!Threads : t \in 1 .. InboxThreads
    BY <1>0, <1>1 DEF Inbox!Threads
  <1>4. more.at \in -1 .. now
    BY <1>1 DEF InboxInv, ListSound, Cursors, Inbox!None
  <1> QED
    BY <1>1, <1>2, <1>3, <1>4 DEF InboxInv, RowsSound, Inbox!TypeOK

\* The rows, requests and caches of a thread, an opening, a window, a list of threads,
\* a post and a feed being read stay within their types (schema.prisma,
\* messageCache.ts, FeedPage.tsx).
THEOREM ConversationsTyped == Spec => []TypesOK
  <1> DEFINE Inv ==
        /\ focus = "thread" => ThreadInv
        /\ focus = "opening" => OpeningInv /\ OpeningTypes
        /\ focus = "window" => WindowInv
        /\ focus = "inbox" => InboxInv
        /\ focus \in {"text", "talk"} => PostInv /\ PostTypes
        /\ focus = "reading" => ReadingInv /\ ReadingTypes
  <1>1. Init => Inv
    <2>1. Opening!Init => OpeningTypes
      BY DEF Opening!Init, OpeningTypes, OpeningStages, Opening!NoRecord
    <2>2. Post!Init => PostTypes
      BY DEF Post!Init, PostTypes
    <2>3. Reading!Init => ReadingTypes
      BY PagesAssumption DEF Reading!Init, ReadingTypes
    <2> QED
      BY <2>1, <2>2, <2>3, InitThread, ThreadAssumption, InitOpening, OpeningAssumption, InitWindow, InitInbox,
         InitPost, InitReading DEF Init
  <1>2. Inv /\ [Next]_vars => Inv'
    <2> SUFFICES ASSUME Inv, [Next]_vars PROVE Inv'
      OBVIOUS
    <2>0. focus' = focus
      BY DEF Next, vars
    <2>1. focus = "thread" => ThreadInv'
      BY StepKeepsThread DEF Next, vars, from9, Thread!vars, Thread!members, Thread!messages, Thread!thread
    <2>2. focus = "opening" => OpeningInv' /\ OpeningTypes'
      BY StepKeepsOpening, StepTypesOpening DEF Next, vars, Opening!vars, Opening!threads
    <2>3. focus = "window" => WindowInv'
      BY StepKeepsWindow DEF Next, vars, from9, from12, from15, Window!vars, Window!server, Window!cache,
         Window!tries, Window!wire, Window!loads
    <2>4. focus = "inbox" => InboxInv'
      BY StepKeepsInbox DEF Next, vars, from9, from12, from15, Inbox!vars, Inbox!rows, Inbox!page
    <2>5. focus \in {"text", "talk"} => PostInv' /\ PostTypes'
      BY StepKeepsPost, StepTypesPost
      DEF Next, vars, from9, Post!vars, Post!rows, Post!people, Post!talk, Post!page, Post!liking
    <2>6. focus = "reading" => ReadingInv' /\ ReadingTypes'
      BY StepKeepsReading, StepTypesReading
      DEF Next, vars, from9, Reading!vars, Reading!reader, Reading!marks
    <2> QED
      BY <2>0, <2>1, <2>2, <2>3, <2>4, <2>5, <2>6
  <1>3. Inv => TypesOK
    BY OpeningTyped, WindowTyped, InboxTyped, PostTyped, ReadingTyped DEF TypesOK, ThreadInv
  <1> QED
    BY <1>1, <1>2, <1>3, PTL DEF Spec
=============================================================================
