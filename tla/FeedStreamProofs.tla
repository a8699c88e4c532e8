-------------------------- MODULE FeedStreamProofs --------------------------
(***************************************************************************)
(* Proofs about FeedStream, for any users, posts, tasks, requests and      *)
(* versions.                                                               *)
(*                                                                         *)
(* Every write of an item, by a request or by the worker, has one effect   *)
(* (Writes); the lemmas about it are used for each of the four actions     *)
(* that write.  What holds without overlap only rests on two facts: no two *)
(* requests are in flight (Alone), and so what the one in flight has read  *)
(* of a post still stands (Awaited).                                       *)
(***************************************************************************)
EXTENDS FeedStream, TLAPS

ItemRows == [src : Sources, ver : Nat, byJob : BOOLEAN, at : Nat, rank : Int]
PostOps  == {"create", "update", "archive"}

\* A request names what exists and has seen no version or time yet to come.
Sound(r) ==
    /\ r.op \in PostOps \cup {"find", "star", "read"}
    /\ r.op \in PostOps => /\ r.src \in Posts /\ r.at \in 1..clock
                           /\ r.seen \in 0..(MaxVersion - 1) /\ r.seen <= version[r.src]
    /\ r.op \in {"find", "star", "read"} => r.by \in Users /\ r.item \in items
    /\ r.op = "star" => r.all \subseteq items

RequestsSound == DOMAIN req = Slots /\ \A t \in Slots : req[t] # Idle => Sound(req[t])

\* The worker carries an event of a version the task has reached.
JobSound ==
    job # Idle => /\ job.src \in Tasks
                  /\ job.ver \in 1..version[job.src] /\ job.at \in 1..clock

\* Rows have their columns; events are of versions that were written.
RowsSound ==
    /\ items \subseteq ItemRows
    /\ cursor \in [Users -> [at : Nat, rank : Int]]
    /\ \A s \in Tasks : version[s] > 0 => changedAt[s] > 0
    /\ \A s \in Tasks, v \in Nat : <<s, v>> \in events => v <= version[s]
    /\ \A s \in Sources : head[s] # NoItem => head[s].src = s

TypeInv == TypeOK /\ RowsSound /\ RequestsSound /\ JobSound

\* Without overlap one request at most is in flight.
Alone == serial => \A t, o \in Slots : req[t] # Idle /\ req[o] # Idle => t = o

\* Without overlap the request in flight is ahead of every cursor with the
\* version it will write, or knows the head and all the items of the post it
\* will star.
Ahead(r) == r.op \in PostOps => \A u \in Users : cursor[u].at < r.at
Knows(r) ==
    r.op \in {"find", "star"} /\ r.item.src \in Posts =>
        /\ head[r.item.src] = r.item
        /\ r.op = "star" => r.all = Of(r.item.src)
Awaited == serial => \A t \in Slots : req[t] # Idle => Ahead(req[t]) /\ Knows(req[t])

IInv == TypeInv /\ FeedShape /\ Alone /\ Awaited /\ PostStarsOnHeads

-----------------------------------------------------------------------------
(* Writing an item.                                                        *)

Writes(i) ==
    /\ items' = items \cup {i}
    /\ head' = IF Advances(i) THEN [head EXCEPT ![i.src] = i] ELSE head
    /\ favourites' = Moved(i.src, i)

LEMMA RowWritten ==
    ASSUME TypeInv, NEW s \in Sources, NEW v \in Nat, NEW byJob \in BOOLEAN, NEW time \in Nat,
           WriteItem(s, v, byJob, time)
    PROVE  \E i \in ItemRows : /\ i.src = s /\ i.ver = v /\ i.byJob = byJob /\ i.at = time
                               /\ Writes(i)
  <1>1. PICK r \in Ranks(s) :
            LET i == [src |-> s, ver |-> v, byJob |-> byJob, at |-> time, rank |-> r]
            IN  /\ items' = items \cup {i}
                /\ head' = IF Advances(i) THEN [head EXCEPT ![s] = i] ELSE head
                /\ favourites' = Moved(s, i)
    BY DEF WriteItem
  <1>2. r \in Int
    BY ConstantsAssumption DEF Ranks, TypeInv, TypeOK
  <1> DEFINE i == [src |-> s, ver |-> v, byJob |-> byJob, at |-> time, rank |-> r]
  <1>3. i \in ItemRows
    BY <1>2 DEF ItemRows
  <1>4. Writes(i)
    BY <1>1 DEF Writes
  <1> QED
    BY <1>3, <1>4

\* Rows and stars keep their shape.
LEMMA WriteKeepsRows ==
    ASSUME TypeInv, NEW i \in ItemRows, Writes(i)
    PROVE  /\ items' \subseteq ItemRows
           /\ head' \in [Sources -> items' \cup {NoItem}]
           /\ \A s \in Sources : head'[s] # NoItem => head'[s].src = s
           /\ favourites' \in [Users -> SUBSET items']
  BY DEF Writes, TypeInv, TypeOK, RowsSound, Moved, ItemRows, Of

\* A write that is the new version of its post, or is of a task, leaves the newest
\* item of every source its head.
LEMMA WriteKeepsHeads ==
    ASSUME TypeInv, HeadIsNewest, NEW i \in ItemRows, Writes(i),
           i.src \in Posts => i.ver > version[i.src],
           \A s \in Posts : version'[s] = IF s = i.src THEN i.ver ELSE version[s]
    PROVE  HeadIsNewest'
  <1>1. i # NoItem
    BY ConstantsAssumption DEF ItemRows, Sources
  <1>2. \A j \in items : j \in ItemRows /\ j.ver <= version[j.src] /\ version[j.src] \in Nat
    BY DEF TypeInv, TypeOK, RowsSound, ItemRows
  <1>3. \A s \in Sources : head[s] # NoItem => head[s] \in items /\ head[s].src = s
    BY DEF TypeInv, TypeOK, RowsSound
  <1>4. \A j \in items' : head'[j.src] # NoItem /\ head'[j.src].ver >= j.ver
    BY <1>1, <1>2, <1>3 DEF Writes, HeadIsNewest, Advances, TypeInv, TypeOK, ItemRows
  <1>5. \A s \in Posts : version'[s] > 0 => head'[s].ver = version'[s]
    <2> SUFFICES ASSUME NEW s \in Posts, version'[s] > 0 PROVE head'[s].ver = version'[s]
      OBVIOUS
    <2>1. CASE s = i.src
      <3>1. Advances(i)
        BY <2>1, <1>2, <1>3 DEF Advances, ItemRows
      <3> QED
        BY <3>1, <2>1 DEF Writes, TypeInv, TypeOK, Sources
    <2>2. CASE s # i.src
      BY <2>2 DEF Writes, HeadIsNewest, TypeInv, TypeOK
    <2> QED
      BY <2>1, <2>2
  <1> QED
    BY <1>4, <1>5 DEF HeadIsNewest

\* A write of a version no item has leaves each version in the feed once.
LEMMA WriteKeepsOnce ==
    ASSUME OneItemPerVersion, NEW i, Writes(i),
           \A j \in items : ~(j.src = i.src /\ j.ver = i.ver /\ j.byJob = i.byJob)
    PROVE  OneItemPerVersion'
  BY DEF Writes, OneItemPerVersion

\* Stars on a post follow its head if a write to a post advances it.
LEMMA WriteKeepsPostStars ==
    ASSUME TypeInv, PostStarsOnHeads, NEW i \in ItemRows, Writes(i), UNCHANGED serial,
           i.src \in Posts => Advances(i)
    PROVE  PostStarsOnHeads'
  <1> SUFFICES ASSUME serial, NEW u \in Users, NEW k \in favourites'[u], k.src \in Posts
               PROVE  head'[k.src] = k
    BY DEF PostStarsOnHeads
  <1>1. favourites[u] \subseteq items /\ head \in [Sources -> items \cup {NoItem}]
    BY DEF TypeInv, TypeOK
  <1>2. \A j \in favourites[u] : j.src \in Posts => head[j.src] = j
    BY DEF PostStarsOnHeads
  <1>3. CASE k.src = i.src
    <2>1. k = i
      BY <1>1, <1>3 DEF Writes, Moved, Of
    <2> QED
      BY <2>1, <1>1 DEF Writes, Sources
  <1>4. CASE k.src # i.src
    <2>1. k \in favourites[u]
      BY <1>4 DEF Writes, Moved
    <2> QED
      BY <2>1, <1>1, <1>2, <1>4 DEF Writes
  <1> QED
    BY <1>3, <1>4

\* A write moves the stars of active users of the company within a source.
LEMMA WriteKeepsStars ==
    ASSUME TypeInv, NEW i \in ItemRows, Writes(i), NEW u \in Users, NEW s \in Sources,
           favourites[u] \cap Of(s) # {}, u \in home
    PROVE  favourites'[u] \cap Of(s)' # {}
  <1>1. CASE s = i.src
    <2>1. favourites'[u] = (favourites[u] \ Of(s)) \cup {i}
      BY <1>1 DEF Writes, Moved
    <2>2. i \in Of(s)'
      BY <1>1 DEF Writes, Of
    <2> QED
      BY <2>1, <2>2
  <1>2. CASE s # i.src
    <2>1. PICK j \in favourites[u] : j \in items /\ j.src = s
      BY DEF Of
    <2>2. j \in favourites'[u]
      BY <2>1, <1>2 DEF Writes, Moved, Of
    <2>3. j \in Of(s)'
      BY <2>1 DEF Writes, Of
    <2> QED
      BY <2>2, <2>3
  <1> QED
    BY <1>1, <1>2

-----------------------------------------------------------------------------
(* Initial states, and steps that write no item.                           *)

LEMMA InitIInv == Init => IInv
  BY ConstantsAssumption
  DEF Init, IInv, TypeInv, TypeOK, RowsSound, RequestsSound, JobSound, FeedShape, HeadIsNewest,
      OneItemPerVersion, Alone, Awaited, PostStarsOnHeads, Sources, Origin

\* The rows a request or a step of the worker leaves alone.
Rests == UNCHANGED <<sources, feed, home, serial>>

\* A request starts when it is alone, or where overlap is allowed.
LEMMA StartKeeps ==
    ASSUME IInv, NEW t \in Slots, NEW r, Free(t), Start(t, r), UNCHANGED <<home, serial>>,
           clock' \in {clock, clock + 1}, Sound(r)', serial => Ahead(r)' /\ Knows(r)'
    PROVE  IInv'
  <1> USE DEF IInv
  <1>1. TypeOK' /\ RowsSound'
    BY ConstantsAssumption DEF TypeInv, TypeOK, RowsSound, Start, Free, sources, feed
  <1>2. RequestsSound'
    <2>1. DOMAIN req' = Slots /\ req'[t] = r
      BY DEF Start, TypeInv, RequestsSound
    <2>2. \A o \in Slots : o # t => req'[o] = req[o]
      BY DEF Start, TypeInv, RequestsSound
    <2>3. \A o \in Slots : req[o] # Idle => Sound(req[o])'
      BY DEF TypeInv, TypeOK, RequestsSound, Sound, PostOps, Start, sources, feed
    <2> QED
      BY <2>1, <2>2, <2>3 DEF RequestsSound
  <1>3. JobSound'
    BY DEF TypeInv, TypeOK, JobSound, Start, sources
  <1>4. FeedShape' /\ PostStarsOnHeads'
    BY DEF FeedShape, HeadIsNewest, OneItemPerVersion, PostStarsOnHeads, Start, sources, feed
  <1>5. serial => \A o \in Slots : o # t => req'[o] = Idle
    BY DEF Free, Start, TypeInv, RequestsSound
  <1>6. Alone'
    BY <1>5 DEF Alone
  <1>7. Awaited'
    BY <1>5 DEF Awaited, Start, TypeInv, RequestsSound
  <1> QED
    BY <1>1, <1>2, <1>3, <1>4, <1>6, <1>7 DEF TypeInv

LEMMA BeginPostKeeps ==
    ASSUME IInv, NEW t \in Slots, NEW s \in Posts, NEW op \in PostOps,
           Free(t), BeginPost(t, s, op), UNCHANGED <<home, serial>>
    PROVE  IInv'
  <1>0. PICK r : r = [op |-> op, src |-> s, seen |-> version[s], at |-> clock + 1]
    OBVIOUS
  <1>1. Start(t, r) /\ clock' = clock + 1
    BY <1>0 DEF BeginPost
  <1>2. Sound(r)'
    <2>1. version' = version /\ version[s] \in 0..(MaxVersion - 1) /\ clock \in Nat
      BY <1>1, ConstantsAssumption
      DEF BeginPost, Start, sources, IInv, TypeInv, TypeOK, Sources
    <2> QED
      BY <1>0, <1>1, <2>1 DEF Sound, PostOps
  <1>3. Ahead(r)' /\ Knows(r)'
    BY <1>0, <1>1 DEF Ahead, Knows, PostOps, Start, IInv, TypeInv, TypeOK
  <1> QED
    BY <1>1, <1>2, <1>3, StartKeeps

LEMMA BeginReadKeeps ==
    ASSUME IInv, NEW t \in Slots, NEW u \in Users, NEW s \in Sources,
           Free(t), BeginRead(t, u, s), UNCHANGED <<home, serial>>
    PROVE  IInv'
  <1>0. PICK r : r = [op |-> "read", by |-> u, item |-> head[s]]
    OBVIOUS
  <1>1. Start(t, r) /\ clock' = clock /\ head[s] \in items
    BY <1>0 DEF BeginRead, Readable, IInv, TypeInv, TypeOK
  <1>2. Sound(r)'
    BY <1>0, <1>1 DEF Sound, PostOps, Start, feed
  <1>3. Ahead(r)' /\ Knows(r)'
    BY <1>0 DEF Ahead, Knows, PostOps
  <1> QED
    BY <1>1, <1>2, <1>3, StartKeeps

LEMMA BeginFavouriteKeeps ==
    ASSUME IInv, NEW t \in Slots, NEW u \in Users, NEW s \in Sources, NEW on \in BOOLEAN,
           Free(t), BeginFavourite(t, u, s, on), UNCHANGED <<home, serial>>
    PROVE  IInv'
  <1>0. PICK r : r = [op |-> "find", by |-> u, item |-> head[s], on |-> on]
    OBVIOUS
  <1>1. Start(t, r) /\ clock' = clock /\ head[s] \in items /\ head[s].src = s
    BY <1>0 DEF BeginFavourite, Readable, IInv, TypeInv, TypeOK, RowsSound
  <1>2. Sound(r)'
    BY <1>0, <1>1 DEF Sound, PostOps, Start, feed
  <1>3. Ahead(r)' /\ Knows(r)'
    BY <1>0, <1>1 DEF Ahead, Knows, PostOps, Start, feed
  <1> QED
    BY <1>1, <1>2, <1>3, StartKeeps

\* What a request in flight has read stays sound while rows are only added.
Adds == /\ items \subseteq items' /\ clock' >= clock /\ clock' \in Nat
        /\ version' \in [Sources -> Nat] /\ \A s \in Sources : version'[s] >= version[s]

LEMMA AddsKeepsSound ==
    ASSUME TypeInv, Adds, NEW r, Sound(r)
    PROVE  Sound(r)'
  BY DEF TypeInv, TypeOK, Adds, Sound, PostOps, Sources

\* A request ends without a trace.
LEMMA EndKeeps ==
    ASSUME IInv, NEW t \in Slots, Done(t), Rests, UNCHANGED <<clock, cursor, job>>
    PROVE  IInv'
  <1> USE DEF IInv, Rests, sources, feed
  <1>1. TypeOK' /\ RowsSound' /\ JobSound'
    BY DEF TypeInv, TypeOK, RowsSound, JobSound, Done
  <1>2. \A o \in Slots : req'[o] # Idle => req[o] # Idle /\ req'[o] = req[o]
    BY DEF Done, TypeInv, RequestsSound
  <1>3. DOMAIN req' = Slots
    BY DEF Done, TypeInv, RequestsSound
  <1>4. \A r : Sound(r)' <=> Sound(r)
    BY DEF Sound
  <1>5. RequestsSound'
    BY <1>2, <1>3, <1>4 DEF TypeInv, RequestsSound
  <1>6. FeedShape' /\ PostStarsOnHeads'
    BY DEF FeedShape, HeadIsNewest, OneItemPerVersion, PostStarsOnHeads
  <1>7. Alone'
    BY <1>2 DEF Alone
  <1>8. \A r : Ahead(r)' /\ Knows(r)' <=> Ahead(r) /\ Knows(r)
    BY DEF Ahead, Knows, Of
  <1>9. Awaited'
    BY <1>2, <1>8 DEF Awaited
  <1> QED
    BY <1>1, <1>5, <1>6, <1>7, <1>9 DEF TypeInv

LEMMA ListItemsKeeps ==
    ASSUME IInv, NEW t \in Slots, ListItems(t), UNCHANGED <<home, serial>>
    PROVE  IInv'
  <1> USE DEF IInv
  <1> DEFINE r == req[t]
             n == [op |-> "star", by |-> r.by, item |-> r.item, on |-> r.on, all |-> Of(r.item.src)]
  <1>1. req' = [req EXCEPT ![t] = n] /\ UNCHANGED <<sources, clock, feed, cursor, job, started>>
    BY DEF ListItems
  <1>2. r # Idle /\ r.op = "find" /\ Sound(r)
    BY DEF ListItems, TypeInv, RequestsSound
  <1>3. TypeOK' /\ RowsSound' /\ JobSound'
    BY <1>1 DEF TypeInv, TypeOK, RowsSound, JobSound, sources, feed
  <1>4. \A x : Sound(x)' <=> Sound(x)
    BY <1>1 DEF Sound, sources, feed
  <1>5. Sound(n)
    BY <1>2 DEF Sound, PostOps, Of
  <1>6. RequestsSound'
    BY <1>1, <1>4, <1>5 DEF TypeInv, RequestsSound
  <1>7. FeedShape' /\ PostStarsOnHeads'
    BY <1>1 DEF FeedShape, HeadIsNewest, OneItemPerVersion, PostStarsOnHeads, sources, feed
  <1>8. Alone'
    BY <1>1, <1>2 DEF Alone, TypeInv, RequestsSound
  <1>9. \A x : Ahead(x)' /\ Knows(x)' <=> Ahead(x) /\ Knows(x)
    BY <1>1 DEF Ahead, Knows, Of, feed
  <1>10. serial => Ahead(n) /\ Knows(n)
    BY <1>2 DEF Awaited, Ahead, Knows, PostOps
  <1>11. Awaited'
    BY <1>1, <1>9, <1>10 DEF Awaited, TypeInv, RequestsSound
  <1> QED
    BY <1>3, <1>6, <1>7, <1>8, <1>11 DEF TypeInv

LEMMA CommitFavouriteKeeps ==
    ASSUME IInv, NEW t \in Slots, CommitFavourite(t), UNCHANGED <<home, serial>>
    PROVE  IInv'
  <1> USE DEF IInv
  <1> DEFINE r == req[t]
  <1>1. /\ favourites' = [favourites EXCEPT
               ![r.by] = (@ \ r.all) \cup (IF r.on THEN {r.item} ELSE {})]
        /\ Done(t) /\ UNCHANGED <<sources, clock, items, head, cursor, job>>
    BY DEF CommitFavourite
  <1>2. r # Idle /\ r.op = "star" /\ r.by \in Users /\ r.item \in items
    BY DEF CommitFavourite, TypeInv, RequestsSound, Sound
  <1>0. favourites' \in [Users -> SUBSET items]
    BY <1>1, <1>2 DEF TypeInv, TypeOK
  <1>3. TypeOK' /\ RowsSound' /\ JobSound'
    <2>1. /\ UNCHANGED <<version, archived, changedAt, events, clock>>
          /\ UNCHANGED <<items, head, cursor, job, started>>
      BY <1>1 DEF sources, Done
    <2>2. TypeOK'
      BY <2>1, <1>0 DEF TypeInv, TypeOK
    <2>3. RowsSound' /\ JobSound'
      BY <2>1 DEF TypeInv, RowsSound, JobSound
    <2> QED
      BY <2>2, <2>3
  <1>4. \A o \in Slots : req'[o] # Idle => req[o] # Idle /\ req'[o] = req[o]
    BY <1>1 DEF Done, TypeInv, RequestsSound
  <1>5. \A x : (Sound(x)' <=> Sound(x)) /\ (Ahead(x)' <=> Ahead(x)) /\ (Knows(x)' <=> Knows(x))
    BY <1>1 DEF Sound, Ahead, Knows, Of, sources
  <1>6. RequestsSound'
    BY <1>1, <1>4, <1>5 DEF TypeInv, RequestsSound, Done
  <1>7. Alone' /\ Awaited'
    BY <1>4, <1>5 DEF Alone, Awaited
  <1>8. FeedShape'
    BY <1>1 DEF FeedShape, HeadIsNewest, OneItemPerVersion, sources
  <1>9. PostStarsOnHeads'
    <2> SUFFICES ASSUME serial, NEW u \in Users, NEW i \in favourites'[u], i.src \in Posts
                 PROVE  head[i.src] = i
      BY <1>1 DEF PostStarsOnHeads
    <2>1. CASE i \in favourites[u]
      BY <2>1 DEF PostStarsOnHeads
    <2>2. CASE i \notin favourites[u]
      <3>1. i = r.item
        BY <2>2, <1>1, <1>2 DEF TypeInv, TypeOK
      <3>2. Knows(r)
        BY <1>2 DEF Awaited
      <3> QED
        BY <3>1, <3>2, <1>2 DEF Knows
    <2> QED
      BY <2>1, <2>2
  <1> QED
    BY <1>3, <1>6, <1>7, <1>8, <1>9 DEF TypeInv

\* Nobody else is in flight without overlap, so a cursor that moves is ahead of none.
LEMMA CommitReadKeeps ==
    ASSUME IInv, NEW t \in Slots, CommitRead(t), UNCHANGED <<home, serial>>
    PROVE  IInv'
  <1> USE DEF IInv
  <1> DEFINE r == req[t]
  <1>1. /\ cursor' = IF Further(r) THEN [cursor EXCEPT ![r.by] = Place(r.item)] ELSE cursor
        /\ Done(t) /\ UNCHANGED <<sources, clock, feed, job>>
    BY DEF CommitRead
  <1>2. r # Idle /\ r.op = "read" /\ r.by \in Users /\ r.item \in items
    BY DEF CommitRead, TypeInv, RequestsSound, Sound
  <1>3. Place(r.item) \in [at : 0..clock, rank : Int]
    BY <1>2 DEF Place, TypeInv, TypeOK, RowsSound, ItemRows
  <1>4. TypeOK' /\ RowsSound' /\ JobSound'
    <2>1. UNCHANGED <<version, archived, changedAt, events, clock, items, head, favourites, job, started>>
      BY <1>1 DEF sources, feed, Done
    <2>2. /\ cursor' \in [Users -> [at : Nat, rank : Int]]
          /\ \A u \in Users : cursor'[u].at \in 0..clock
      BY <1>1, <1>2, <1>3 DEF TypeInv, TypeOK, RowsSound
    <2>3. TypeOK'
      BY <2>1, <2>2 DEF TypeInv, TypeOK
    <2>4. RowsSound' /\ JobSound'
      BY <2>1, <2>2 DEF TypeInv, RowsSound, JobSound
    <2> QED
      BY <2>3, <2>4
  <1>5. \A o \in Slots : req'[o] # Idle => o # t /\ req[o] # Idle /\ req'[o] = req[o]
    BY <1>1, <1>2 DEF Done, TypeInv, RequestsSound
  <1>6. RequestsSound'
    BY <1>1, <1>5 DEF TypeInv, RequestsSound, Done, Sound, sources, feed
  <1>7. serial => \A o \in Slots : req'[o] = Idle
    BY <1>2, <1>5 DEF Alone
  <1>8. Alone' /\ Awaited'
    BY <1>7 DEF Alone, Awaited
  <1>9. FeedShape' /\ PostStarsOnHeads'
    BY <1>1 DEF FeedShape, HeadIsNewest, OneItemPerVersion, PostStarsOnHeads, sources, feed
  <1> QED
    BY <1>4, <1>6, <1>8, <1>9 DEF TypeInv

-----------------------------------------------------------------------------
(* Steps that write an item.                                               *)

LEMMA CommitPostWrites ==
    ASSUME IInv, NEW t \in Slots, CommitPost(t)
    PROVE  \E i \in ItemRows :
              /\ i.src = req[t].src /\ i.ver = req[t].seen + 1 /\ i.byJob = FALSE
              /\ i.at = req[t].at /\ Writes(i)
  <1>1. PICK s, v, time, no : /\ s = req[t].src /\ v = req[t].seen + 1
                              /\ time = req[t].at /\ no = FALSE
    OBVIOUS
  <1>2. s \in Sources /\ v \in Nat /\ time \in Nat
    BY <1>1, ConstantsAssumption
    DEF CommitPost, Current, IInv, TypeInv, TypeOK, RequestsSound, Sound, PostOps, Sources
  <1>3. no \in BOOLEAN /\ WriteItem(s, v, no, time)
    BY <1>1 DEF CommitPost
  <1>4. \E i \in ItemRows : i.src = s /\ i.ver = v /\ i.byJob = no /\ i.at = time /\ Writes(i)
    BY <1>2, <1>3, RowWritten DEF IInv
  <1> QED
    BY <1>1, <1>4

LEMMA CommitPostKeeps ==
    ASSUME IInv, NEW t \in Slots, CommitPost(t), UNCHANGED <<home, serial>>
    PROVE  IInv'
  <1> USE DEF IInv
  <1> DEFINE r == req[t]
  <1>1. /\ r # Idle /\ r.op \in PostOps /\ Sound(r) /\ r.src \in Posts /\ r.src \in Sources
        /\ version[r.src] = r.seen /\ r.seen \in 0..(MaxVersion - 1) /\ r.at \in 1..clock
    BY ConstantsAssumption DEF CommitPost, Current, TypeInv, RequestsSound, Sound, PostOps, Sources
  <1>2. /\ version' = [version EXCEPT ![r.src] = r.seen + 1]
        /\ archived' \subseteq Posts
        /\ Done(t) /\ UNCHANGED <<changedAt, events, clock, cursor, job>>
    BY <1>1 DEF CommitPost, TypeInv, TypeOK
  <1>3. PICK i \in ItemRows : /\ i.src = r.src /\ i.ver = r.seen + 1 /\ i.byJob = FALSE /\ i.at = r.at
                              /\ Writes(i)
    BY CommitPostWrites
  <1>4. /\ version' \in [Sources -> 0..MaxVersion] /\ version'[r.src] = r.seen + 1
        /\ \A s \in Sources : s # r.src => version'[s] = version[s]
        /\ \A s \in Tasks : version'[s] = version[s]
    BY <1>1, <1>2, ConstantsAssumption DEF TypeInv, TypeOK, Sources
  <1>5. Adds
    BY <1>1, <1>2, <1>3, <1>4 DEF Adds, Writes, TypeInv, TypeOK
  <1>6. TypeOK'
    <2>1. \A j \in items' : j.src \in Sources /\ j.ver \in 1..version'[j.src] /\ j.at \in 1..clock'
      BY <1>1, <1>2, <1>3, <1>4 DEF Writes, TypeInv, TypeOK
    <2> QED
      BY <2>1, <1>2, <1>3, <1>4, WriteKeepsRows DEF TypeInv, TypeOK, Done
  <1>7. RowsSound'
    BY <1>2, <1>3, <1>4, WriteKeepsRows DEF TypeInv, RowsSound
  <1>8. JobSound'
    BY <1>2, <1>4 DEF TypeInv, JobSound
  <1>9. \A o \in Slots : req'[o] # Idle => o # t /\ req[o] # Idle /\ req'[o] = req[o]
    BY <1>1, <1>2 DEF Done, TypeInv, RequestsSound
  <1>10. RequestsSound'
    BY <1>2, <1>5, <1>9, AddsKeepsSound DEF TypeInv, RequestsSound, Done
  <1>11. FeedShape'
    <2>1. HeadIsNewest'
      BY <1>1, <1>3, <1>4, WriteKeepsHeads DEF FeedShape, TypeInv, TypeOK, Sources
    <2>2. \A j \in items : j.src = i.src => j.ver < i.ver
      BY <1>1, <1>3 DEF TypeInv, TypeOK
    <2>3. OneItemPerVersion'
      BY <1>3, <2>2, WriteKeepsOnce DEF FeedShape, TypeInv, TypeOK, ItemRows
    <2> QED
      BY <2>1, <2>3 DEF FeedShape
  <1>12. Alone' /\ Awaited'
    BY <1>1, <1>9 DEF Alone, Awaited
  <1>13. Advances(i)
    BY <1>1, <1>3 DEF Advances, TypeInv, TypeOK, RowsSound
  <1>14. PostStarsOnHeads'
    BY <1>3, <1>13, WriteKeepsPostStars
  <1> QED
    BY <1>6, <1>7, <1>8, <1>10, <1>11, <1>12, <1>14 DEF TypeInv

\* The requests in flight care for the posts only, and a step of a task or of the
\* worker touches none.
SparesPosts ==
    /\ UNCHANGED <<archived, cursor, req, started, serial>>
    /\ \A s \in Posts : version'[s] = version[s] /\ head'[s] = head[s] /\ Of(s)' = Of(s)

LEMMA SparesKeepsWaiting ==
    ASSUME IInv, Adds, SparesPosts
    PROVE  RequestsSound' /\ Alone' /\ Awaited'
  <1> USE DEF IInv
  <1>1. RequestsSound'
    BY AddsKeepsSound DEF TypeInv, RequestsSound, SparesPosts
  <1>2. Alone'
    BY DEF Alone, SparesPosts
  <1>3. \A x : Ahead(x) => Ahead(x)'
    BY DEF Ahead, SparesPosts
  <1>4. \A x : Knows(x) => Knows(x)'
    BY DEF Knows, SparesPosts
  <1>5. Awaited'
    BY <1>3, <1>4 DEF Awaited, SparesPosts
  <1> QED
    BY <1>1, <1>2, <1>5

\* A task gets its next version, with an item of that version or without.
Renews(s) ==
    /\ version[s] < MaxVersion /\ version' = [version EXCEPT ![s] = @ + 1]
    /\ clock' = clock + 1 /\ changedAt' = [changedAt EXCEPT ![s] = clock + 1]
    /\ events' \in {events, events \cup {<<s, version[s] + 1>>}}
    /\ UNCHANGED <<archived, cursor, job, req, started, home, serial>>
    /\ \/ UNCHANGED feed
       \/ WriteItem(s, version[s] + 1, FALSE, clock + 1)

LEMMA ChangeIsRenewal ==
    ASSUME NEW s \in Tasks, TypeInv, ChangeTask(s), UNCHANGED <<home, serial>>
    PROVE  Renews(s)
  <1>1. version[s] = 0 => version[s] + 1 = 1
    OBVIOUS
  <1> QED
    BY <1>1 DEF ChangeTask, CreateTask, UpdateTask, ActOnTask, TouchTask, NextVersion, LeaveEvent, Renews, feed

LEMMA TaskWriteSpares ==
    ASSUME TypeInv, NEW i \in ItemRows, i.src \in Tasks, Writes(i),
           UNCHANGED <<archived, cursor, req, started, serial>>,
           \A s \in Posts : version'[s] = version[s]
    PROVE  SparesPosts
  <1>1. \A s \in Posts : s # i.src
    BY ConstantsAssumption
  <1>2. \A s \in Posts : head'[s] = head[s]
    BY <1>1 DEF Writes, TypeInv, TypeOK, Sources
  <1>3. \A s \in Posts : Of(s)' = Of(s)
    BY <1>1 DEF Writes, Of
  <1> QED
    BY <1>2, <1>3 DEF SparesPosts

LEMMA RenewalWrites ==
    ASSUME IInv, NEW s \in Tasks, WriteItem(s, version[s] + 1, FALSE, clock + 1)
    PROVE  \E i \in ItemRows : /\ i.src = s /\ i.ver = version[s] + 1 /\ i.byJob = FALSE
                               /\ i.at = clock + 1 /\ Writes(i)
  <1>1. PICK v, time, no : v = version[s] + 1 /\ time = clock + 1 /\ no = FALSE
    OBVIOUS
  <1>2. s \in Sources /\ v \in Nat /\ time \in Nat
    BY <1>1, ConstantsAssumption DEF IInv, TypeInv, TypeOK, Sources
  <1>3. no \in BOOLEAN /\ WriteItem(s, v, no, time)
    BY <1>1
  <1>4. \E i \in ItemRows : i.src = s /\ i.ver = v /\ i.byJob = no /\ i.at = time /\ Writes(i)
    BY <1>2, <1>3, RowWritten DEF IInv
  <1> QED
    BY <1>1, <1>4

LEMMA RenewalKeeps ==
    ASSUME IInv, NEW s \in Tasks, Renews(s)
    PROVE  IInv'
  <1> USE DEF IInv
  <1>1. /\ s \in Sources /\ s \notin Posts /\ version[s] \in 0..(MaxVersion - 1) /\ clock \in Nat
        /\ version' = [version EXCEPT ![s] = version[s] + 1] /\ clock' = clock + 1
        /\ changedAt' = [changedAt EXCEPT ![s] = clock + 1]
        /\ UNCHANGED <<archived, cursor, job, req, started, home, serial>>
    BY ConstantsAssumption DEF Renews, TypeInv, TypeOK, Sources
  <1>2. /\ version' \in [Sources -> 0..MaxVersion] /\ changedAt' \in [Sources -> 0..clock']
        /\ \A q \in Sources : version'[q] >= version[q] /\ version'[q] \in Nat
        /\ \A q \in Posts : version'[q] = version[q]
    BY <1>1, ConstantsAssumption DEF TypeInv, TypeOK, Sources
  <1>3. /\ events' \subseteq Tasks \X (1..MaxVersion)
        /\ \A q \in Tasks, v \in Nat : <<q, v>> \in events' => v <= version'[q]
        /\ \A q \in Tasks : version'[q] > 0 => changedAt'[q] > 0
    BY <1>1, ConstantsAssumption DEF Renews, TypeInv, TypeOK, RowsSound, Sources
  <1>4. JobSound'
    BY <1>1, <1>2 DEF TypeInv, TypeOK, JobSound, Sources
  <1>5. \A j \in items : j.src \in Sources /\ j.ver \in 1..version'[j.src] /\ j.at \in 1..clock'
    BY <1>1, <1>2 DEF TypeInv, TypeOK
  <1>6. \A u \in Users : cursor'[u].at \in 0..clock'
    BY <1>1 DEF TypeInv, TypeOK
  <1>7. CASE UNCHANGED feed
    <2>1. TypeOK' /\ RowsSound'
      BY <1>1, <1>2, <1>3, <1>5, <1>6, <1>7 DEF TypeInv, TypeOK, RowsSound, feed
    <2>2. Adds /\ SparesPosts
      BY <1>1, <1>2, <1>7 DEF Adds, SparesPosts, feed, Of
    <2>3. FeedShape' /\ PostStarsOnHeads'
      BY <1>1, <1>2, <1>7 DEF FeedShape, HeadIsNewest, OneItemPerVersion, PostStarsOnHeads, feed
    <2> QED
      BY <1>4, <2>1, <2>2, <2>3, SparesKeepsWaiting DEF TypeInv
  <1>8. CASE WriteItem(s, version[s] + 1, FALSE, clock + 1)
    <2>1. PICK i \in ItemRows : /\ i.src = s /\ i.ver = version[s] + 1 /\ i.byJob = FALSE
                                /\ i.at = clock + 1 /\ Writes(i)
      BY <1>8, RenewalWrites
    <2>2. items' = items \cup {i}
      BY <2>1 DEF Writes
    <2>3. \A j \in items' : j.src \in Sources /\ j.ver \in 1..version'[j.src] /\ j.at \in 1..clock'
      <3>1. i.ver \in 1..version'[i.src] /\ i.at \in 1..clock'
        BY <1>1, <2>1 DEF TypeInv, TypeOK
      <3> QED
        BY <1>1, <1>5, <2>1, <2>2, <3>1
    <2>4. TypeOK'
      BY <1>1, <1>2, <1>3, <1>6, <2>1, <2>3, WriteKeepsRows DEF TypeInv, TypeOK
    <2>5. RowsSound'
      BY <1>1, <1>3, <2>1, WriteKeepsRows DEF TypeInv, RowsSound
    <2>6. Adds /\ SparesPosts
      BY <1>1, <1>2, <2>1, <2>2, TaskWriteSpares DEF Adds
    <2>7. HeadIsNewest'
      BY <1>1, <1>2, <2>1, WriteKeepsHeads DEF FeedShape
    <2>8. \A j \in items : j.src = s => j.ver < i.ver
      BY <1>1, <2>1 DEF TypeInv, TypeOK
    <2>9. OneItemPerVersion'
      BY <2>1, <2>8, WriteKeepsOnce DEF FeedShape, TypeInv, RowsSound, ItemRows
    <2>10. PostStarsOnHeads'
      BY <1>1, <2>1, WriteKeepsPostStars
    <2> QED
      BY <1>4, <2>4, <2>5, <2>6, <2>7, <2>9, <2>10, SparesKeepsWaiting DEF TypeInv, FeedShape
  <1> QED
    BY <1>7, <1>8 DEF Renews

LEMMA ReadTaskKeeps ==
    ASSUME IInv, NEW s \in Tasks, NEW v \in 1..MaxVersion, ReadTask(s, v), UNCHANGED <<home, serial>>
    PROVE  IInv'
  <1> USE DEF IInv
  <1>1. job' = [src |-> s, ver |-> v, at |-> changedAt[s]]
        /\ UNCHANGED <<sources, clock, feed, cursor, req, started, home, serial>>
    BY DEF ReadTask
  <1>2. v \in 1..version[s] /\ changedAt[s] \in 1..clock
    BY ConstantsAssumption DEF ReadTask, TypeInv, TypeOK, RowsSound, Sources
  <1>3. JobSound'
    BY <1>1, <1>2 DEF JobSound, sources
  <1>4. TypeOK' /\ RowsSound'
    BY <1>1 DEF TypeInv, TypeOK, RowsSound, sources, feed
  <1>5. Adds /\ SparesPosts
    BY <1>1 DEF Adds, SparesPosts, sources, feed, Of, TypeInv, TypeOK
  <1>6. FeedShape' /\ PostStarsOnHeads'
    BY <1>1 DEF FeedShape, HeadIsNewest, OneItemPerVersion, PostStarsOnHeads, sources, feed
  <1> QED
    BY <1>3, <1>4, <1>5, <1>6, SparesKeepsWaiting DEF TypeInv

LEMMA ProjectionWrites ==
    ASSUME IInv, job # Idle, WriteItem(job.src, job.ver, TRUE, job.at)
    PROVE  \E i \in ItemRows : /\ i.src = job.src /\ i.ver = job.ver /\ i.byJob = TRUE
                               /\ i.at = job.at /\ Writes(i)
  <1>1. PICK s, v, time, yes : s = job.src /\ v = job.ver /\ time = job.at /\ yes = TRUE
    OBVIOUS
  <1>2. s \in Sources /\ v \in Nat /\ time \in Nat
    BY <1>1, ConstantsAssumption DEF IInv, TypeInv, TypeOK, JobSound, Sources
  <1>3. yes \in BOOLEAN /\ WriteItem(s, v, yes, time)
    BY <1>1
  <1>4. \E i \in ItemRows : i.src = s /\ i.ver = v /\ i.byJob = yes /\ i.at = time /\ Writes(i)
    BY <1>2, <1>3, RowWritten DEF IInv
  <1> QED
    BY <1>1, <1>4

LEMMA WriteProjectionKeeps ==
    ASSUME IInv, WriteProjection, UNCHANGED <<home, serial>>
    PROVE  IInv'
  <1> USE DEF IInv
  <1>1. /\ job # Idle /\ job.src \in Tasks /\ job.src \in Sources /\ job.src \notin Posts
        /\ job.ver \in 1..version[job.src] /\ job.at \in 1..clock
        /\ version[job.src] \in Nat /\ clock \in Nat
    BY ConstantsAssumption DEF WriteProjection, TypeInv, TypeOK, JobSound, Sources
  <1>2. job' = Idle /\ UNCHANGED <<version, archived, changedAt, events, clock, cursor, req, started, home, serial>>
    BY DEF WriteProjection, sources
  <1>3. JobSound'
    BY <1>2 DEF JobSound
  <1>4. CASE UNCHANGED feed
    <2>1. TypeOK' /\ RowsSound'
      BY <1>2, <1>4 DEF TypeInv, TypeOK, RowsSound, feed
    <2>2. Adds /\ SparesPosts
      BY <1>2, <1>4 DEF Adds, SparesPosts, feed, Of, TypeInv, TypeOK
    <2>3. FeedShape' /\ PostStarsOnHeads'
      BY <1>2, <1>4 DEF FeedShape, HeadIsNewest, OneItemPerVersion, PostStarsOnHeads, feed
    <2> QED
      BY <1>3, <2>1, <2>2, <2>3, SparesKeepsWaiting DEF TypeInv
  <1>5. CASE ~Known(job.src, job.ver) /\ WriteItem(job.src, job.ver, TRUE, job.at)
    <2>1. PICK i \in ItemRows : /\ i.src = job.src /\ i.ver = job.ver /\ i.byJob = TRUE
                                /\ i.at = job.at /\ Writes(i)
      BY <1>1, <1>5, ProjectionWrites
    <2>2. items' = items \cup {i}
      BY <2>1 DEF Writes
    <2>3. \A j \in items' : j.src \in Sources /\ j.ver \in 1..version[j.src] /\ j.at \in 1..clock
      <3>1. i.ver \in 1..version[i.src] /\ i.at \in 1..clock
        BY <1>1, <2>1
      <3> QED
        BY <1>1, <2>1, <2>2, <3>1 DEF TypeInv, TypeOK
    <2>4. TypeOK'
      BY <1>2, <2>1, <2>3, WriteKeepsRows DEF TypeInv, TypeOK
    <2>5. RowsSound'
      BY <1>2, <2>1, WriteKeepsRows DEF TypeInv, RowsSound
    <2>6. Adds /\ SparesPosts
      BY <1>1, <1>2, <2>1, <2>2, TaskWriteSpares DEF Adds, TypeInv, TypeOK
    <2>7. HeadIsNewest'
      BY <1>1, <1>2, <2>1, WriteKeepsHeads DEF FeedShape
    <2>8. \A j \in items : ~(j.src = i.src /\ j.ver = i.ver /\ j.byJob = i.byJob)
      BY <1>5, <2>1 DEF Known, Of
    <2>9. OneItemPerVersion'
      BY <2>1, <2>8, WriteKeepsOnce DEF FeedShape
    <2>10. PostStarsOnHeads'
      BY <1>1, <1>2, <2>1, WriteKeepsPostStars
    <2> QED
      BY <1>3, <2>4, <2>5, <2>6, <2>7, <2>9, <2>10, SparesKeepsWaiting DEF TypeInv, FeedShape
  <1> QED
    BY <1>4, <1>5 DEF WriteProjection

\* Where a user belongs matters to the next write only.
LEMMA MoveUserKeeps ==
    ASSUME IInv, NEW u \in Users, MoveUser(u), UNCHANGED serial
    PROVE  IInv'
  <1> USE DEF IInv
  <1>1. /\ UNCHANGED <<version, archived, changedAt, events, clock, items, head, favourites>>
        /\ UNCHANGED <<cursor, job, req, serial>>
        /\ started' \in 0..MaxRequests /\ home' \subseteq Users
    BY ConstantsAssumption DEF MoveUser, sources, feed, TypeInv, TypeOK
  <1>2. TypeInv'
    BY <1>1 DEF TypeInv, TypeOK, RowsSound, RequestsSound, Sound, JobSound
  <1>3. FeedShape' /\ PostStarsOnHeads'
    BY <1>1 DEF FeedShape, HeadIsNewest, OneItemPerVersion, PostStarsOnHeads
  <1>4. Alone' /\ Awaited'
    BY <1>1 DEF Alone, Awaited, Ahead, Knows, Of
  <1> QED
    BY <1>2, <1>3, <1>4

-----------------------------------------------------------------------------
(* The invariant.                                                          *)

LEMMA InvStep == IInv /\ [Next]_vars => IInv'
  <1> SUFFICES ASSUME IInv, [Next]_vars PROVE IInv'
    OBVIOUS
  <1>1. CASE UNCHANGED vars
    BY <1>1
    DEF vars, sources, feed, IInv, TypeInv, TypeOK, RowsSound, RequestsSound, Sound, JobSound,
        FeedShape, HeadIsNewest, OneItemPerVersion, Alone, Awaited, Ahead, Knows, Of, PostStarsOnHeads
  <1>2. CASE Next
    <2>2. ASSUME UNCHANGED <<home, serial>>, NEW t \in Slots, Free(t), Begin(t) PROVE IInv'
      BY <2>2, BeginPostKeeps, BeginReadKeeps, BeginFavouriteKeeps DEF Begin, PostOps
    <2>3. ASSUME UNCHANGED <<home, serial>>, NEW t \in Slots, RefusePost(t) PROVE IInv'
      BY <2>3, EndKeeps DEF RefusePost, Rests
    <2>4. ASSUME UNCHANGED <<home, serial>>, NEW t \in Slots, Finish(t) PROVE IInv'
      BY <2>3, <2>4, CommitPostKeeps, ListItemsKeeps, CommitFavouriteKeeps, CommitReadKeeps
      DEF Finish
    <2>5. ASSUME UNCHANGED <<home, serial>>, NEW s \in Tasks, ChangeTask(s) PROVE IInv'
      BY <2>5, ChangeIsRenewal, RenewalKeeps DEF IInv
    <2>6. ASSUME UNCHANGED <<home, serial>>, Project PROVE IInv'
      BY <2>6, ReadTaskKeeps, WriteProjectionKeeps DEF Project
    <2>7. ASSUME NEW u \in Users, MoveUser(u), UNCHANGED serial PROVE IInv'
      BY <2>7, MoveUserKeeps
    <2> QED
      BY <1>2, <2>2, <2>4, <2>5, <2>6, <2>7 DEF Next, Step
  <1> QED
    BY <1>1, <1>2

\* The inductive invariant holds throughout: types, places, heads, stars, and what
\* requests in flight know.
THEOREM Invariance == Spec => []IInv
  BY InitIInv, InvStep, PTL DEF Spec

\* However many users, posts and tasks there are, and in whatever order versions
\* are written and projected: every version of a source is in the feed once, the
\* newest is its head, and without overlap the stars on a post are on its head.
THEOREM FeedHeadsHold == Spec => []HeadsHold
  BY Invariance, PTL DEF IInv, TypeInv, HeadsHold

-----------------------------------------------------------------------------
(* What a step may do to items, stars and cursors.                         *)

\* A step leaves the feed's items alone or writes one; the item of a post is ahead
\* of every cursor when requests do not overlap.
LEMMA StepWrites ==
    ASSUME IInv, Next
    PROVE  \/ UNCHANGED <<items, head>>
           \/ \E i \in ItemRows :
                 /\ Writes(i) /\ UNCHANGED cursor
                 /\ serial /\ i.src \in Posts => \A u \in Users : cursor[u].at < i.at
  <1> DEFINE Goal == \/ UNCHANGED <<items, head>>
                    \/ \E i \in ItemRows :
                          /\ Writes(i) /\ UNCHANGED cursor
                          /\ serial /\ i.src \in Posts => \A u \in Users : cursor[u].at < i.at
  <1>1. ASSUME NEW t \in Slots, Begin(t) PROVE Goal
    BY <1>1 DEF Begin, BeginPost, BeginRead, BeginFavourite, Start, feed
  <1>2. ASSUME NEW t \in Slots, CommitPost(t) PROVE Goal
    <2>1. PICK i \in ItemRows : i.at = req[t].at /\ Writes(i)
      BY <1>2, CommitPostWrites
    <2>2. serial => \A u \in Users : cursor[u].at < i.at
      BY <1>2, <2>1 DEF CommitPost, IInv, Awaited, Ahead, PostOps
    <2>3. UNCHANGED cursor
      BY <1>2 DEF CommitPost
    <2> QED
      BY <2>1, <2>2, <2>3
  <1>3. ASSUME NEW t \in Slots, Finish(t), ~CommitPost(t) PROVE Goal
    BY <1>3 DEF Finish, RefusePost, ListItems, CommitFavourite, CommitRead, feed
  <1>4. ASSUME NEW s \in Tasks, ChangeTask(s), UNCHANGED <<home, serial>> PROVE Goal
    <2>1. Renews(s) /\ s \notin Posts /\ UNCHANGED cursor
      BY <1>4, ChangeIsRenewal, ConstantsAssumption DEF Renews, IInv
    <2>2. CASE UNCHANGED feed
      BY <2>2 DEF feed
    <2>3. CASE WriteItem(s, version[s] + 1, FALSE, clock + 1)
      BY <2>1, <2>3, RenewalWrites
    <2> QED
      BY <2>1, <2>2, <2>3 DEF Renews
  <1>5. ASSUME WriteProjection PROVE Goal
    <2>1. job # Idle /\ job.src \notin Posts /\ UNCHANGED cursor
      BY <1>5, ConstantsAssumption DEF WriteProjection, IInv, TypeInv, JobSound
    <2>2. CASE UNCHANGED feed
      BY <2>2 DEF feed
    <2>3. CASE WriteItem(job.src, job.ver, TRUE, job.at)
      BY <2>1, <2>3, ProjectionWrites
    <2> QED
      BY <1>5, <2>2, <2>3 DEF WriteProjection
  <1>6. ASSUME NEW s \in Tasks, NEW v \in 1..MaxVersion, ReadTask(s, v) PROVE Goal
    BY <1>6 DEF ReadTask, feed
  <1>7. ASSUME NEW u \in Users, MoveUser(u) PROVE Goal
    BY <1>7 DEF MoveUser, feed
  <1> QED
    BY <1>1, <1>2, <1>3, <1>4, <1>5, <1>6, <1>7 DEF Next, Step, Project

\* A new version of a source never costs an active user of the company the star on
\* it, whatever requests and projections overlap and whoever comes and goes.
THEOREM StarsStay == Spec => StarsSurviveChanges
  <1>1. IInv /\ [Next]_vars =>
          (items' # items =>
             \A u \in home, s \in Sources :
                favourites[u] \cap Of(s) # {} => favourites'[u] \cap Of(s)' # {})
    <2> SUFFICES ASSUME IInv, [Next]_vars, items' # items, NEW u \in home, NEW s \in Sources,
                        favourites[u] \cap Of(s) # {}
                 PROVE  favourites'[u] \cap Of(s)' # {}
      OBVIOUS
    <2>1. Next
      BY DEF vars, feed
    <2>2. PICK i \in ItemRows : Writes(i)
      BY <2>1, StepWrites
    <2> QED
      BY <2>2, WriteKeepsStars DEF IInv, TypeInv, TypeOK
  <1> QED
    BY <1>1, Invariance, PTL DEF Spec, StarsSurviveChanges

\* However many readers there are and however late they answer, a read cursor only
\* advances.
THEOREM CursorsAdvance == Spec => CursorOnlyAdvances
  <1>1. IInv /\ [Next]_vars => \A u \in Users : ~Before(cursor'[u], cursor[u])
    <2> SUFFICES ASSUME IInv, [Next]_vars, NEW u \in Users
                 PROVE  ~Before(cursor'[u], cursor[u])
      OBVIOUS
    <2>1. cursor[u] \in [at : Nat, rank : Int]
      BY DEF IInv, TypeInv, RowsSound
    <2>2. CASE UNCHANGED cursor
      BY <2>1, <2>2 DEF Before
    <2>3. ASSUME NEW t \in Slots, CommitRead(t), ~UNCHANGED cursor
          PROVE  ~Before(cursor'[u], cursor[u])
      <3> DEFINE r == req[t]
      <3>1. /\ r.by \in Users /\ r.item \in ItemRows /\ Before(cursor[r.by], r.item)
            /\ cursor' = [cursor EXCEPT ![r.by] = Place(r.item)]
        BY <2>3 DEF CommitRead, Further, IInv, TypeInv, RowsSound, RequestsSound, Sound
      <3>2. CASE u = r.by
        BY <2>1, <3>1, <3>2 DEF Before, Place, ItemRows, IInv, TypeInv, RowsSound
      <3>3. CASE u # r.by
        <4>1. cursor'[u] = cursor[u]
          BY <3>1, <3>3 DEF IInv, TypeInv, RowsSound
        <4> QED
          BY <2>1, <4>1 DEF Before
      <3> QED
        BY <3>2, <3>3
    <2>4. CASE Next /\ ~UNCHANGED cursor
      <3>1. PICK t \in Slots : CommitRead(t)
        BY <2>4
        DEF Next, Begin, BeginPost, BeginRead, BeginFavourite, Start, Finish, CommitPost,
            RefusePost, ListItems, CommitFavourite, ChangeTask, CreateTask, UpdateTask,
            ActOnTask, TouchTask, NextVersion, Project, ReadTask, WriteProjection, MoveUser, Step
      <3> QED
        BY <2>3, <2>4, <3>1
    <2> QED
      BY <2>2, <2>4 DEF vars
  <1> QED
    BY <1>1, Invariance, PTL DEF Spec, CursorOnlyAdvances

\* Without overlap a new version of a post lies behind no user's cursor.
THEOREM NewPostsUnread == Spec => PostVersionsUnread
  <1>1. IInv /\ [Next]_vars =>
          (serial => \A s \in Posts, u \in Users :
                        head'[s] = head[s] \/ Before(cursor'[u], head'[s]))
    <2> SUFFICES ASSUME IInv, [Next]_vars, serial, NEW s \in Posts, NEW u \in Users,
                        head'[s] # head[s]
                 PROVE  Before(cursor'[u], head'[s])
      OBVIOUS
    <2>1. Next
      BY DEF vars, feed
    <2>2. PICK i \in ItemRows :
             /\ Writes(i) /\ UNCHANGED cursor
             /\ i.src \in Posts => \A w \in Users : cursor[w].at < i.at
      BY <2>1, StepWrites
    <2>3. i.src = s /\ head'[s] = i
      BY <2>2 DEF Writes, IInv, TypeInv, TypeOK, Sources
    <2> QED
      BY <2>2, <2>3 DEF Before
  <1> QED
    BY <1>1, Invariance, PTL DEF Spec, PostVersionsUnread
=============================================================================
