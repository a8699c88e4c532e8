----------------------------- MODULE ChatThread -----------------------------
(***************************************************************************)
(* One GROUP chat thread of communication/messages.service.ts: messages,   *)
(* participants, personal read cursors and notification modes.             *)
(*                                                                         *)
(* A handler first reads the thread (readableThread and the reads after    *)
(* it) and then writes in one transaction.  Between the two it has only    *)
(* its snapshot, so a request is a slot that Begin fills and Commit or     *)
(* Refuse empties; requests of all users overlap freely.  Requests that    *)
(* validation turns down change nothing and are not started.               *)
(*                                                                         *)
(* Messages are numbered in the order of (createdAt, id), the order of     *)
(* their transactions; 0 stands for no message.  Not kept: bodies, titles, *)
(* attachments, audit rows, and realtime pushes, which nothing reads back. *)
(***************************************************************************)
EXTENDS Integers, FiniteSets

CONSTANTS
    Users,        \* who may ever take part
    Creator,      \* who created the thread
    Founders,     \* the participants it was created with, the creator included
    Admins,       \* global administrators
    Keys,         \* Idempotency-Key values
    Slots,        \* requests being served at the same time
    Limit,        \* most active participants, 50 in the code
    MaxMessages,  \* bound on posted messages
    MaxRequests   \* bound on started requests

Wellformed ==
    /\ IsFiniteSet(Users) /\ IsFiniteSet(Slots)
    /\ Founders \subseteq Users /\ Creator \in Founders
    /\ Cardinality(Founders) \in 3..Limit
    /\ Admins \subseteq Users
    /\ Limit \in Nat /\ MaxMessages \in Nat /\ MaxRequests \in Nat

VARIABLES
    membership,     \* ThreadParticipant: no row, active, or leftAt set
    role, mode,     \* ThreadParticipant.role, .notificationMode
    lastRead,       \* ThreadParticipant.lastReadMessageId
    rowVersion,     \* ThreadParticipant.version
    count,          \* messages posted so far
    author, keyOf,  \* of each message: authorId, the key it was posted under
    replyTo,        \* Message.replyToId
    deleted,        \* whether Message.deletedAt is set
    msgVersion,     \* Message.version
    notified,       \* whom a message's notifications went to
    threadVersion,  \* MessageThread.version
    events,         \* the outbox rows of the thread: <<aggregateVersion, eventType>>
    req,            \* per slot, the request between its reads and its writes
    started,        \* requests started, bounded by MaxRequests
    serial          \* requests do not overlap in this behaviour

members  == <<membership, role, mode, lastRead, rowVersion>>
messages == <<count, author, keyOf, replyTo, deleted, msgVersion, notified>>
thread   == <<threadVersion, events>>
vars     == <<members, messages, thread, req, started, serial>>

Msgs == 1..MaxMessages
None == [op |-> "none"]

\* readableThread and readableMessage: only an active participant finds them.
Active(u)  == membership[u] = "active"
Readable(u, m) == Active(u) /\ m \in 1..count
Manager(u) == Active(u) /\ (role[u] = "OWNER" \/ u \in Admins)
Actives    == {u \in Users : Active(u)}
Owners     == {u \in Actives : role[u] = "OWNER"}

Init ==
    /\ membership = [u \in Users |-> IF u \in Founders THEN "active" ELSE "none"]
    /\ role = [u \in Users |-> IF u = Creator THEN "OWNER" ELSE "MEMBER"]
    /\ mode = [u \in Users |-> "ALL"]
    /\ lastRead = [u \in Users |-> 0]
    /\ rowVersion = [u \in Users |-> 1]
    /\ count = 0
    /\ author = [m \in Msgs |-> Creator]
    /\ keyOf = [m \in Msgs |-> "none"]
    /\ replyTo = [m \in Msgs |-> 0]
    /\ deleted = [m \in Msgs |-> FALSE]
    /\ msgVersion = [m \in Msgs |-> 1]
    /\ notified = [m \in Msgs |-> {}]
    /\ threadVersion = 1
    /\ events = {<<1, "message.thread_created">>}
    /\ req = [s \in Slots |-> None]
    /\ started = 0 /\ serial \in BOOLEAN

-----------------------------------------------------------------------------
(* Definitions named M_ are deliberate mistakes: no action uses them, they *)
(* stand in for the definition after them to show what a property catches. *)
(*                                                                         *)
(* Starting a request: the checks on what was read, and the snapshot.  The *)
(* version a client sends is the one it has seen; an older one is refused  *)
(* by the commit whatever happens in between and changes nothing.          *)

Free(s) ==
    /\ started < MaxRequests
    /\ req[s] = None /\ s = CHOOSE t \in Slots : req[t] = None \* slots are alike
    /\ serial => \A t \in Slots : req[t] = None

Start(s, r) ==
    /\ started' = started + 1
    /\ req' = [req EXCEPT ![s] = r]
    /\ UNCHANGED <<members, messages, thread>>

\* The key has not answered a request of this user yet, or that message is
\* returned again.
FreshKey(u, k) == \A m \in 1..count : ~(author[m] = u /\ keyOf[m] = k)

Replyable(m) == m = 0 \/ (m \in 1..count /\ replyTo[m] = 0 /\ ~deleted[m])

\* The bound on messages, the posts being served included.
RoomForPost == count + Cardinality({t \in Slots : req[t].op = "post"}) < MaxMessages

\* The recipients are taken from the participants read with the thread.
M_BeginPostToAll(s, u, k, parent) ==
    /\ Active(u) /\ Replyable(parent) /\ FreshKey(u, k) /\ RoomForPost
    /\ Start(s, [op |-> "post", by |-> u, key |-> k, msg |-> parent,
                 to |-> Actives \ {u}])

BeginPost(s, u, k, parent) ==
    /\ Active(u) /\ Replyable(parent) /\ FreshKey(u, k) /\ RoomForPost
    /\ Start(s, [op |-> "post", by |-> u, key |-> k, msg |-> parent,
                 to |-> {v \in Actives \ {u} : mode[v] = "ALL"}])

BeginAdd(s, a, u, r) ==
    /\ Manager(a) /\ u # a /\ ~Active(u)
    /\ Cardinality(Actives) < Limit
    /\ Start(s, [op |-> "add", on |-> u, role |-> r, seen |-> threadVersion])

\* The last owner cannot step down, nor leave.
Dispensable(u) == role[u] = "OWNER" => \E o \in Owners : o # u

BeginRole(s, a, u, r) ==
    /\ Manager(a) /\ Active(u) /\ role[u] # r
    /\ r # "OWNER" => Dispensable(u)
    /\ Start(s, [op |-> "role", on |-> u, role |-> r, seen |-> threadVersion,
                 row |-> rowVersion[u]])

BeginRemove(s, a, u) ==
    /\ Active(a) /\ Active(u) /\ (u = a \/ Manager(a))
    /\ Cardinality(Actives) > 2
    /\ Dispensable(u)
    /\ Start(s, [op |-> "remove", on |-> u, seen |-> threadVersion,
                 row |-> rowVersion[u]])

\* The author or an administrator edits or deletes a live message.
BeginChange(s, u, m, op) ==
    /\ Readable(u, m) /\ ~deleted[m]
    /\ author[m] = u \/ u \in Admins
    /\ Start(s, [op |-> op, msg |-> m, row |-> msgVersion[m]])

M_BeginMarkReadAny(s, u, m) ==
    /\ Active(u)
    /\ m > lastRead[u]
    /\ Start(s, [op |-> "read", by |-> u, msg |-> m])

M_BeginMarkReadBack(s, u, m) ==
    /\ Active(u) /\ m \in 1..count
    /\ Start(s, [op |-> "read", by |-> u, msg |-> m])

\* The message must belong to the thread and be newer than the cursor.
BeginMarkRead(s, u, m) ==
    /\ Active(u) /\ m \in 1..count
    /\ m > lastRead[u]
    /\ Start(s, [op |-> "read", by |-> u, msg |-> m])

BeginMode(s, u, md) ==
    /\ Active(u) /\ mode[u] # md
    /\ Start(s, [op |-> "mode", by |-> u, mode |-> md, row |-> rowVersion[u]])

-----------------------------------------------------------------------------
(* The transactions.                                                       *)

M_BumpAfterEvent(type) ==
    /\ threadVersion' = threadVersion + 1
    /\ events' = events \cup {<<threadVersion, type>>}

\* The outbox row carries the version this transaction made.
Bump(type) ==
    /\ threadVersion' = threadVersion + 1
    /\ events' = events \cup {<<threadVersion + 1, type>>}

Done(s) == req' = [req EXCEPT ![s] = None] /\ UNCHANGED started

\* The unique (userId, key, operation) row admits one post for each key.
M_PostAlways(r) == TRUE
PostAllowed(r)  == FreshKey(r.by, r.key)

CommitPost(s) ==
    LET r == req[s]
        m == count + 1
    IN  /\ r.op = "post" /\ PostAllowed(r)
        /\ count' = m
        /\ author' = [author EXCEPT ![m] = r.by]
        /\ keyOf' = [keyOf EXCEPT ![m] = r.key]
        /\ replyTo' = [replyTo EXCEPT ![m] = r.msg]
        /\ notified' = [notified EXCEPT ![m] = r.to]
        /\ lastRead' = [lastRead EXCEPT ![r.by] = m]
        /\ rowVersion' = [rowVersion EXCEPT ![r.by] = @ + 1]
        /\ Bump("message.created")
        /\ Done(s)
        /\ UNCHANGED <<membership, role, mode, deleted, msgVersion>>

\* Changes to the participants demand the version of the thread they saw.
M_UnmovedIgnored(r) == TRUE
Unmoved(r)          == threadVersion = r.seen

\* Coming back keeps the read cursor and resets the notification mode.
CommitAdd(s) ==
    LET r == req[s]
    IN  /\ r.op = "add" /\ Unmoved(r)
        /\ membership' = [membership EXCEPT ![r.on] = "active"]
        /\ role' = [role EXCEPT ![r.on] = r.role]
        /\ mode' = [mode EXCEPT ![r.on] = "ALL"]
        /\ rowVersion' = [rowVersion EXCEPT
              ![r.on] = IF membership[r.on] = "left" THEN @ + 1 ELSE 1]
        /\ Bump("message.participant_added")
        /\ Done(s)
        /\ UNCHANGED <<lastRead, messages>>

RowUnmoved(r) == Active(r.on) /\ rowVersion[r.on] = r.row

CommitRole(s) ==
    LET r == req[s]
    IN  /\ r.op = "role" /\ Unmoved(r) /\ RowUnmoved(r)
        /\ role' = [role EXCEPT ![r.on] = r.role]
        /\ rowVersion' = [rowVersion EXCEPT ![r.on] = @ + 1]
        /\ Bump("message.participant_role_changed")
        /\ Done(s)
        /\ UNCHANGED <<membership, mode, lastRead, messages>>

CommitRemove(s) ==
    LET r == req[s]
    IN  /\ r.op = "remove" /\ Unmoved(r) /\ RowUnmoved(r)
        /\ membership' = [membership EXCEPT ![r.on] = "left"]
        /\ rowVersion' = [rowVersion EXCEPT ![r.on] = @ + 1]
        /\ Bump("message.participant_removed")
        /\ Done(s)
        /\ UNCHANGED <<role, mode, lastRead, messages>>

M_MessageAnyState(r) == r.msg \in 1..count
MessageUnmoved(r)    == msgVersion[r.msg] = r.row /\ ~deleted[r.msg]

CommitEdit(s) ==
    LET r == req[s]
    IN  /\ r.op = "edit" /\ MessageUnmoved(r)
        /\ msgVersion' = [msgVersion EXCEPT ![r.msg] = @ + 1]
        /\ Bump("message.edited")
        /\ Done(s)
        /\ UNCHANGED <<members, count, author, keyOf, replyTo, deleted, notified>>

CommitDelete(s) ==
    LET r == req[s]
    IN  /\ r.op = "delete" /\ MessageUnmoved(r)
        /\ deleted' = [deleted EXCEPT ![r.msg] = TRUE]
        /\ msgVersion' = [msgVersion EXCEPT ![r.msg] = @ + 1]
        /\ Bump("message.deleted")
        /\ Done(s)
        /\ UNCHANGED <<members, count, author, keyOf, replyTo, notified>>

\* update where id: what the cursor is by now is not looked at again.
CommitMarkRead(s) ==
    LET r == req[s]
    IN  /\ r.op = "read"
        /\ lastRead' = [lastRead EXCEPT ![r.by] = r.msg]
        /\ rowVersion' = [rowVersion EXCEPT ![r.by] = @ + 1]
        /\ Done(s)
        /\ UNCHANGED <<membership, role, mode, messages, thread>>

ModeUnmoved(r) == Active(r.by) /\ rowVersion[r.by] = r.row

CommitMode(s) ==
    LET r == req[s]
    IN  /\ r.op = "mode" /\ ModeUnmoved(r)
        /\ mode' = [mode EXCEPT ![r.by] = r.mode]
        /\ rowVersion' = [rowVersion EXCEPT ![r.by] = @ + 1]
        /\ Done(s)
        /\ UNCHANGED <<membership, role, lastRead, messages, thread>>

\* A guard no longer matches: the transaction rolls back with a conflict.
Overtaken(r) ==
    \/ r.op = "post" /\ ~PostAllowed(r)
    \/ r.op = "add" /\ ~Unmoved(r)
    \/ r.op \in {"role", "remove"} /\ ~(Unmoved(r) /\ RowUnmoved(r))
    \/ r.op \in {"edit", "delete"} /\ ~MessageUnmoved(r)
    \/ r.op = "mode" /\ ~ModeUnmoved(r)

Refuse(s) ==
    /\ Overtaken(req[s])
    /\ Done(s)
    /\ UNCHANGED <<members, messages, thread>>

-----------------------------------------------------------------------------
Begin(s) ==
    \/ \E u \in Users, k \in Keys, p \in 0..count : BeginPost(s, u, k, p)
    \/ \E a, u \in Users, r \in {"OWNER", "MEMBER"} :
          BeginAdd(s, a, u, r) \/ BeginRole(s, a, u, r)
    \/ \E a, u \in Users : BeginRemove(s, a, u)
    \/ \E u \in Users, m \in 1..count, op \in {"edit", "delete"} : BeginChange(s, u, m, op)
    \/ \E u \in Users, m \in Msgs : BeginMarkRead(s, u, m)
    \/ \E u \in Users, md \in {"ALL", "NONE"} : BeginMode(s, u, md)

Commit(s) ==
    \/ CommitPost(s) \/ CommitAdd(s) \/ CommitRole(s) \/ CommitRemove(s)
    \/ CommitEdit(s) \/ CommitDelete(s) \/ CommitMarkRead(s) \/ CommitMode(s)

Next == /\ \E s \in Slots : (Free(s) /\ Begin(s)) \/ Commit(s) \/ Refuse(s)
        /\ UNCHANGED serial

Spec == Init /\ [][Next]_vars

-----------------------------------------------------------------------------
(* Properties.                                                             *)

\* Every variable stays within its type.
TypeOK ==
    /\ membership \in [Users -> {"none", "active", "left"}]
    /\ role \in [Users -> {"OWNER", "MEMBER"}]
    /\ mode \in [Users -> {"ALL", "NONE"}]
    /\ lastRead \in [Users -> 0..count]
    /\ rowVersion \in [Users -> Nat]
    /\ count \in 0..MaxMessages
    /\ author \in [Msgs -> Users]
    /\ replyTo \in [Msgs -> Nat]
    /\ deleted \in [Msgs -> BOOLEAN]
    /\ msgVersion \in [Msgs -> Nat]
    /\ notified \in [Msgs -> SUBSET Users]
    /\ threadVersion \in Nat
    /\ started \in Nat

\* However removals and demotions overlap, the thread keeps an owner, and at
\* least two and at most Limit active participants.  Each handler checks this
\* on its snapshot; only the thread's version carries it to the commit.
GroupShape ==
    /\ Owners # {}
    /\ Cardinality(Actives) \in 2..Limit

\* Each version of the thread has exactly one outbox row, so the unique index
\* on (aggregate, version, type) never aborts a commit and no change is mute.
OneEventPerVersion ==
    \A v \in 1..threadVersion : Cardinality({e \in events : e[1] = v}) = 1

\* Retries of a post under one key, overlapping ones included, make one message.
OnePostPerKey ==
    \A m, n \in 1..count : author[m] = author[n] /\ keyOf[m] = keyOf[n] => m = n

\* No step edits a deleted message, deletes it again or brings it back.
DeletedIsFinal == \A m \in Msgs : deleted[m] => deleted'[m] /\ msgVersion'[m] = msgVersion[m]

\* Without overlap a read cursor only advances: markRead compares before it
\* writes, and a post moves the cursor of its author to the newest message.
\* (Two overlapping calls can move it back: markRead does not compare again.)
CursorAdvancesAlone == serial => \A u \in Users : lastRead'[u] >= lastRead[u]

\* Without overlap a message notifies exactly the participants who are active,
\* did not mute the thread and did not write it.  (A mute or a removal that
\* overlaps the post comes too late: the recipients were read before.)
NotifiesTheWilling ==
    serial => \A m \in Msgs : m = count + 1 /\ m <= count' =>
        notified'[m] = {u \in Actives : mode[u] = "ALL"} \ {author'[m]}
=============================================================================
