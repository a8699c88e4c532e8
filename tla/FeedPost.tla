------------------------------- MODULE FeedPost -------------------------------
(***************************************************************************)
(* One post of feed.service.ts: its audience, edits, acknowledgements,     *)
(* likes, subscriptions and comments, and the card of FeedPage.tsx it is   *)
(* edited in.  Its items and favourites are FeedStream's.                  *)
(*                                                                         *)
(* A handler reads the post, the audience and its own rows, and writes     *)
(* later; a request slot holds what it has read.  An edit demands the      *)
(* version it read, an acknowledgement and a like rely on unique keys, a   *)
(* comment on nothing.  The text of a version is named by the version.     *)
(*                                                                         *)
(* Left out: administrators, replies, attachments, notifications of a new  *)
(* post, and users of another company.                                     *)
(***************************************************************************)
EXTENDS Integers, FiniteSets

CONSTANTS
    Users, Author, \* Author is one of Users
    Slots, Idle,
    MaxRequests, MaxMoves  \* bounds on requests and on changes of the audience

VARIABLES
    post,    \* [version, ack, needs, live, to], version 0 before it exists
    named,   \* the users of a post TO "USERS"
    group, groupOpen, active,
    wanted,  \* FeedAcknowledgementRecipient rows: <<user, acknowledgementVersion>>
    acked,   \* FeedPostAcknowledgement rows, likewise
    like,    \* the number of a user's FeedReaction row, 0 without one
    likes,   \* [rows, toggles]: rows ever made, toggles that succeeded, per user
    mode,    \* FeedSubscription.mode, "ABSENT" without a row
    bell,    \* notifications of comments: [user, mentioned, on], on = the comment
    comments,
    card,    \* the version the author's card shows, 0 before it is loaded
    draft,   \* the version whose text is in the card's editBody
    lost,    \* an edit has replaced a version its text was not made from
    req, started, moves

rows    == <<wanted, acked>>
people  == <<named, group, groupOpen, active, moves>>
talk    == <<mode, bell, comments>>
page    == <<card, draft, lost>>
liking  == <<like, likes>>
vars    == <<post, rows, people, talk, page, liking, req, started>>

Kinds == {"COMPANY", "GROUP", "USERS"}

Init ==
    /\ post = [version |-> 0, ack |-> 0, needs |-> FALSE, live |-> FALSE, to |-> "USERS"]
    /\ named = {} /\ group \in {Users, {Author}} /\ groupOpen = TRUE
    /\ active = Users /\ moves = 0
    /\ wanted = {} /\ acked = {}
    /\ like = [u \in Users |-> 0] /\ likes = [u \in Users |-> [rows |-> 0, toggles |-> 0]]
    /\ mode = [u \in Users |-> "ABSENT"] /\ bell = {} /\ comments = 0
    /\ card = 0 /\ draft = 0 /\ lost = FALSE
    /\ req = [s \in Slots |-> Idle] /\ started = 0

-----------------------------------------------------------------------------
(* Who a post is for.  Creating one asks for an open group and for active  *)
(* users; an edit and a comment expand the stored recipients as they are.  *)
(* M_ definitions are deliberate mistakes.                                 *)

Expand(to, names) == IF to = "COMPANY" THEN active ELSE IF to = "GROUP" THEN group ELSE names
Audience          == Expand(post.to, named)
Accessible(u) ==
    /\ post.live /\ u \in active
    /\ \/ u = Author \/ post.to = "COMPANY"
       \/ post.to = "GROUP" /\ u \in group /\ groupOpen
       \/ post.to = "USERS" /\ u \in named

Free(s) == /\ started < MaxRequests /\ req[s] = Idle
           /\ s = CHOOSE o \in Slots : req[o] = Idle \* slots are alike
Begin(s, op, by, x, y) ==
    /\ started' = started + 1
    /\ req' = [req EXCEPT ![s] = [op |-> op, by |-> by, x |-> x, y |-> y, v |-> post]]
    /\ UNCHANGED <<post, rows, people, talk, page, liking>>
End(s)    == req' = [req EXCEPT ![s] = Idle] /\ UNCHANGED started
At(s, op) == req[s] # Idle /\ req[s].op = op

Owed(users, v, needs) == IF needs THEN (users \ {Author}) \X {v} ELSE {}

\* create; retried with its key it answers the post there is, and the key is
\* unique in its transaction, so that of two that overlap the second fails.
Create == \E to \in Kinds, needs \in BOOLEAN, names \in SUBSET active :
    /\ post.version = 0 /\ started < MaxRequests /\ started' = started + 1
    /\ to = "GROUP" => groupOpen
    /\ (to = "USERS") <=> (names # {})
    /\ post' = [version |-> 1, ack |-> IF needs THEN 1 ELSE 0, needs |-> needs, live |-> TRUE, to |-> to]
    /\ named' = names
    /\ \E mentioned \in {{}, Expand(to, names) \ {Author}} :
           mode' = [u \in Users |-> IF u = Author THEN "ALL"
                                    ELSE IF u \in mentioned THEN "MENTIONS" ELSE "ABSENT"]
    /\ wanted' = Owed(Expand(to, names), 1, needs)
    /\ UNCHANGED <<acked, group, groupOpen, active, moves, bell, comments, page, liking, req>>

\* update of the text that is in the card, with the version the card shows.
BeginUpdate(s) ==
    /\ card # 0 /\ Accessible(Author) /\ card = post.version
    /\ Begin(s, "update", Author, draft, Audience)
\* An editor who is not on the page: an administrator, or the author elsewhere.
BeginOther(s) ==
    Accessible(Author) /\ Begin(s, "update", Author, post.version, Audience)
M_Unmoved(s) == post.live
Unmoved(s)   == post.live /\ post.version = req[s].v.version
NextAck(p)   == IF p.needs THEN p.ack + 1 ELSE 0
CommitUpdate(s) ==
    /\ At(s, "update") /\ Unmoved(s)
    /\ post' = [post EXCEPT !.version = req[s].v.version + 1, !.ack = NextAck(req[s].v)]
    /\ wanted' = wanted \cup Owed(req[s].y, NextAck(req[s].v), post.needs)
    /\ lost' = (lost \/ req[s].x # post.version)
    /\ End(s) /\ UNCHANGED <<acked, people, talk, card, draft, liking>>
BeginArchive(s) == Accessible(Author) /\ Begin(s, "archive", Author, 0, {})
CommitArchive(s) ==
    /\ At(s, "archive") /\ Unmoved(s)
    /\ post' = [post EXCEPT !.version = @ + 1, !.live = FALSE]
    /\ End(s) /\ UNCHANGED <<rows, people, talk, page, liking>>

-----------------------------------------------------------------------------
(* The card: React keeps editBody from when the card appeared.  A card is  *)
(* keyed by its item, and every version has an item of its own, so that a  *)
(* refetch that brings a new version brings a new card and a new editBody. *)

M_Body(v) == IF draft = 0 THEN v ELSE draft
Body(v)   == v
Refetch == /\ card # post.version /\ Accessible(Author)
           /\ card' = post.version /\ draft' = Body(card')
           /\ UNCHANGED <<post, rows, people, talk, lost, liking, req, started>>

-----------------------------------------------------------------------------
(* Acknowledgements and likes.                                             *)

M_Asked(u, v) == TRUE
Asked(u, v)   == <<u, v>> \in wanted
BeginAck(s) == \E u \in Users \ {Author} :
    /\ Accessible(u) /\ post.needs
    /\ Asked(u, post.ack) /\ <<u, post.ack>> \notin acked
    /\ Begin(s, "ack", u, 0, {})
\* The second of two that overlap fails on the unique key.
CommitAck(s) ==
    /\ At(s, "ack") /\ <<req[s].by, req[s].v.ack>> \notin acked
    /\ acked' = acked \cup {<<req[s].by, req[s].v.ack>>}
    /\ End(s) /\ UNCHANGED <<post, wanted, people, talk, page, liking>>

BeginToggle(s) == \E u \in Users : Accessible(u) /\ Begin(s, "like", u, like[u], {})
M_Unique(u) == TRUE
Unique(u)   == like[u] = 0
CommitToggle(s) == LET u == req[s].by  n == likes[u].rows + 1 IN
    /\ At(s, "like")
    /\ \/ req[s].x = 0 /\ Unique(u) /\ like' = [like EXCEPT ![u] = n]
       \/ req[s].x # 0 /\ like[u] = req[s].x /\ like' = [like EXCEPT ![u] = 0]
    /\ likes' = [likes EXCEPT ![u] = [rows |-> IF req[s].x = 0 THEN n ELSE @.rows,
                                      toggles |-> @.toggles + 1]]
    /\ End(s) /\ UNCHANGED <<post, rows, people, talk, page>>

\* A write that a version, a unique key or a missing row stops.
Refuse(s) ==
    /\ \/ (At(s, "update") \/ At(s, "archive")) /\ ~Unmoved(s)
       \/ At(s, "ack") /\ <<req[s].by, req[s].v.ack>> \in acked
       \/ At(s, "like") /\ req[s].x = 0 /\ ~Unique(req[s].by)
       \/ At(s, "like") /\ req[s].x # 0 /\ like[req[s].by] # req[s].x
    /\ End(s) /\ UNCHANGED <<post, rows, people, talk, page, liking>>

-----------------------------------------------------------------------------
(* Subscriptions and comments.                                             *)

Subscribe == \E u \in Users, m \in {"NONE", "MENTIONS", "ALL"} :
    /\ Accessible(u) /\ mode[u] # m /\ started < MaxRequests /\ started' = started + 1
    /\ mode' = [mode EXCEPT ![u] = m]
    /\ UNCHANGED <<post, rows, people, bell, comments, page, liking, req>>

\* x: those mentioned, y: the active users of the audience, and the author.
BeginComment(s) == \E u \in Users : \E mentioned \in SUBSET ((Audience \cup {u}) \ {Author}) :
    /\ Accessible(u)
    /\ Begin(s, "comment", u, mentioned, (Audience \cup {Author}) \cap active)

M_Willing(m, isMentioned) == m = "ALL" \/ isMentioned
Willing(m, isMentioned)   == m = "ALL" \/ (m = "MENTIONS" /\ isMentioned)
CommitComment(s) ==
    /\ At(s, "comment")
    /\ mode' = [u \in Users |->
           IF mode[u] # "ABSENT" THEN mode[u]
           ELSE IF u = req[s].by THEN "ALL" ELSE IF u \in req[s].x THEN "MENTIONS" ELSE "ABSENT"]
    /\ comments' = comments + 1
    /\ bell' = bell \cup
           {[user |-> u, mentioned |-> u \in req[s].x, on |-> comments'] :
            u \in {w \in req[s].y \ {req[s].by} : Willing(mode'[w], w \in req[s].x)}}
    /\ End(s) /\ UNCHANGED <<post, rows, people, page, liking>>

\* Users are deactivated, leave the group and join it; a group is archived.
Move ==
    /\ moves < MaxMoves /\ moves' = moves + 1
    /\ \/ \E u \in active \ {Author} : active' = active \ {u} /\ UNCHANGED <<group, groupOpen>>
       \/ \E u \in group \ {Author} : group' = group \ {u} /\ UNCHANGED <<active, groupOpen>>
       \/ \E u \in Users \ group : group' = group \cup {u} /\ UNCHANGED <<active, groupOpen>>
       \/ groupOpen /\ groupOpen' = FALSE /\ UNCHANGED <<active, group>>
    /\ UNCHANGED <<post, rows, named, talk, page, liking, req, started>>

\* Texts and acknowledgements on one side, talk and likes on the other.
TextNext ==
    \/ Create \/ Refetch \/ Move
    \/ \E s \in Slots : Free(s) /\ (BeginUpdate(s) \/ BeginOther(s) \/ BeginArchive(s) \/ BeginAck(s))
    \/ \E s \in Slots : CommitUpdate(s) \/ CommitArchive(s) \/ CommitAck(s) \/ Refuse(s)
TalkNext ==
    \/ Create \/ Subscribe \/ Move
    \/ \E s \in Slots : Free(s) /\ (BeginToggle(s) \/ BeginComment(s))
    \/ \E s \in Slots : CommitToggle(s) \/ CommitComment(s) \/ Refuse(s)
Next == TextNext \/ TalkNext
Spec == Init /\ [][Next]_vars

-----------------------------------------------------------------------------
TypeOK ==
    /\ post \in [version : Nat, ack : Nat, needs : BOOLEAN, live : BOOLEAN, to : Kinds]
    /\ wanted \subseteq Users \X Nat /\ acked \subseteq Users \X Nat
    /\ like \in [Users -> Nat] /\ mode \in [Users -> {"ABSENT", "NONE", "MENTIONS", "ALL"}]
    /\ card \in 0 .. post.version /\ draft \in 0 .. post.version
    /\ named \cup group \cup active \subseteq Users

\* The list of what awaits acknowledgement and the number above it are two
\* computations: one goes by the post, the other by the recipients.
AwaitsInList(u) ==
    /\ Accessible(u) /\ post.needs
    /\ \E v \in 1 .. post.ack : <<u, v>> \in wanted
    /\ <<u, post.ack>> \in wanted /\ <<u, post.ack>> \notin acked
PendingCount(u) == IF ~Accessible(u) THEN 0
                   ELSE Cardinality({r \in wanted : r[1] = u /\ r[2] = post.ack} \ acked)

\* toViews counts for the card what was asked for, and what has been given, for
\* the present version; the card has a button where asked and not yet given.
OfNow(r)    == r[2] = post.ack
M_View(u)   == [asked |-> <<u, post.ack>> \in wanted, has |-> \E r \in acked : r[1] = u,
                given |-> Cardinality(acked), of |-> Cardinality(wanted)]
View(u)     == [asked |-> <<u, post.ack>> \in wanted, has |-> <<u, post.ack>> \in acked,
                given |-> Cardinality({r \in acked : OfNow(r)}),
                of    |-> Cardinality({r \in wanted : OfNow(r)})]
Button(u)   == post.needs /\ View(u).asked /\ ~View(u).has

\* Only who was asked has acknowledged, for the version they were asked for,
\* and a card has its button exactly when it is in the list and counted of
\* what awaits acknowledgement, also when one crosses the edit that asks again.
AcksHonest ==
    /\ acked \subseteq wanted /\ \A r \in wanted : r[2] \in 1 .. post.ack
    /\ \A u \in Users :
        /\ PendingCount(u) = IF AwaitsInList(u) THEN 1 ELSE 0
        /\ Accessible(u) => (Button(u) <=> AwaitsInList(u)) /\ View(u).given <= View(u).of

\* Every toggle that succeeds counts, whatever overlaps: a user likes the post
\* after an odd number of them.
EachToggleCounts == \A u \in Users : (like[u] # 0) <=> (likes[u].toggles % 2 = 1)

\* A comment notifies who follows the post by then, and who asked for mentions
\* only of a mention, but never who has turned notifications off.
OnlyWillingNotified ==
    \A n \in bell' \ bell : mode'[n.user] = "ALL" \/ (mode'[n.user] = "MENTIONS" /\ n.mentioned)

\* An edit replaces only the text it was made from: the version of the card and
\* the text in it belong together, whatever is refetched around an edit.
NoLostEdit == ~lost
=============================================================================
