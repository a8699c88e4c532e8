------------------------------ MODULE ChatInbox ------------------------------
(***************************************************************************)
(* One user's list of chat threads: threads, summary and preview of        *)
(* messages.service.ts, and the list the browser keeps (messageCache.ts).  *)
(*                                                                         *)
(* Threads are listed by (lastMessageAt, createdAt, id), those without a   *)
(* message after all others, and paged by a cursor of these three; with    *)
(* the unread filter the ids of a page come from a query of their own, and *)
(* the counts over the list from a third one.                              *)
(*                                                                         *)
(* Threads are numbered in the order they are created in; messages carry   *)
(* the time they are posted at.  Left out: companies, titles, other        *)
(* participants, and replies that overtake each other (ChatWindow).        *)
(***************************************************************************)
EXTENDS Integers, Sequences, FiniteSets

CONSTANTS
    MaxThreads, MaxPosts, MaxMoves,  \* bounds
    Grouped,   \* the threads that belong to a work group
    Limit      \* threads of a page, and of the first page of the cache

VARIABLES
    threads,   \* so many threads there are
    clock,     \* the time of the last message
    last,      \* MessageThread.lastMessageAt, 0 without one
    posts,     \* messages: [in, at, own, gone]
    marker,    \* the time of the message lastReadMessageId names, 0 without one
    inside,    \* threads the user takes part in
    member,    \* threads of active groups of which the user is a member
    list,      \* the pages shown: sequences of [t, unread]; << >> before the first
    next,      \* the cursor of the next page, None at the end
    filter,    \* the list shows unread threads only
    counts,    \* [all, unread] as they came with the first page
    calm,      \* threads nothing happened to since the first page was read
    pushed,    \* threads a preview has pushed off the first page
    moves

rows == <<threads, clock, last, posts, marker, inside, member, moves>>
page == <<list, next, filter, counts, calm, pushed>>
vars == <<rows, page>>

Threads == 1 .. threads
None    == [at |-> -1, t |-> 0]
Place(t)     == [at |-> last[t], t |-> t]
Behind(p, q) == p.at < q.at \/ (p.at = q.at /\ p.t < q.t)

Init ==
    /\ threads = 1 /\ clock = 0 /\ last = [t \in 1 .. MaxThreads |-> 0] /\ posts = {}
    /\ marker = [t \in 1 .. MaxThreads |-> 0] /\ inside = 1 .. MaxThreads /\ member = Grouped
    /\ list = <<>> /\ next = None /\ filter \in BOOLEAN /\ counts = [all |-> 0, unread |-> 0]
    /\ calm = {} /\ pushed = {} /\ moves = 0

Touch(t) == calm' = calm \ {t}
Move     == moves < MaxMoves /\ moves' = moves + 1

-----------------------------------------------------------------------------
(* What happens to threads.                                                *)

Open == /\ threads < MaxThreads /\ threads' = threads + 1 /\ Touch(threads')
        /\ UNCHANGED <<clock, last, posts, marker, inside, member, moves, list, next, filter, counts, pushed>>
\* A post of one's own moves the marker to it.
Post(t, own) ==
    /\ clock < MaxPosts /\ clock' = clock + 1 /\ (own => t \in inside)
    /\ posts' = posts \cup {[in |-> t, at |-> clock', own |-> own, gone |-> FALSE]}
    /\ last' = [last EXCEPT ![t] = clock']
    /\ marker' = IF own THEN [marker EXCEPT ![t] = clock'] ELSE marker
    /\ Touch(t) /\ UNCHANGED <<threads, inside, member, moves, list, next, filter, counts, pushed>>
\* Deleting a message leaves lastMessageAt and the markers on it.
Delete(x) ==
    /\ ~x.gone /\ Move /\ posts' = (posts \ {x}) \cup {[x EXCEPT !.gone = TRUE]}
    /\ Touch(x.in) /\ UNCHANGED <<threads, clock, last, marker, inside, member, list, next, filter, counts, pushed>>
Read(x) ==
    /\ x.in \in inside /\ marker[x.in] < x.at /\ marker' = [marker EXCEPT ![x.in] = x.at]
    /\ Touch(x.in) /\ UNCHANGED <<threads, clock, last, posts, inside, member, moves, list, next, filter, counts, pushed>>
\* The user is removed from a thread or added again, or leaves or joins a group
\* or the group is archived.
Remove(t) ==
    /\ Move
    /\ \/ inside' = (inside \ {t}) \cup ({t} \ inside) /\ UNCHANGED member
       \/ t \in Grouped /\ member' = (member \ {t}) \cup ({t} \ member) /\ UNCHANGED inside
    /\ Touch(t) /\ UNCHANGED <<threads, clock, last, posts, marker, list, next, filter, counts, pushed>>

-----------------------------------------------------------------------------
(* The three queries.  M_ definitions are deliberate mistakes.             *)

Visible(t) == t \in inside /\ (t \in Grouped => t \in member)
UnreadCount(t) == Cardinality({x \in posts : x.in = t /\ ~x.gone /\ ~x.own /\ x.at > marker[t]})
M_IsUnread(t)  == \E x \in posts : x.in = t /\ ~x.own /\ x.at > marker[t]
IsUnread(t)    == \E x \in posts : x.in = t /\ ~x.gone /\ ~x.own /\ x.at > marker[t]
Summary == [all |-> Cardinality({t \in Threads : Visible(t)}),
            unread |-> Cardinality({t \in Threads : Visible(t) /\ IsUnread(t)})]

M_AfterCursor(t, c) == last[t] < c.at \/ (last[t] = c.at /\ t <= c.t)
AfterCursor(t, c) ==
    IF c.at > 0 THEN last[t] < c.at \/ last[t] = 0 \/ (last[t] = c.at /\ t < c.t)
    ELSE last[t] = 0 /\ t < c.t
Entry(t)    == [t |-> t, unread |-> UnreadCount(t) > 0]
First(S, n) == {t \in S : Cardinality({o \in S : Behind(Place(t), Place(o))}) < n}
Sorted(S)   == [i \in 1 .. Cardinality(S) |->
                   Entry(CHOOSE t \in S : Cardinality({o \in S : Behind(Place(t), Place(o))}) = i - 1)]
PageOf(S) ==
    LET rows_ == First({t \in S : Visible(t) /\ (filter => IsUnread(t))}, Limit + 1)
        cut   == First(rows_, Limit)
    IN  [items |-> Sorted(cut),
         next |-> IF Cardinality(rows_) > Limit THEN Place(CHOOSE t \in cut : \A o \in cut : ~Behind(Place(o), Place(t))) ELSE None]

FirstPage ==
    LET p == PageOf(Threads) IN
    /\ list' = <<p.items>> /\ next' = p.next /\ counts' = Summary
    /\ calm' = 1 .. MaxThreads /\ pushed' = {} /\ UNCHANGED <<rows, filter>>
NextPage ==
    LET p == PageOf({t \in Threads : AfterCursor(t, next)}) IN
    /\ next # None /\ list' = Append(list, p.items) /\ next' = p.next
    /\ UNCHANGED <<rows, filter, counts, calm, pushed>>

\* The thread of an event is shown as it is now, in its place or first; the
\* first page then keeps Limit threads.  Both lists get every thread.  (The
\* first page is also sorted again; nothing here asks for the order in a page.)
Shown == UNION {{list[p][i].t : i \in DOMAIN list[p]} : p \in DOMAIN list}
Previewed(t) == list # <<>> /\ Visible(t) /\ t \notin calm
Preview(t) ==
    LET e == Entry(t) IN
    /\ Previewed(t) /\ counts' = Summary
    /\ IF t \in Shown
       THEN /\ list' = [p \in DOMAIN list |-> [i \in DOMAIN list[p] |->
                            IF list[p][i].t = t THEN e ELSE list[p][i]]]
            /\ UNCHANGED pushed
       ELSE /\ list' = [list EXCEPT ![1] = SubSeq(<<e>> \o @, 1, IF Len(@) < Limit THEN Len(@) + 1 ELSE Limit)]
            /\ pushed' = IF Len(list[1]) < Limit THEN pushed ELSE pushed \cup {list[1][Len(list[1])].t}
    /\ UNCHANGED <<rows, next, filter, calm>>

Next ==
    \/ Open \/ FirstPage \/ NextPage
    \/ \E t \in Threads : \/ \E own \in BOOLEAN : Post(t, own)
                          \/ Remove(t) \/ Preview(t)
    \/ \E x \in posts : Delete(x) \/ Read(x)
Spec == Init /\ [][Next]_vars

-----------------------------------------------------------------------------
TypeOK ==
    /\ threads \in 1 .. MaxThreads /\ clock \in 0 .. MaxPosts
    /\ \A t \in Threads : last[t] \in 0 .. clock /\ marker[t] \in 0 .. last[t]
    /\ inside \subseteq 1 .. MaxThreads /\ member \subseteq Grouped /\ next.at \in -1 .. clock

Wanted(t) == Visible(t) /\ (filter => IsUnread(t))

\* Scrolling through the list while threads change and previews arrive shows
\* no unchanged thread twice and misses none, the ones without a message
\* included, unless a preview has pushed it off the first page.
ListWalkedOnce ==
    list # <<>> =>
        /\ \A t \in calm \cap Threads :
               Wanted(t) /\ (next = None \/ Behind(next, Place(t))) => t \in Shown \cup pushed
        /\ \A p, q \in DOMAIN list : \A i \in DOMAIN list[p], j \in DOMAIN list[q] :
               list[p][i].t = list[q][j].t /\ list[p][i].t \in calm => p = q /\ i = j

\* The counts over the list are the number of threads it has when it has been
\* scrolled to its end, and of those it marks unread.
CountsMatchList ==
    (list # <<>> /\ next = None /\ Threads \subseteq calm) =>
        /\ Cardinality(Shown) = IF filter THEN counts.unread ELSE counts.all
        /\ counts.unread = Cardinality({q \in (DOMAIN list) \X (1 .. Limit) :
                               q[2] \in DOMAIN list[q[1]] /\ list[q[1]][q[2]].unread})
=============================================================================
