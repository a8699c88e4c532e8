----------------------------- MODULE FeedReading -----------------------------
(***************************************************************************)
(* One user reads the feed of one company: the pages of                    *)
(* feed.service.ts list, the unread count, the marker of the first page    *)
(* that FeedPage.tsx sends back, and imported history.                     *)
(*                                                                         *)
(* A page is found among the first Scan heads behind the cursor that the   *)
(* user may see by the rows of the item; their sources are read again and  *)
(* may hide some.  The unread count goes by the rows alone.                *)
(*                                                                         *)
(* A place stands for (occurredAt, id): live items take later and later    *)
(* places, imported ones take a free place before Cutover.  One importer   *)
(* runs at a time, what it imports concerns the user.  Left out:           *)
(* filters other than the one without (a filter that the rows cannot       *)
(* decide hides heads like a source does), several companies, and the      *)
(* favourites and versions of FeedStream.                                  *)
(***************************************************************************)
EXTENDS Integers, Sequences, FiniteSets

CONSTANTS
    Sources,
    Limit, Scan,  \* entries of a page; heads read for one, more than Limit
    Cutover,      \* history lies before this place
    MaxPlace, MaxMoves, MaxAsked  \* bounds: places, changes of who sees a source,
                                  \* markers on their way at a time

VARIABLES
    head,    \* the place of the head of a source, 0 before it has an item
    counts,  \* sources whose head countsAsUnread
    row,     \* sources whose head has a recipient row for the user
    shown,   \* sources the user may read
    cursor,  \* FeedReadCursor, 0 without one
    clock,   \* the last live place
    walk,    \* [seen, next, calm]: entries of the pages so far, the next cursor
             \* (0 at the end), sources nothing happened to since the first page
    marker,  \* readMarkers of the first page on the screen, 0 without one
    sent,    \* the marker the page has sent last: readKey
    calm,    \* nothing happened to any source since the first page was read
    moves,
    past,    \* the place of the imported item of a source, 0 without one
    seed,    \* the importer seeding the cursor: [latest, behind, crossed]; the
             \* newest imported item, 0 when it is not; the cursor was found
             \* behind it; a marker has been taken since then
    asked,   \* markers on their way: [to, found]; found: seen to be a head
    heard    \* the server has taken the marker, and no seeding undone that

reader == <<marker, sent, walk, calm>>
marks  == <<asked, heard>>
vars   == <<head, counts, row, shown, cursor, clock, reader, moves, past, seed, marks>>

Start == MaxPlace + 1
Unseeded == [latest |-> 0, behind |-> FALSE, crossed |-> FALSE]
Fresh(s) == s = CHOOSE o \in Sources : head[o] = 0 \* sources are alike
Heads == {s \in Sources : head[s] # 0 /\ s \in row}
Touch(s) == /\ walk' = [walk EXCEPT !.calm = @ \ {s}]
            /\ calm' = FALSE

Init ==
    /\ head = [s \in Sources |-> 0] /\ counts = {} /\ row = {} /\ shown = {}
    /\ cursor = 0 /\ clock = Cutover
    /\ walk = [seen |-> <<>>, next |-> 0, calm |-> {}]
    /\ marker = 0 /\ sent = 0 /\ calm = FALSE /\ moves = 0
    /\ past = [s \in Sources |-> 0] /\ seed = Unseeded /\ asked = {} /\ heard = FALSE

-----------------------------------------------------------------------------
(* The sources.  M_ definitions are deliberate mistakes.                   *)

\* A live change projects the source to those it concerns.
Live(s) ==
    /\ head[s] = 0 => Fresh(s)
    /\ clock < MaxPlace /\ clock' = clock + 1
    /\ head' = [head EXCEPT ![s] = clock'] /\ counts' = counts \cup {s}
    /\ \E sees \in BOOLEAN :
           /\ row' = IF sees THEN row \cup {s} ELSE row \ {s}
           /\ shown' = IF sees THEN shown \cup {s} ELSE shown \ {s}
    /\ Touch(s) /\ UNCHANGED <<cursor, marker, sent, moves, past, seed, marks>>

\* Someone joins or leaves a task, an event or a share without a new item.
Move(s) ==
    /\ head[s] # 0 /\ moves < MaxMoves /\ moves' = moves + 1
    /\ shown' = (shown \ {s}) \cup ({s} \ shown)
    /\ Touch(s) /\ UNCHANGED <<head, counts, row, cursor, clock, marker, sent, past, seed, marks>>

-----------------------------------------------------------------------------
(* The importer: a transaction per source, then the cursor.                *)

Latest(S) == CHOOSE n \in S : \A m \in S : m <= n
M_Silent(s) == counts \cup {s}
Silent(s)   == counts \ {s}
\* materializeHistoricalSources: the head of a source that has one is live, and
\* newer.
Import(s) == \E place \in 1 .. Cutover :
    /\ seed = Unseeded /\ past[s] = 0 /\ \A o \in Sources : place \notin {head[o], past[o]}
    /\ past' = [past EXCEPT ![s] = place]
    /\ IF head[s] # 0 THEN UNCHANGED <<head, counts, row, shown, walk, calm>>
       ELSE /\ Fresh(s) /\ Touch(s)
            /\ head' = [head EXCEPT ![s] = place] /\ counts' = Silent(s)
            /\ row' = row \cup {s} /\ shown' = shown \cup {s}
    /\ UNCHANGED <<cursor, clock, marker, sent, moves, seed, marks>>

\* seedHistoricalReadCursors; a user without history is passed over.
FindLatest ==
    LET history == {past[s] : s \in Sources} \ {0} IN
    /\ seed = Unseeded /\ history # {}
    /\ seed' = [Unseeded EXCEPT !.latest = Latest(history)]
    /\ UNCHANGED <<head, counts, row, shown, cursor, clock, reader, moves, past, marks>>
FindCursor ==
    /\ seed.latest # 0 /\ ~seed.behind
    /\ seed' = IF cursor >= seed.latest THEN Unseeded ELSE [seed EXCEPT !.behind = TRUE]
    /\ UNCHANGED <<head, counts, row, shown, cursor, clock, reader, moves, past, marks>>
\* Whatever the cursor has become.
Upsert ==
    /\ seed.behind /\ seed' = Unseeded
    /\ cursor' = seed.latest /\ heard' = (heard /\ ~seed.crossed)
    /\ UNCHANGED <<head, counts, row, shown, clock, reader, moves, past, asked>>

-----------------------------------------------------------------------------
(* A page of the list behind a cursor.                                     *)

M_Newest(S, n) == {s \in S : Cardinality({o \in S : head[o] < head[s]}) < n}
Newest(S, n)   == {s \in S : Cardinality({o \in S : head[o] > head[s]}) < n}
Ordered(S)   == [i \in 1 .. Cardinality(S) |->
                    CHOOSE s \in S : Cardinality({o \in S : head[o] > head[s]}) = i - 1]
Last(S)      == CHOOSE n \in {head[s] : s \in S} : \A s \in S : n <= head[s]

M_After(raw, visible, page) == IF Cardinality(raw) = Scan THEN Last(raw) ELSE 0
After(raw, visible, page) ==
    IF page # visible THEN Last(page) ELSE IF Cardinality(raw) = Scan THEN Last(raw) ELSE 0
\* toEntries reads the sources again.
Readable(raw) == raw \cap shown
Page(from) ==
    LET raw     == Newest({s \in Heads : head[s] < from}, Scan)
        visible == Readable(raw)
        page    == Newest(visible, Limit)
    IN  [items |-> Ordered(page), next |-> After(raw, visible, page)]

\* The first page, read anew; its newest entry is the marker of the company.
FirstPage ==
    LET p == Page(Start) IN
    /\ walk' = [seen |-> p.items, next |-> p.next, calm |-> Sources]
    /\ marker' = IF p.items = <<>> THEN 0 ELSE head[p.items[1]]
    /\ calm' = TRUE /\ heard' = (heard /\ marker' = marker)
    /\ UNCHANGED <<head, counts, row, shown, cursor, clock, sent, moves, past, seed, asked>>
NextPage ==
    LET p == Page(walk.next) IN
    /\ walk.next # 0
    /\ walk' = [walk EXCEPT !.seen = @ \o p.items, !.next = p.next]
    /\ UNCHANGED <<head, counts, row, shown, cursor, clock, marker, sent, calm, moves, past, seed, marks>>

\* The page sends every marker once, whatever comes of it.
MarkRead ==
    /\ marker \notin {0, sent} /\ sent' = marker /\ Cardinality(asked) < MaxAsked
    /\ asked' = asked \cup {[to |-> marker, found |-> FALSE]}
    /\ UNCHANGED <<head, counts, row, shown, cursor, clock, walk, marker, calm, moves, past, seed, heard>>
\* markRead refuses a marker that is no head any more.
Look(q) ==
    /\ ~q.found
    /\ asked' = (asked \ {q}) \cup IF \E s \in Heads : head[s] = q.to
                                    THEN {[q EXCEPT !.found = TRUE]} ELSE {}
    /\ UNCHANGED <<head, counts, row, shown, cursor, clock, reader, moves, past, seed, heard>>
Take(q) ==
    /\ q.found /\ asked' = asked \ {q} /\ heard' = (heard \/ q.to = marker)
    /\ cursor' = IF q.to > cursor THEN q.to ELSE cursor
    /\ seed' = [seed EXCEPT !.crossed = seed.behind]
    /\ UNCHANGED <<head, counts, row, shown, clock, reader, moves, past>>
Lose(q) ==
    /\ asked' = asked \ {q}
    /\ UNCHANGED <<head, counts, row, shown, cursor, clock, reader, moves, past, seed, heard>>

Next ==
    \/ \E s \in Sources : Live(s) \/ Move(s) \/ Import(s)
    \/ FindLatest \/ FindCursor \/ Upsert
    \/ FirstPage \/ NextPage \/ MarkRead
    \/ \E q \in asked : Look(q) \/ Take(q) \/ Lose(q)
Spec == Init /\ [][Next]_vars

-----------------------------------------------------------------------------
Unread == {s \in Heads : s \in counts /\ head[s] > cursor}

TypeOK ==
    /\ head \in [Sources -> 0 .. MaxPlace] /\ clock \in Cutover .. MaxPlace
    /\ counts \cup row \cup shown \cup walk.calm \subseteq Sources
    /\ cursor \in 0 .. MaxPlace /\ marker \in 0 .. MaxPlace /\ sent \in 0 .. MaxPlace
    /\ walk.seen \in Seq(Sources) /\ walk.next \in 0 .. MaxPlace
    /\ past \in [Sources -> 0 .. Cutover]
    /\ seed \in [latest : 0 .. Cutover, behind : BOOLEAN, crossed : BOOLEAN]
    /\ asked \subseteq [to : 1 .. MaxPlace, found : BOOLEAN]

\* Going through the pages while the feed changes shows nothing twice that did
\* not change in between, keeps the order, and misses nothing that was there all
\* the time (implementation-checklist.md:82).
WalkOnce ==
    /\ \A i, j \in DOMAIN walk.seen :
           (i < j /\ {walk.seen[i], walk.seen[j]} \subseteq walk.calm)
               => head[walk.seen[i]] > head[walk.seen[j]]
    /\ \A s \in walk.calm \cap Heads \cap shown :
           head[s] > walk.next => \E i \in DOMAIN walk.seen : walk.seen[i] = s

\* An import makes nothing unread, and the cursor only advances
\* (decisions.md:63, :83), unless a marker was taken between the importer's look
\* at the cursor and its write.
HistoryIsSilent ==
    ~seed.crossed => /\ past' # past \/ seed' # seed => Unread' \subseteq Unread
                     /\ cursor <= cursor'

\* A first page that was read, and whose marker was taken, leaves nothing unread
\* that the user can see, unless something happened since.
ReadClears == (calm /\ marker # 0 /\ heard) => Unread \cap shown = {}
=============================================================================
