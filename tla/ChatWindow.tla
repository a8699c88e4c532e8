------------------------------ MODULE ChatWindow ------------------------------
(***************************************************************************)
(* The window of one chat thread in the browser: MessagesPage.tsx with its *)
(* page cache (messageCache.ts) and event stream (useMessageRealtime.ts),  *)
(* and the pages messagesPage of messages.service.ts answers.              *)
(*                                                                         *)
(* The cache is written from three sides: pages that are fetched, messages *)
(* that an event made the page read one by one, and the optimistic copy of *)
(* a message being sent.  A load writes what it found, added to the pages  *)
(* there were when it began, so that it undoes what was written meanwhile, *)
(* and so does the page around a search result, which stands alone; a      *)
(* message that is not among the pages is appended to the newest one.      *)
(* odd collects what may have gone wrong that way; a reload repairs it.    *)
(*                                                                         *)
(* Messages are numbered in the order of (createdAt, id); -a is the        *)
(* optimistic copy of attempt a to send.  Deleting is an edit.  Left out:  *)
(* replies, attachments, switching threads, the list of threads, and that  *)
(* one's own edit is read a second time, beside its event.                 *)
(***************************************************************************)
EXTENDS Integers, Sequences, FiniteSets

CONSTANTS
    Old,   \* messages there are when the window opens
    Size,  \* messages of a page
    Found, \* messages that a search has found
    MaxMessages, MaxAttempts,
    MaxVersion,   \* bound: messages are edited until one has so many versions
    MaxTroubles   \* bound on failures and lost streams

VARIABLES
    count, ver,   \* messages of the thread; the version of each
    mine, made,   \* the user's own; the message an attempt (its key) has made
    asked,        \* attempts whose request the server may still carry out
    pages, view,  \* the cache, newest page first; "latest" or "around"
    sending,      \* the attempt that is pending in the composer, 0 if none
    attempt,      \* the last attempt; a retry of the same text keeps its key
    bus, replies, \* events on their way; messages read, to be written
    load,         \* a load of pages in flight: [result, again, odd]
    opening,      \* search results being opened: [m, result, odd]
    connected,    \* the event stream is open
    odd,          \* "stray", "late", "crossed", "missed"
    failed,       \* the last attempt has failed: the composer still has its text
    troubles

Wellformed ==
    /\ {Old, MaxMessages, MaxAttempts} \subseteq Nat /\ Size \in Nat \ {0}
    /\ Old <= MaxMessages /\ Found \subseteq 1 .. Old

server == <<count, ver, mine, made, asked>>
cache  == <<pages, view, odd>>
tries  == <<sending, attempt, failed>>
wire   == <<bus, connected>>
loads  == <<load, opening>>
vars   == <<server, cache, tries, wire, replies, loads, troubles>>

Trouble == troubles < MaxTroubles /\ troubles' = troubles + 1
None    == [result |-> <<>>, again |-> FALSE, odd |-> {}]

-----------------------------------------------------------------------------
(* The pages of the server.  M_ definitions are deliberate mistakes.       *)

Over(S, m)    == Cardinality({o \in S : o > m})
Under(S, m)   == Cardinality({o \in S : o < m})
Top(S, n)     == {m \in S : Over(S, m) < n}
Bottom(S, n)  == {m \in S : Under(S, m) < n}
Nth(S, n)     == CHOOSE m \in S : Under(S, m) = n - 1
Least(S)      == CHOOSE m \in S : \A o \in S : m <= o
Sorted(S)     == [i \in 1 .. Cardinality(S) |-> [m |-> Nth(S, i), v |-> ver[Nth(S, i)]]]
M_More(rows, n) == Cardinality(rows) >= n
More(rows, n)   == Cardinality(rows) > n

Earlier(m) == {o \in 1 .. count : o < m}
Later(m)   == {o \in 1 .. count : o > m}

Before(c) ==
    LET rows == Top(Earlier(c), Size + 1)
        page == Top(rows, Size)
    IN  [items |-> Sorted(page), older |-> IF More(rows, Size) THEN Least(page) ELSE 0]
Around(m) ==
    LET n    == (Size - 1) \div 2
        rows == Top(Earlier(m), n + 1)
        page == Top(rows, n) \cup {m} \cup Bottom(Later(m), Size - 1 - n)
    IN  [items |-> Sorted(page), older |-> IF More(rows, n) THEN Least(page) ELSE 0]

\* As many pages as there are, one after the other.
Reload[n \in Nat] ==
    IF n <= 1 THEN <<Before(count + 1)>>
    ELSE LET r == Reload[n - 1]  last == r[Len(r)].older
         IN  IF last = 0 THEN r ELSE Append(r, Before(last))

Init ==
    /\ count = Old /\ ver = [m \in 1 .. MaxMessages |-> 1] /\ mine = {}
    /\ made = [a \in 1 .. MaxAttempts |-> 0] /\ asked = {} /\ troubles = 0
    /\ pages = Reload[1] /\ view = "latest" /\ odd = {}
    /\ sending = 0 /\ attempt = 0 /\ failed = FALSE
    /\ bus = {} /\ connected = TRUE /\ replies = {} /\ load = None /\ opening = {}

-----------------------------------------------------------------------------
(* Writing the cache.                                                      *)

Entries(ps) == UNION {{ps[p].items[i] : i \in DOMAIN ps[p].items} : p \in DOMAIN ps}
Shown(m)    == {e.v : e \in {e \in Entries(pages) : e.m = m}}
Has(m)      == Shown(m) # {}
Kept(s, S)  == LET K == {i \in DOMAIN s : s[i].m \notin S}
               IN  [i \in 1 .. Cardinality(K) |-> s[Nth(K, i)]]
Without(ps, S) == [p \in DOMAIN ps |-> [ps[p] EXCEPT !.items = Kept(@, S)]]
AtEnd(ps, e)   == [ps EXCEPT ![1].items = Append(@, e)]
LastOf(ps)     == IF ps[1].items = <<>> THEN 0 ELSE ps[1].items[Len(ps[1].items)].m

\* Whatever happens to the cache or is missed during a load is noted there too.
Note(S) == odd' = odd \cup S
Busy    == load # None
Crossed == IF Busy THEN {"crossed"} ELSE {}
Marked(S) == IF Busy THEN [load EXCEPT !.odd = @ \cup S] ELSE load
Opened(S) == {[o EXCEPT !.odd = @ \cup S] : o \in opening}
Misses(S) == Note(S) /\ load' = Marked(S) /\ opening' = Opened(S)

\* upsertMessageCache: gone are the optimistic copies that make way.
M_Upsert(r, gone) ==
    LET e == [m |-> r.m, v |-> r.v] IN AtEnd(Without(pages, gone \cup {r.m}), e)
Upsert(r, gone) ==
    LET e == [m |-> r.m, v |-> r.v]  kept == Without(pages, gone) IN
    IF Has(r.m) THEN [p \in DOMAIN kept |-> [kept[p] EXCEPT
                         !.items = [i \in DOMAIN @ |-> IF @[i].m = r.m THEN e ELSE @[i]]]]
    ELSE AtEnd(kept, e)

\* An appended message that is not the next one, a version that is overtaken.
Strays(r, gone) == ~Has(r.m) /\ LastOf(Without(pages, {-a : a \in 1 .. MaxAttempts})) # r.m - 1
Late(r)         == \/ \E v \in Shown(r.m) : r.v < v
                   \/ r.v < ver[r.m] /\ r.m \notin bus /\ ~\E q \in replies : q.m = r.m /\ q.by = 0 /\ q.v > r.v
Oddly(r, gone)  == Crossed \cup (IF Strays(r, gone) THEN {"stray"} ELSE {})
                           \cup (IF Late(r) THEN {"late"} ELSE {})

-----------------------------------------------------------------------------
(* The server, and the event of a change (publish, userStream).            *)

Publish(m) ==
    /\ bus' = IF connected THEN bus \cup {m} ELSE bus
    /\ IF connected THEN UNCHANGED <<odd, loads>> ELSE Misses({"missed"})
    /\ UNCHANGED <<connected, pages, view, tries, replies>>

Post ==
    /\ count < MaxMessages /\ count' = count + 1
    /\ Publish(count') /\ UNCHANGED <<ver, mine, made, asked, troubles>>
Edit(m) ==
    /\ m <= count /\ \A o \in 1 .. count : ver[o] < MaxVersion
    /\ ver' = [ver EXCEPT ![m] = @ + 1]
    /\ Publish(m) /\ UNCHANGED <<count, mine, made, asked, troubles>>

\* post of an attempt: its key makes a message once.
Commit(a) ==
    /\ a \in asked /\ asked' = asked \ {a}
    /\ IF made[a] # 0 THEN UNCHANGED <<count, mine, made, wire, odd, loads, pages, view, tries, replies>>
       ELSE /\ count < MaxMessages /\ count' = count + 1
            /\ mine' = mine \cup {count'} /\ made' = [made EXCEPT ![a] = count']
            /\ Publish(count')
    /\ UNCHANGED <<ver, troubles>>

-----------------------------------------------------------------------------
(* The event stream.                                                       *)

\* An event makes the page read the message; replies come in any order.
Hear(m) ==
    /\ m \in bus /\ bus' = bus \ {m}
    /\ replies' = replies \cup {[m |-> m, v |-> ver[m], by |-> 0]}
    /\ UNCHANGED <<server, cache, tries, connected, loads, troubles>>
\* The read fails, and is not tried again.
Miss(m) ==
    /\ m \in bus /\ Trouble /\ bus' = bus \ {m}
    /\ Misses({"missed"})
    /\ UNCHANGED <<server, pages, view, tries, connected, replies>>
\* The first optimistic copy with the same text makes way.
Copies == {pages[1].items[i].m : i \in DOMAIN pages[1].items} \cap {-a : a \in 1 .. MaxAttempts}
Matching(r) == IF r.m \in mine /\ sending # 0 /\ made[sending] = r.m THEN Copies \cap {-sending} ELSE {}
WriteHeard(r) ==
    /\ r \in replies /\ r.by = 0 /\ replies' = replies \ {r}
    /\ \E gone \in {Matching(r)} \cup {{c} : c \in IF r.m \in mine THEN Copies ELSE {}} :
           /\ pages' = Upsert(r, gone)
           /\ Note(Oddly(r, gone)) /\ load' = Marked(Oddly(r, gone))
    /\ opening' = Opened({"crossed"})
    /\ UNCHANGED <<server, view, tries, wire, troubles>>

Drop ==
    /\ connected /\ Trouble
    /\ connected' = FALSE /\ bus' = {}
    /\ Misses(IF bus = {} THEN {} ELSE {"missed"})
    /\ UNCHANGED <<server, pages, view, tries, replies>>
\* ready: nothing is read again.
Connect ==
    /\ ~connected /\ connected' = TRUE
    /\ UNCHANGED <<server, cache, tries, bus, replies, loads, troubles>>

-----------------------------------------------------------------------------
(* Sending.                                                                *)

\* The same text again keeps the key and the optimistic copy's name.
Send ==
    /\ sending = 0
    /\ \E a \in {attempt, attempt + 1} \ {0} :
           /\ a <= MaxAttempts /\ (a = attempt => failed)
           /\ sending' = a /\ attempt' = a /\ failed' = FALSE /\ asked' = asked \cup {a}
           /\ pages' = AtEnd(pages, [m |-> -a, v |-> 1])
    /\ Note(Crossed) /\ load' = Marked(Crossed)
    /\ UNCHANGED <<count, ver, mine, made, view, wire, replies, opening, troubles>>
\* The answer names the message, which is read.
Answer ==
    /\ sending # 0 /\ sending \notin asked /\ made[sending] # 0
    /\ \A r \in replies : r.by = 0
    /\ replies' = replies \cup {[m |-> made[sending], v |-> ver[made[sending]], by |-> sending]}
    /\ UNCHANGED <<server, cache, tries, wire, loads, troubles>>
\* The copy is replaced; then the thread is invalidated, and its pages with it.
Gone(r)   == {-r.by}
WriteSent(r) ==
    /\ r \in replies /\ r.by # 0 /\ replies' = replies \ {r}
    /\ pages' = Upsert(r, Gone(r)) /\ sending' = 0
    /\ Note(Oddly(r, Gone(r)) \ {"crossed"})
    /\ load' = [result |-> Reload[Len(pages)], again |-> TRUE, odd |-> {}]
    /\ UNCHANGED <<server, view, attempt, failed, wire, opening, troubles>>
\* The answer, or the message, did not come: the copy is taken away.
M_Dropped(S) == pages
Dropped(S)   == Without(pages, S)
Fail ==
    /\ sending # 0 /\ Trouble
    /\ sending' = 0 /\ failed' = TRUE /\ replies' = {r \in replies : r.by = 0}
    /\ pages' = Dropped({-sending})
    /\ Note(Crossed) /\ load' = Marked(Crossed)
    /\ UNCHANGED <<server, view, attempt, wire, opening>>

-----------------------------------------------------------------------------
(* Loads.  A new one cancels the one in flight.                            *)

\* Polling, or an invalidation: marking read, muting, changing participants.
BeginReload ==
    /\ load' = [result |-> Reload[Len(pages)], again |-> TRUE, odd |-> {}]
    /\ load' # load /\ UNCHANGED <<server, cache, tries, wire, replies, opening, troubles>>
BeginOlder ==
    /\ pages[Len(pages)].older # 0
    /\ load' = [result |-> Append(pages, Before(pages[Len(pages)].older)), again |-> FALSE, odd |-> {}]
    /\ load' # load /\ UNCHANGED <<server, cache, tries, wire, replies, opening, troubles>>
EndLoad ==
    /\ Busy /\ pages' = load.result /\ load' = None
    /\ odd' = IF load.again THEN load.odd ELSE odd \cup load.odd
    /\ view' = IF load.again THEN "latest" ELSE view
    /\ UNCHANGED <<server, tries, wire, replies, opening, troubles>>

\* openSearchResult reads the page around a message, and then shows it and no
\* other; if it cannot be read, nothing changes.
BeginAround(m) ==
    /\ \A o \in opening : o.m # m  \* a bound
    /\ opening' = opening \cup {[m |-> m, result |-> <<Around(m)>>, odd |-> {}]}
    /\ UNCHANGED <<server, cache, tries, wire, replies, load, troubles>>
OpenAround(o) ==
    /\ opening' = opening \ {o}
    /\ \/ UNCHANGED <<cache, load>>
       \/ /\ pages' = o.result /\ view' = "around"
          /\ odd' = o.odd /\ load' = Marked(Crossed)
    /\ UNCHANGED <<server, tries, wire, replies, troubles>>

Next ==
    \/ Post \/ Send \/ Answer \/ Fail \/ Drop \/ Connect
    \/ \E m \in 1 .. MaxMessages : Edit(m) \/ Hear(m) \/ Miss(m)
    \/ \E m \in Found : BeginAround(m)
    \/ \E o \in opening : OpenAround(o)
    \/ \E a \in 1 .. MaxAttempts : Commit(a)
    \/ \E r \in replies : WriteHeard(r) \/ WriteSent(r)
    \/ BeginReload \/ BeginOlder \/ EndLoad
Spec == Init /\ [][Next]_vars

-----------------------------------------------------------------------------
Quiet == sending = 0 /\ bus = {} /\ replies = {} /\ ~Busy

TypeOK ==
    /\ count \in Old .. MaxMessages /\ mine \subseteq 1 .. count /\ bus \subseteq 1 .. count
    /\ \A r \in replies : r.m \in 1 .. count /\ r.v \in 1 .. ver[r.m]
    /\ Len(pages) > 0 /\ \A p \in DOMAIN pages : pages[p].older \in 0 .. count
    /\ odd \subseteq {"stray", "late", "crossed", "missed"}

\* At rest, unless something odd happened since the last reload, the window
\* shows an unbroken piece of the thread in its order, every message once and
\* as it is now, no optimistic copy; it reaches the newest message unless a
\* search result is open, and offers older ones exactly when there are any.
WindowExact ==
    (Quiet /\ odd = {}) =>
        /\ \A p, q \in DOMAIN pages : \A i \in DOMAIN pages[p].items, j \in DOMAIN pages[q].items :
               p > q \/ (p = q /\ i < j) => pages[p].items[i].m < pages[q].items[j].m
        /\ \A e \in Entries(pages) : e.m > 0 /\ e.v = ver[e.m]
        /\ \A d, e \in Entries(pages) : \A m \in d.m .. e.m : Has(m)
        /\ view = "latest" /\ count > 0 => Has(count)
        /\ LET older == pages[Len(pages)].older IN
               IF older = 0 THEN count > 0 => Has(1) ELSE older > 1 /\ Has(older) /\ ~Has(older - 1)

\* An attempt makes one message, however often it is sent again.
OneMessagePerAttempt ==
    /\ \A a, b \in 1 .. MaxAttempts : made[a] # 0 /\ made[a] = made[b] => a = b
    /\ mine = {made[a] : a \in {b \in 1 .. MaxAttempts : made[b] # 0}}
=============================================================================
