----------------------------- MODULE TaskDrawer -----------------------------
(***************************************************************************)
(* The drawer that shows a task (TaskDrawer in TasksPage.tsx): what it has *)
(* read, what is typed into its forms, the versioned writes it sends, and  *)
(* the question before it closes, while others change the task, lists load *)
(* late and answers are lost.                                              *)
(*                                                                         *)
(* Forms of three kinds: Boxes are emptied by a success (comment, new      *)
(* step), Kept forms stay as they are (reminder, recurrence) and Closing   *)
(* ones go away (edit, subtask).  What is typed is a number, a new one for *)
(* each change; only the edit form has fields: Typed inputs, of which the  *)
(* Timed ones hold minutes (deadline), Fixed selects (priority) and Listed *)
(* ones (responsible, creator), whose options are the active employees:    *)
(* who is an administrator or has left is none.  Left out: personal marks, *)
(* files, replies, the history, the form for participants, which can be    *)
(* closed; a drawer whose user may not reassign.                           *)
(***************************************************************************)
EXTENDS Naturals, FiniteSets

CONSTANTS Boxes, Kept, Closing,     \* names of forms; "edit" is a closing one
          Typed, Fixed, Listed,     \* names of fields
          Timed,                    \* the typed ones that hold no seconds
          Values, Start, Minutes,   \* Start is what the fields are at first, Minutes are values without seconds
          MaxChanges, MaxSends, MaxTroubles

VARIABLES
    task,    \* the server's: version, fields, number of comments, more than one responsible
    shown,   \* query.data: the same, as last read
    fetch,   \* the re-read under way
    people,  \* the employees that were loaded
    work,    \* [form -> what is typed in it, sent from it and known to be accepted]
    edit,    \* the edit form: its fields, those touched, those that took the first option; re-read
    dirty,   \* dirtyForms
    drawer,  \* open, asking before it closes, or left
    wire,    \* requests, and what the server has made of them
    log      \* what the server accepted; counts of changes, sends, others' changes, faults, other lists

vars == <<task, shown, fetch, people, work, edit, dirty, drawer, wire, log>>

Forms  == Boxes \cup Kept \cup Closing
Fields == Typed \cup Fixed \cup Listed
Empty  == 0

\* Every form is of one kind, and a ticked step is none; "edit" goes away.
Wellformed ==
    /\ Boxes \cap (Kept \cup Closing) = {} /\ Kept \cap Closing = {}
    /\ "tick" \notin Forms /\ "edit" \notin Boxes \cup Kept
    /\ Timed \subseteq Typed /\ Typed \cap (Fixed \cup Listed) = {}
    /\ Start \in Values /\ Minutes \subseteq Values /\ Minutes # {} /\ Empty \notin Values
    /\ {MaxChanges, MaxSends, MaxTroubles} \subseteq Nat

Quiet  == [at |-> "none", task |-> Empty]
Asked  == [at |-> "asked", task |-> Empty]
Blank  == [open |-> FALSE, text |-> 0, last |-> 0, ok |-> 0, pending |-> FALSE, late |-> FALSE]
NoEdit == [val |-> [f \in Fields |-> Empty], touched |-> {}, stale |-> FALSE, guess |-> {}]

Init ==
    /\ task = [v |-> 1, val |-> [f \in Fields |-> Start], comments |-> 0, more |-> TRUE]
    /\ shown = task /\ fetch = Quiet /\ people = {}
    /\ work = [i \in Forms |-> [Blank EXCEPT !.open = i \notin Closing]]
    /\ edit = NoEdit /\ dirty = {} /\ drawer = "open" /\ wire = {}
    /\ log = [made |-> {}, changes |-> 0, sends |-> 0, others |-> 0, lost |-> 0, lists |-> 0]

typing == <<work, edit, dirty>>
Editing == "edit" \in Closing /\ work["edit"].open
Alive  == drawer # "left"
OnTop  == drawer = "open"
Trouble == log.others + log.lost + log.lists < MaxTroubles

-----------------------------------------------------------------------------
(* Reading.  M_ definitions are deliberate mistakes.                       *)

BeginFetch ==
    /\ Alive /\ fetch.at = "none" /\ fetch' = Asked
    /\ UNCHANGED <<task, shown, people, typing, drawer, wire, log>>
Read ==
    /\ fetch.at = "asked" /\ fetch' = [at |-> "read", task |-> task]
    /\ UNCHANGED <<task, shown, people, typing, drawer, wire, log>>

\* What a control makes of a value: a select shows its first option for one it does
\* not have, and the input for the deadline cuts the seconds off.
Nearest(S, x) == IF x \in S THEN x ELSE CHOOSE y \in S : TRUE
Cut(f, x)     == IF f \in Timed THEN Nearest(Minutes, x) ELSE x

\* defaultValue moves an untouched input along with what is shown, never a select.
Synced(val) == [f \in Fields |-> IF f \in Typed \ edit.touched THEN Cut(f, val[f]) ELSE edit.val[f]]
Arrive ==
    /\ Alive /\ fetch.at = "read" /\ fetch' = Quiet /\ shown' = fetch.task
    /\ edit' = IF Editing
               THEN [edit EXCEPT !.val = Synced(fetch.task.val), !.stale = @ \/ fetch.task.v # shown.v]
               ELSE edit
    /\ UNCHANGED <<task, people, work, dirty, drawer, wire, log>>

\* The list is asked for by an open form, and again when it is old; a select
\* whose choice is not on it takes the first option there is.
Gone(list)  == {f \in Listed : edit.val[f] \notin list}
Picks(list) == [f \in Fields |-> IF f \in Listed THEN Nearest(list, edit.val[f]) ELSE edit.val[f]]
Load == \E list \in SUBSET Values :
    /\ list \notin {{}, people}
    /\ Alive /\ \E i \in Closing : work[i].open
    /\ people = {} \/ Trouble
    /\ people' = list /\ log' = [log EXCEPT !.lists = IF people = {} THEN @ ELSE @ + 1]
    /\ edit' = IF Editing
               THEN [edit EXCEPT !.val = Picks(list), !.guess = @ \cup Gone(list)] ELSE edit
    /\ UNCHANGED <<task, shown, fetch, work, dirty, drawer, wire>>

-----------------------------------------------------------------------------
(* Typing.                                                                 *)

Offered(f, x) == IF f \notin Listed THEN Cut(f, x) ELSE IF people = {} THEN Empty ELSE Nearest(people, x)
Open(i) ==
    /\ OnTop /\ i \in Closing /\ ~work[i].open /\ work' = [work EXCEPT ![i].open = TRUE]
    /\ edit' = IF i # "edit" THEN edit
               ELSE [NoEdit EXCEPT !.val = [f \in Fields |-> Offered(f, shown.val[f])],
                                   !.guess = {f \in Listed : shown.val[f] \notin people}]
    /\ UNCHANGED <<task, shown, fetch, people, dirty, drawer, wire, log>>
Closed(i) == [work EXCEPT ![i] = [@ EXCEPT !.open = FALSE, !.text = 0, !.late = FALSE]]
Shut(i) == \* the button of the form: what is in it is given up
    /\ OnTop /\ i \in Closing /\ work[i].open /\ work' = Closed(i) /\ dirty' = dirty \ {i}
    /\ edit' = IF i = "edit" THEN NoEdit ELSE edit
    /\ UNCHANGED <<task, shown, fetch, people, drawer, wire, log>>

Typing(i) ==
    LET n == work[i].last + 1 IN
    [work EXCEPT ![i] = [@ EXCEPT !.text = n, !.last = n, !.late = work[i].pending]]
M_Marked(i) == dirty
Marked(i)   == IF i \in Boxes THEN dirty ELSE dirty \cup {i}
Type(i) ==
    /\ OnTop /\ work[i].open /\ log.changes < MaxChanges /\ log' = [log EXCEPT !.changes = @ + 1]
    /\ work' = Typing(i) /\ dirty' = Marked(i)
    /\ IF i # "edit" THEN edit' = edit
       ELSE \E f \in Fields, x \in Values :
                /\ f \in Listed => x \in people
                /\ x # edit.val[f] /\ x = Cut(f, x)
                /\ edit' = [edit EXCEPT !.val[f] = x, !.touched = @ \cup {f}]
    /\ UNCHANGED <<task, shown, fetch, people, drawer, wire>>

-----------------------------------------------------------------------------
(* Writing.  Every write but a comment carries the version that is shown.  *)

M_MaySend(i) == work[i].open
MaySend(i) ==
    /\ work[i].open /\ ~work[i].pending
    /\ i \in Boxes \cup Kept => work[i].text # 0
    /\ i = "edit" => people # {} /\ Empty \notin {edit.val[f] : f \in Fields}
Request(i, n, e) == [i |-> i, n |-> n, v |-> shown.v, k |-> log.sends + 1, done |-> "no", edit |-> e]
Send(i) ==
    /\ OnTop /\ MaySend(i) /\ log.sends < MaxSends /\ log' = [log EXCEPT !.sends = @ + 1]
    /\ wire' = wire \cup {Request(i, work[i].text, IF i = "edit" THEN edit ELSE NoEdit)}
    /\ work' = [work EXCEPT ![i].pending = TRUE]
    /\ UNCHANGED <<task, shown, fetch, people, edit, dirty, drawer>>
\* A step of the checklist is ticked: nothing waits for the answer.
Tick ==
    /\ OnTop /\ log.sends < MaxSends /\ log' = [log EXCEPT !.sends = @ + 1]
    /\ wire' = wire \cup {Request("tick", 0, NoEdit)}
    /\ UNCHANGED <<task, shown, fetch, people, typing, drawer>>

Moved(r, done) == wire' = (wire \ {r}) \cup {[r EXCEPT !.done = done]}
\* An edit leaves one responsible, whoever else there was.
Written(r) == [task EXCEPT !.v = IF r.i = "comment" THEN @ ELSE @ + 1,
                           !.comments = IF r.i = "comment" THEN @ + 1 ELSE @,
                           !.more = IF r.i = "edit" THEN FALSE ELSE @,
                           !.val = IF r.i = "edit" THEN r.edit.val ELSE @]
M_Current(r) == TRUE
Current(r)   == r.i = "comment" \/ r.v = task.v
Accept(r) ==
    /\ r.done = "no" /\ Current(r) /\ task' = Written(r) /\ Moved(r, "made")
    /\ log' = [log EXCEPT !.made = @ \cup {[i |-> r.i, n |-> r.n, k |-> r.k]}]
    /\ UNCHANGED <<shown, fetch, people, typing, drawer>>
Refuse(r) ==
    /\ r.done = "no" /\ Moved(r, "refused")
    /\ UNCHANGED <<task, shown, fetch, people, typing, drawer, log>>

\* An answer: a success re-reads the task, in place of any re-read under way.
M_Again  == IF fetch.at = "none" THEN Asked ELSE fetch
Again    == Asked
After(i, n) == LET w == [work[i] EXCEPT !.pending = FALSE, !.ok = n] IN
    CASE i \in Boxes   -> [work EXCEPT ![i] = [w EXCEPT !.text = 0, !.late = FALSE]]
      [] i \in Kept    -> [work EXCEPT ![i] = w]
      [] i \in Closing -> [work EXCEPT ![i] = [w EXCEPT !.open = FALSE, !.text = 0, !.late = FALSE]]
Succeed(r) ==
    /\ Alive /\ r.done = "made" /\ wire' = wire \ {r} /\ fetch' = Again
    /\ IF r.i \in Forms
       THEN work' = After(r.i, r.n) /\ dirty' = dirty \ {r.i} /\ edit' = IF r.i = "edit" THEN NoEdit ELSE edit
       ELSE UNCHANGED typing
    /\ UNCHANGED <<task, shown, people, drawer, log>>
Unpend(r) == IF r.i \in Forms THEN [work EXCEPT ![r.i].pending = FALSE] ELSE work
Fail(r) ==
    /\ Alive /\ r.done = "refused" /\ wire' = wire \ {r} /\ work' = Unpend(r)
    /\ UNCHANGED <<task, shown, fetch, people, edit, dirty, drawer, log>>
Lose(r) ==
    /\ Alive /\ Trouble /\ log' = [log EXCEPT !.lost = @ + 1]
    /\ wire' = wire \ {r} /\ work' = Unpend(r)
    /\ UNCHANGED <<task, shown, fetch, people, edit, dirty, drawer>>

Others ==
    /\ Alive /\ Trouble /\ log' = [log EXCEPT !.others = @ + 1]
    /\ \E f \in Fields : \E x \in Values \ {task.val[f]} : task' = [task EXCEPT !.v = @ + 1, !.val[f] = x]
    /\ UNCHANGED <<shown, fetch, people, typing, drawer, wire>>

-----------------------------------------------------------------------------
(* Closing.                                                                *)

M_Dirty == dirty # {}
Dirty   == dirty # {} \/ \E i \in Boxes : work[i].text # 0
Close ==
    /\ OnTop /\ drawer' = IF Dirty THEN "asking" ELSE "left"
    /\ UNCHANGED <<task, shown, fetch, people, typing, wire, log>>
Answer ==
    /\ drawer = "asking" /\ drawer' \in {"open", "left"}
    /\ UNCHANGED <<task, shown, fetch, people, typing, wire, log>>

\* The drawer when its user uses the forms in F.
NextOn(F) ==
    \/ BeginFetch \/ Read \/ Arrive \/ Load \/ Tick \/ Others \/ Close \/ Answer
    \/ \E i \in F : Open(i) \/ Shut(i) \/ Type(i) \/ Send(i)
    \/ \E r \in wire : Accept(r) \/ Refuse(r) \/ Succeed(r) \/ Fail(r) \/ Lose(r)
Next == NextOn(Forms)
Spec == Init /\ [][Next]_vars

-----------------------------------------------------------------------------
TypeOK ==
    /\ {task.val, shown.val} \subseteq [Fields -> Values] /\ shown.v <= task.v
    /\ dirty \subseteq Kept \cup Closing /\ drawer \in {"open", "asking", "left"}
    /\ people \subseteq Values
    /\ \A i \in Forms : work[i].text \in 0 .. MaxChanges /\ work[i].ok <= work[i].last

\* Once every answer and re-read is in, the drawer shows what its writes have made,
\* unless an answer was lost or somebody else has changed the task.
ShownCurrent ==
    (Alive /\ wire = {} /\ fetch.at = "none" /\ log.lost = 0 /\ log.others = 0) => shown = task

\* The same text is written twice only after a lost answer, or when a form that
\* stays was sent again on purpose.
TwiceOnlyAfterLoss ==
    \A a, b \in log.made : (a.i = b.i /\ a.i \in Boxes \cup Closing /\ a.n = b.n /\ a.n # 0 /\ a # b) => log.lost > 0

\* No step takes the drawer back to an older reading.  Nothing typed is left behind
\* unasked, unless it was typed while its form was being sent.
LeavesNothing ==
    /\ shown'.v >= shown.v
    /\ (drawer = "open" /\ drawer' = "left") =>
           \A i \in Forms : work[i].text \in {0, work[i].ok} \/ work[i].late

\* An accepted edit leaves alone the fields its user did not touch, with three gaps.  The
\* task was re-read with changes since the form was opened: its selects have the old
\* values.  A person was not on the list, or the list came after the form: the first on it
\* is taken.  The deadline had seconds: they are gone.
UntouchedKept ==
    \A r \in wire : (r.i = "edit" /\ \E m \in log'.made \ log.made : m.k = r.k) =>
        \A f \in Fields \ r.edit.touched :
            \/ task'.val[f] = task.val[f]
            \/ r.edit.stale /\ f \in Fixed \cup Listed
            \/ f \in r.edit.guess
            \/ f \in Timed /\ task.val[f] \notin Minutes
=============================================================================
