------------------------------ MODULE TaskDraft ------------------------------
(***************************************************************************)
(* The form that creates a task (TaskCreateModal.tsx): its draft kept in   *)
(* the browser (draft.ts), the question before it closes                   *)
(* (useModalCloseGuard and requestClose in Overlay.tsx) and its request,   *)
(* repeated under the same key, to TaskCommandService.create.  Edits,      *)
(* timers, navigation, answers that are late or lost and reloads of the    *)
(* page come in any order.                                                 *)
(*                                                                         *)
(* What is typed is a number, 0 for an untouched form, with or without an  *)
(* attached file; TaskFields has the fields.  One window, one draft key.   *)
(***************************************************************************)
EXTENDS Naturals, Sequences, FiniteSets

CONSTANTS Texts, MaxForms, MaxSends, MaxFaults

VARIABLES
    form,    \* the form last opened: its number, value, timers, question and request
    stored,  \* the draft in localStorage, or Untouched when there is none
    sent,    \* [form number -> the values it has submitted]
    wire,    \* requests not answered yet; live while the form's page waits for them
    made,    \* tasks, with the key and the attempt of the request that made them
    faults,  \* failures to store and lost answers, reloads
    strayed  \* a form was left while its request was under way

vars == <<form, stored, sent, wire, made, faults, strayed>>

Untouched == [text |-> 0, file |-> FALSE]
Dirty(f)  == f.value # Untouched
Form(n, v) == [n |-> n, at |-> "open", value |-> v, key |-> 0, last |-> Untouched,
               timer |-> v # Untouched, failed |-> FALSE, upload |-> FALSE, closing |-> FALSE,
               ask |-> FALSE, pending |-> FALSE, how |-> "open", hot |-> FALSE]

Closed(f) == [Form(f.n, Untouched) EXCEPT !.at = "closed", !.how = f.how, !.hot = f.hot]

Init ==
    /\ form = Closed(Form(0, Untouched)) /\ stored = Untouched
    /\ sent = [n \in 1 .. MaxForms |-> <<>>] /\ wire = {} /\ made = {} /\ faults = 0 /\ strayed = FALSE

Open      == form.at = "open"
OnTop     == Open /\ ~form.ask \* under the question the form is inert
Fault     == faults < MaxFaults /\ faults' = faults + 1
request   == <<sent, wire, made>>

\* A draft is dropped after seven days, its attachment after one.
Start ==
    /\ form.at = "closed" /\ form.n < MaxForms
    /\ \/ \E v \in {stored, [stored EXCEPT !.file = FALSE]} :
             form' = Form(form.n + 1, v) /\ UNCHANGED stored
       \/ form' = Form(form.n + 1, Untouched) /\ stored' = Untouched
    /\ UNCHANGED <<request, faults, strayed>>

-----------------------------------------------------------------------------
(* Editing and saving.  M_ definitions are deliberate mistakes.            *)

\* The timer restarts with every change, unless the form is as it was opened
\* new or its task is there.
M_Put(f, v) == [f EXCEPT !.value = v]
Put(f, v)   == LET again == v # Untouched /\ f.how # "created" IN
    [f EXCEPT !.value = v, !.timer = again, !.failed = @ /\ ~again]
Edit(t) ==
    /\ OnTop /\ form.value.text # t
    /\ form' = Put(form, [form.value EXCEPT !.text = t])
    /\ UNCHANGED <<stored, request, faults, strayed>>
Detach ==
    /\ OnTop /\ form.value.file
    /\ form' = Put(form, [form.value EXCEPT !.file = FALSE])
    /\ UNCHANGED <<stored, request, faults, strayed>>
BeginAttach ==
    /\ OnTop /\ ~form.upload /\ ~form.value.file
    /\ form' = [form EXCEPT !.upload = TRUE] /\ UNCHANGED <<stored, request, faults, strayed>>
\* The upload ends while the form is under a question or being left.
Attach ==
    /\ form.at # "closed" /\ form.upload
    /\ form' = [Put(form, [form.value EXCEPT !.file = TRUE]) EXCEPT
                    !.upload = FALSE, !.hot = @ \/ form.at = "leaving"]
    /\ UNCHANGED <<stored, request, faults, strayed>>

Save(f) ==
    \/ stored' = f.value /\ form' = [f EXCEPT !.timer = FALSE, !.failed = FALSE] /\ UNCHANGED faults
    \/ Fault /\ form' = [f EXCEPT !.timer = FALSE, !.failed = TRUE] /\ UNCHANGED stored
Autosave == form.at # "closed" /\ form.timer /\ Save(form) /\ UNCHANGED <<request, strayed>>
SaveAgain == OnTop /\ form.failed /\ Save(form) /\ UNCHANGED <<request, strayed>>

-----------------------------------------------------------------------------
(* Closing.  The router takes the form away a little after it was left.    *)

Leave(f, how) == [f EXCEPT !.at = "leaving", !.ask = FALSE, !.closing = FALSE, !.how = how]
M_Guarded(f) == Leave(f, "left")
Guarded(f)   == IF Dirty(f) THEN [f EXCEPT !.ask = TRUE] ELSE Leave(f, "left")
Left         == strayed' = (strayed \/ (form'.at = "leaving" /\ form.pending))

\* Escape, the backdrop and the cross wait for an animation of 130 ms.
RequestClose ==
    /\ OnTop /\ ~form.pending /\ ~form.closing
    /\ form' = [form EXCEPT !.closing = TRUE] /\ UNCHANGED <<stored, request, faults, strayed>>
Close ==
    /\ Open /\ form.closing
    /\ form' = Guarded([form EXCEPT !.closing = FALSE]) /\ Left /\ UNCHANGED <<stored, request, faults>>
Cancel ==
    /\ OnTop /\ ~form.pending
    /\ form' = Guarded(form) /\ Left /\ UNCHANGED <<stored, request, faults>>
Back == Open /\ form' = Guarded(form) /\ Left /\ UNCHANGED <<stored, request, faults>>

Asked == Open /\ form.ask
Continue == Asked /\ form' = [form EXCEPT !.ask = FALSE] /\ UNCHANGED <<stored, request, faults, strayed>>
SaveAndLeave == \* a failure to store keeps the question open
    /\ Asked /\ stored' = form.value /\ form' = Leave(form, "saved") /\ Left
    /\ UNCHANGED <<request, faults>>
DeleteAndLeave ==
    /\ Asked /\ stored' = Untouched
    /\ form' = [Leave(form, "deleted") EXCEPT !.hot = form.timer] /\ Left /\ UNCHANGED <<request, faults>>
Unmount ==
    /\ form.at = "leaving" /\ form' = Closed(form)
    /\ UNCHANGED <<stored, request, faults, strayed>>

\* The page is loaded again: nothing waits for its requests any more.
Dead(r) == [r EXCEPT !.live = FALSE]
Reload ==
    /\ form.at # "closed" /\ Fault
    /\ form' = Closed([form EXCEPT !.how = "reloaded"])
    /\ wire' = {Dead(r) : r \in {q \in wire : q.done = "no"}} /\ UNCHANGED <<stored, sent, made, strayed>>

-----------------------------------------------------------------------------
(* Submitting.                                                             *)

Sends(n) == Len(sent[n])
AllSent  == {q \in (1 .. MaxForms) \X (1 .. MaxSends) : q[2] <= Sends(q[1])}
M_Key(f) == f.key + 1
Key(f)   == IF f.last \notin {Untouched, f.value} THEN f.key + 1 ELSE f.key
Submit ==
    /\ OnTop /\ ~form.pending /\ form.value.text # 0 \* validateTaskCreateDraft
    /\ Cardinality(AllSent) < MaxSends
    /\ form' = [form EXCEPT !.key = Key(form), !.last = form.value, !.pending = TRUE]
    /\ sent' = [sent EXCEPT ![form.n] = Append(@, form.value)]
    /\ wire' = wire \cup {[n |-> form.n, key |-> Key(form), value |-> form.value, i |-> Sends(form.n) + 1,
                           done |-> "no", live |-> TRUE]}
    /\ UNCHANGED <<stored, made, faults, strayed>>

Before(r)  == {m \in made : m.n = r.n /\ m.key = r.key}
Settle(r, done) == wire' = (wire \ {r}) \cup (IF r.live THEN {[r EXCEPT !.done = done]} ELSE {})
M_Create(r) == made' = made \cup {[n |-> r.n, key |-> r.key, value |-> r.value, i |-> r.i]} /\ Settle(r, "made")
Create(r) ==
    \/ /\ Before(r) = {}
       /\ made' = made \cup {[n |-> r.n, key |-> r.key, value |-> r.value, i |-> r.i]} /\ Settle(r, "made")
    \/ /\ \E m \in Before(r) : m.value = r.value \* the same answer again
       /\ UNCHANGED made /\ Settle(r, "made")
    \/ UNCHANGED made /\ Settle(r, "refused")
Serve(r) == r.done = "no" /\ Create(r) /\ UNCHANGED <<form, stored, sent, faults, strayed>>

\* The draft is cleared and the page shows the task, wherever it was by then.
M_Spent(v) == v
Spent(v)   == Untouched
Succeed(r) ==
    /\ r.live /\ r.done = "made" /\ wire' = wire \ {r} /\ stored' = Spent(stored)
    /\ form' = IF form.at = "closed" THEN form
               ELSE IF form.n = r.n
                    THEN [Leave(form, "created") EXCEPT !.pending = FALSE, !.hot = @ \/ form.timer]
               ELSE IF Open THEN Guarded(form) ELSE form
    /\ UNCHANGED <<sent, made, faults>> /\ IF form.n = r.n THEN UNCHANGED strayed ELSE Left
Unpend(r) == form' = IF form.n = r.n THEN [form EXCEPT !.pending = FALSE] ELSE form
Fail(r) ==
    /\ r.live /\ r.done = "refused" /\ wire' = wire \ {r} /\ Unpend(r)
    /\ UNCHANGED <<stored, sent, made, faults, strayed>>
Lose(r) ==
    /\ r.live /\ Fault /\ Unpend(r)
    /\ wire' = (wire \ {r}) \cup (IF r.done = "no" THEN {Dead(r)} ELSE {})
    /\ UNCHANGED <<stored, sent, made, strayed>>

Next ==
    \/ Start \/ Detach \/ BeginAttach \/ Attach \/ Autosave \/ SaveAgain
    \/ \E t \in Texts \cup {0} : Edit(t)
    \/ RequestClose \/ Close \/ Cancel \/ Back \/ Continue \/ SaveAndLeave \/ DeleteAndLeave
    \/ Unmount \/ Reload \/ Submit
    \/ \E r \in wire : Serve(r) \/ Succeed(r) \/ Fail(r) \/ Lose(r)
Spec == Init /\ [][Next]_vars

-----------------------------------------------------------------------------
TypeOK ==
    /\ {stored, form.value} \subseteq [text : Texts \cup {0}, file : BOOLEAN]
    /\ form.at \in {"open", "leaving", "closed"} /\ form.n \in 0 .. MaxForms

\* Pressing the button again makes a second task only of a form that was changed
\* in between, whatever became of the answers; and no key is used for two forms.
OneTaskPerChange ==
    /\ \A a, b \in made : (a.n = b.n /\ a.value = b.value /\ a.i < b.i) =>
          \E k \in a.i .. b.i : sent[a.n][k] # a.value
    /\ \A r \in wire : \A m \in Before(r) : m.value = r.value

\* "Saved" is true of a changed form; leaving it with "save" keeps what it shows.
\* (A form changed back to untouched leaves the last draft in place.)
KeptOnDevice ==
    ~strayed =>
        /\ (Open /\ Dirty(form) /\ ~form.failed /\ ~form.timer) => stored = form.value
        /\ (form.at = "leaving" /\ form.how = "saved" /\ ~form.upload /\ ~form.hot) => stored = form.value

\* A draft that became a task, or was deleted, does not come back, unless a change
\* was still to be saved when the form was left.
SpentDraftGone ==
    (form.at = "closed" /\ form.how \in {"created", "deleted"} /\ ~form.hot /\ ~strayed) => stored = Untouched

\* Changes are only left behind after an answer to the question or a created task.
NeverLeftUnasked ==
    (Open /\ form'.at = "leaving" /\ Dirty(form)) => form.ask \/ form'.how = "created"
=============================================================================
