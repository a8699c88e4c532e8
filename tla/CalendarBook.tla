----------------------------- MODULE CalendarBook -----------------------------
(***************************************************************************)
(* Events of calendar.service.ts, created from a form or from a message,   *)
(* with the idempotency key of the request, and edited by version.  One    *)
(* user and one operation: keys of others never meet.  A body stands for   *)
(* the fingerprint of a request; left out: times and zones.                *)
(***************************************************************************)
EXTENDS Integers

CONSTANTS
    Events, Keys, Bodies, None, Slots, Idle,
    MaxRequests  \* bound on started requests

VARIABLES
    version,  \* of every event, 0 before it exists
    body,     \* the request an event was made of
    record,   \* IdempotencyRecord per key: the event, or None
    outbox,   \* [event, version] of calendar.event.* events
    answers,  \* [key, event] of every create that was answered
    req, started

vars == <<version, body, record, outbox, answers, req, started>>

Init ==
    /\ version = [e \in Events |-> 0] /\ body = [e \in Events |-> None]
    /\ record = [k \in Keys |-> None]
    /\ outbox = {} /\ answers = {}
    /\ req = [s \in Slots |-> Idle] /\ started = 0

Free(s) == /\ started < MaxRequests /\ req[s] = Idle
           /\ s = CHOOSE o \in Slots : req[o] = Idle \* slots are alike
Start(s, r) == /\ started' = started + 1 /\ req' = [req EXCEPT ![s] = r]
               /\ UNCHANGED <<version, body, record, outbox>>
End(s) == req' = [req EXCEPT ![s] = Idle] /\ UNCHANGED started
At(s, op) == req[s] # Idle /\ req[s].op = op

\* A key with a record answers with its event, or is refused for another body.
M_SameBody(k, b) == TRUE
SameBody(k, b)   == body[record[k]] = b
BeginCreate(s) == \E k \in Keys, b \in Bodies :
    IF record[k] = None
    THEN Start(s, [op |-> "create", k |-> k, x |-> b]) /\ UNCHANGED answers
    ELSE /\ SameBody(k, b)
         /\ answers' = answers \cup {[key |-> k, event |-> record[k], body |-> b]}
         /\ started' = started + 1
         /\ UNCHANGED <<version, body, record, outbox, req>>

\* The record is unique per key: the transaction of a second create fails.
M_KeyFree(k) == TRUE
KeyFree(k)   == record[k] = None
CommitCreate(s) == \E e \in Events :
    /\ At(s, "create") /\ KeyFree(req[s].k) /\ version[e] = 0
    /\ version' = [version EXCEPT ![e] = 1]
    /\ body' = [body EXCEPT ![e] = req[s].x]
    /\ record' = [record EXCEPT ![req[s].k] = e]
    /\ outbox' = outbox \cup {[event |-> e, version |-> 1]}
    /\ answers' = answers \cup {[key |-> req[s].k, event |-> e, body |-> req[s].x]}
    /\ End(s)
RefuseCreate(s) ==
    /\ At(s, "create") /\ ~KeyFree(req[s].k)
    /\ End(s) /\ UNCHANGED <<version, body, record, outbox, answers>>

\* update demands the version of the client in the statement that writes.
BeginUpdate(s) == \E e \in Events :
    /\ version[e] > 0
    /\ Start(s, [op |-> "update", k |-> version[e], x |-> e]) /\ UNCHANGED answers
M_Fresh(e, v) == TRUE
Fresh(e, v)   == version[e] = v
CommitUpdate(s) == LET e == req[s].x IN
    /\ At(s, "update") /\ Fresh(e, req[s].k)
    /\ version' = [version EXCEPT ![e] = @ + 1]
    /\ outbox' = outbox \cup {[event |-> e, version |-> req[s].k + 1]}
    /\ End(s) /\ UNCHANGED <<body, record, answers>>
RefuseUpdate(s) ==
    /\ At(s, "update") /\ ~Fresh(req[s].x, req[s].k)
    /\ End(s) /\ UNCHANGED <<version, body, record, outbox, answers>>

Next ==
    \/ \E s \in Slots : Free(s) /\ (BeginCreate(s) \/ BeginUpdate(s))
    \/ \E s \in Slots : CommitCreate(s) \/ RefuseCreate(s) \/ CommitUpdate(s) \/ RefuseUpdate(s)
Spec == Init /\ [][Next]_vars

-----------------------------------------------------------------------------
TypeOK ==
    /\ version \in [Events -> Nat] /\ body \in [Events -> Bodies \cup {None}]
    /\ record \in [Keys -> Events \cup {None}]
    /\ outbox \subseteq [event : Events, version : Nat]

\* A key makes one event however often and together with what it is retried,
\* every event is the one of its body, and each version has been announced.
OneEventPerKey ==
    /\ \A a, b \in answers : a.key = b.key => a.event = b.event /\ a.body = b.body
    /\ {e \in Events : version[e] > 0} = {record[k] : k \in Keys} \ {None}
    /\ \A e \in Events : {o.version : o \in {p \in outbox : p.event = e}} = 1 .. version[e]
=============================================================================
