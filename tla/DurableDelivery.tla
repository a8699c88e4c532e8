--------------------------- MODULE DurableDelivery ---------------------------
(***************************************************************************)
(* What the outbox and the job queue together promise about one committed  *)
(* piece of deferred work: it stays pending until it is settled once, and  *)
(* a settled item changes again only when an operator revives a dead one.  *)
(* Nothing here knows of workers, leases, retries or restarts.             *)
(***************************************************************************)
CONSTANT Items            \* the committed events and the directly queued jobs

VARIABLE status           \* status[i]: where item i stands

Settled == {"done", "dead", "cancelled"}

TypeOK == status \in [Items -> {"none", "pending"} \cup Settled]

Init == status = [i \in Items |-> "none"]

Move(i, from, to) == /\ status[i] = from
                     /\ status' = [status EXCEPT ![i] = to]

Submit(i) == Move(i, "none", "pending")
Settle(i) == \E to \in Settled : Move(i, "pending", to)
Revive(i) == Move(i, "dead", "pending")

\* One lease sweep or one cancellation may move several items at once only
\* by leaving them pending, so one item moves per step.
Next == \E i \in Items : Submit(i) \/ Settle(i) \/ Revive(i)

Spec == Init /\ [][Next]_status
=============================================================================
