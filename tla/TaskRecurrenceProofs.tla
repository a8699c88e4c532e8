------------------------ MODULE TaskRecurrenceProofs ------------------------
(***************************************************************************)
(* Proofs about TaskRecurrence, for any rules, dates, requests, faults and *)
(* crashes.                                                                *)
(*                                                                         *)
(* One job is running at most, the one in hand (RunningInHand): a date is  *)
(* created by its own job and counted once, whatever overlaps.  The rest   *)
(* is about behaviours without overlap: what the handler or the request in *)
(* flight has read still stands (Awaited), and all jobs to come are of the *)
(* next date, have their task, or were put back by an operator (Chained).  *)
(***************************************************************************)
EXTENDS TaskRecurrence, FiniteSetTheorems, TLAPS

Requested(r) ==
    /\ r.op \in {"update", "cancel"} /\ r.seen \in Nat
    /\ r.op = "update" => r.rule \in Rules /\ r.next \in {0, r.rule.start}

RequestsSound == DOMAIN req = Slots /\ \A s \in Slots : req[s] # Idle => Requested(req[s])

HandSound ==
    hand # Idle => /\ hand \in Hands
                   /\ hand.stage = "create" => hand.seen \in SeriesRows /\ hand.day \notin created

RunningInHand == \A d \in Days : jobState[d] = "RUNNING" <=> hand # Idle /\ hand.day = d

Counted == IsFiniteSet(created) /\ MadeCountsTasks

\* Without overlap one thing is in flight.
OneInFlight ==
    serial => /\ hand # Idle => \A s \in Slots : req[s] = Idle
              /\ \A s, o \in Slots : req[s] # Idle /\ req[o] # Idle => s = o

Expected(r) ==
    r.op = "update" => r.next = IF series.made < r.rule.max THEN r.rule.start ELSE 0
Awaited ==
    serial => /\ hand # Idle /\ hand.stage = "create" => hand.seen = series /\ Wanted(hand.day)
              /\ \A s \in Slots : req[s] # Idle => Expected(req[s])

Chained ==
    serial /\ series.active =>
        /\ series.made < series.max
        /\ \A d \in Days : jobState[d] \in {"QUEUED", "RUNNING"}
                              => d = series.next \/ d \in created \cup revived

TypeInv == TypeOK /\ RequestsSound /\ HandSound /\ RunningInHand /\ Counted
IInv    == TypeInv /\ OneInFlight /\ Awaited /\ Chained

-----------------------------------------------------------------------------
LEMMA InitIInv == Init => IInv
  <1> SUFFICES ASSUME Init PROVE IInv
    OBVIOUS
  <1>1. PICK rule \in Rules :
           /\ series = NewSeries(rule)
           /\ jobState = [d \in Days |-> IF d = rule.start THEN "QUEUED" ELSE "ABSENT"]
    BY DEF Init
  <1>2. rule.start \in Days /\ rule.every \in Steps /\ rule.max \in Maxima /\ rule.ends \in Days
    BY DEF Rules
  <1>3. TypeOK
    BY <1>1, <1>2 DEF Init, TypeOK, NewSeries, SeriesRows
  <1>4. RequestsSound /\ HandSound /\ RunningInHand
    BY <1>1 DEF Init, RequestsSound, HandSound, RunningInHand
  <1>5. Counted
    BY <1>1, FS_EmptySet DEF Init, Counted, MadeCountsTasks, NewSeries
  <1>6. OneInFlight /\ Awaited
    BY DEF Init, OneInFlight, Awaited
  <1>7. Chained
    <2>1. rule.max \in Nat \ {0, 1}
      BY <1>2, ConstantsAssumption
    <2> QED
      BY <1>1, <1>2, <2>1 DEF Chained, NewSeries
  <1> QED
    BY <1>3, <1>4, <1>5, <1>6, <1>7 DEF IInv, TypeInv

\* A request starts when nothing is in flight, or where overlap is allowed.
LEMMA StartKeeps ==
    ASSUME IInv, NEW s \in Slots, NEW r, Free(s), Start(s, r), UNCHANGED <<revived, serial>>,
           Requested(r), Expected(r)
    PROVE  IInv'
  <1> USE DEF IInv, TypeInv
  <1>1. /\ UNCHANGED <<series, created, taskVersion, closed, jobState, attempts, hand, now>>
        /\ DOMAIN req' = Slots /\ req'[s] = r /\ \A o \in Slots \ {s} : req'[o] = req[o]
    BY DEF Start, jobs, RequestsSound
  <1>2. TypeOK' /\ HandSound' /\ RunningInHand' /\ Counted'
    BY <1>1 DEF TypeOK, HandSound, RunningInHand, Counted, MadeCountsTasks
  <1>3. RequestsSound'
    BY <1>1 DEF RequestsSound
  <1>4. OneInFlight'
    BY <1>1 DEF OneInFlight, Free, Alone
  <1>5. Awaited'
    BY <1>1 DEF Awaited, Free, Alone, Wanted, Expected
  <1>6. Chained'
    BY <1>1 DEF Chained
  <1> QED
    BY <1>2, <1>3, <1>4, <1>5, <1>6

LEMMA RequestKeeps ==
    ASSUME IInv, NEW s \in Slots, Free(s), Request(s), UNCHANGED <<revived, serial>>
    PROVE  IInv'
  <1>1. taskVersion \in Nat /\ now \in Nat
    BY DEF IInv, TypeInv, TypeOK, Days
  <1>2. ASSUME NEW rule \in Rules, BeginUpdate(s, rule) PROVE IInv'
    <2>1. PICK r : r = [op |-> "update", seen |-> taskVersion, rule |-> rule,
                        next |-> IF series.made < rule.max THEN rule.start ELSE 0]
      OBVIOUS
    <2>2. Requested(r) /\ Expected(r) /\ Start(s, r)
      BY <1>1, <1>2, <2>1 DEF BeginUpdate, Requested, Expected
    <2> QED
      BY <2>2, StartKeeps
  <1>3. CASE BeginCancel(s)
    <2>1. PICK r : r = [op |-> "cancel", seen |-> taskVersion]
      OBVIOUS
    <2>2. Requested(r) /\ Expected(r) /\ Start(s, r)
      BY <1>1, <1>3, <2>1 DEF BeginCancel, Requested, Expected
    <2> QED
      BY <2>2, StartKeeps
  <1> QED
    BY <1>2, <1>3 DEF Request

\* A request that ends frees its slot; without overlap nothing is in flight then.
LEMMA DoneFrees ==
    ASSUME IInv, NEW s \in Slots, req[s] # Idle, Done(s), UNCHANGED <<hand, revived, serial>>
    PROVE  /\ RequestsSound' /\ OneInFlight'
           /\ serial => hand = Idle /\ \A o \in Slots : req'[o] = Idle
  <1>1. DOMAIN req' = Slots /\ req'[s] = Idle /\ \A o \in Slots \ {s} : req'[o] = req[o]
    BY DEF IInv, TypeInv, Done, RequestsSound
  <1>2. RequestsSound'
    BY <1>1 DEF IInv, TypeInv, RequestsSound
  <1>3. serial => hand = Idle /\ \A o \in Slots : req'[o] = Idle
    BY <1>1 DEF IInv, OneInFlight
  <1> QED
    BY <1>2, <1>3 DEF OneInFlight

LEMMA CancelledQueued ==
    ASSUME TypeOK
    PROVE  /\ QueuedCancelled \in [Days -> {"ABSENT", "RUNNING", "SUCCEEDED", "FAILED", "CANCELLED"}]
           /\ \A d \in Days : /\ QueuedCancelled[d] = "RUNNING" <=> jobState[d] = "RUNNING"
                              /\ QueuedCancelled[d] = "ABSENT" <=> jobState[d] = "ABSENT"
  BY DEF QueuedCancelled, TypeOK

LEMMA CommitUpdateKeeps ==
    ASSUME IInv, NEW s \in Slots, CommitUpdate(s), UNCHANGED <<revived, serial>>
    PROVE  IInv'
  <1> DEFINE r == req[s]
  <1> USE DEF IInv, TypeInv
  <1>1. /\ r # Idle /\ r.op = "update" /\ r.rule \in Rules /\ r.next \in {0, r.rule.start}
        /\ Creatable(r.next) /\ taskVersion' = taskVersion + 1
        /\ series' = [active |-> r.next # 0, next |-> r.next, made |-> series.made,
                      every |-> r.rule.every, max |-> r.rule.max, ends |-> r.rule.ends]
        /\ jobState' = IF r.next = 0 THEN QueuedCancelled
                       ELSE [QueuedCancelled EXCEPT ![r.next] = "QUEUED"]
        /\ Done(s) /\ UNCHANGED <<created, closed, attempts, hand, now>>
    BY DEF CommitUpdate, RequestsSound, Requested
  <1>2. RequestsSound' /\ OneInFlight' /\ (serial => hand = Idle /\ \A o \in Slots : req'[o] = Idle)
    BY <1>1, DoneFrees
  <1>3. /\ r.rule.start \in Days /\ r.rule.every \in Steps /\ r.rule.max \in Maxima
        /\ r.rule.ends \in Days /\ r.next \in Days \cup {0} /\ series.made \in Nat
    BY <1>1 DEF Rules, TypeOK, SeriesRows
  <1>4. jobState' \in [Days -> {"ABSENT", "QUEUED", "RUNNING", "SUCCEEDED", "FAILED", "CANCELLED"}]
    BY <1>1, <1>3, CancelledQueued
  <1>5. series' \in SeriesRows
    BY <1>1, <1>3 DEF SeriesRows
  <1>6. TypeOK'
    BY <1>1, <1>4, <1>5 DEF TypeOK
  <1>7. HandSound'
    BY <1>1 DEF HandSound
  <1>8. \A d \in Days : jobState'[d] = "RUNNING" <=> jobState[d] = "RUNNING"
    BY <1>1, <1>3, CancelledQueued DEF Creatable, TypeOK
  <1>9. RunningInHand'
    BY <1>1, <1>8 DEF RunningInHand
  <1>10. Counted'
    BY <1>1 DEF Counted, MadeCountsTasks
  <1>11. Awaited'
    BY <1>1, <1>2 DEF Awaited
  <1>12. Chained'
    <2> SUFFICES ASSUME serial, r.next # 0 PROVE Chained'
      BY <1>1 DEF Chained
    <2>1. series'.made < series'.max
      BY <1>1 DEF Awaited, Expected
    <2>2. \A d \in Days : jobState'[d] \in {"QUEUED", "RUNNING"} => d = series'.next
      <3>1. \A d \in Days : jobState'[d] # "RUNNING"
        BY <1>2, <1>8 DEF RunningInHand
      <3>2. \A d \in Days : jobState'[d] = "QUEUED" => d = r.next
        BY <1>1, <1>3, CancelledQueued
      <3> QED
        BY <1>1, <3>1, <3>2
    <2> QED
      BY <2>1, <2>2 DEF Chained
  <1> QED
    BY <1>2, <1>6, <1>7, <1>9, <1>10, <1>11, <1>12

LEMMA CommitCancelKeeps ==
    ASSUME IInv, NEW s \in Slots, CommitCancel(s), UNCHANGED <<revived, serial>>
    PROVE  IInv'
  <1> USE DEF IInv, TypeInv
  <1>1. /\ req[s] # Idle /\ taskVersion' = taskVersion + 1
        /\ series' = [series EXCEPT !.active = FALSE, !.next = 0]
        /\ jobState' = QueuedCancelled
        /\ Done(s) /\ UNCHANGED <<created, closed, attempts, hand, now>>
    BY DEF CommitCancel
  <1>2. RequestsSound' /\ OneInFlight' /\ (serial => hand = Idle /\ \A o \in Slots : req'[o] = Idle)
    BY <1>1, DoneFrees
  <1>3. series' \in SeriesRows /\ series'.made = series.made /\ ~series'.active
    BY <1>1 DEF TypeOK, SeriesRows
  <1>4. TypeOK'
    BY <1>1, <1>3, CancelledQueued DEF TypeOK
  <1>5. HandSound' /\ RunningInHand'
    BY <1>1, CancelledQueued DEF HandSound, RunningInHand
  <1>6. Counted'
    BY <1>1, <1>3 DEF Counted, MadeCountsTasks
  <1>7. Awaited' /\ Chained'
    BY <1>1, <1>2, <1>3 DEF Awaited, Chained
  <1> QED
    BY <1>2, <1>4, <1>5, <1>6, <1>7

LEMMA RefuseKeeps ==
    ASSUME IInv, NEW s \in Slots, Refuse(s), UNCHANGED <<revived, serial>>
    PROVE  IInv'
  <1> USE DEF IInv, TypeInv
  <1>1. /\ req[s] # Idle /\ Done(s)
        /\ UNCHANGED <<series, created, taskVersion, closed, jobState, attempts, hand, now>>
    BY DEF Refuse, jobs
  <1>2. RequestsSound' /\ OneInFlight' /\ (serial => hand = Idle /\ \A o \in Slots : req'[o] = Idle)
    BY <1>1, DoneFrees
  <1>3. TypeOK' /\ HandSound' /\ RunningInHand' /\ Counted' /\ Chained'
    BY <1>1 DEF TypeOK, HandSound, RunningInHand, Counted, MadeCountsTasks, Chained
  <1>4. Awaited'
    BY <1>1, <1>2 DEF Awaited
  <1> QED
    BY <1>2, <1>3, <1>4

LEMMA ChangeTemplateKeeps ==
    ASSUME IInv, ChangeTemplate, UNCHANGED <<revived, serial>>
    PROVE  IInv'
  <1> USE DEF IInv, TypeInv
  <1>1. /\ Alone /\ closed' = ~closed /\ taskVersion' = taskVersion + 1
        /\ UNCHANGED <<series, created, jobState, attempts, hand, req, now>>
    BY DEF ChangeTemplate, jobs
  <1>2. TypeOK'
    BY <1>1 DEF TypeOK
  <1>3. HandSound' /\ RunningInHand' /\ Counted' /\ RequestsSound' /\ OneInFlight' /\ Chained'
    BY <1>1 DEF HandSound, RunningInHand, Counted, MadeCountsTasks, RequestsSound, OneInFlight, Chained
  <1>4. Awaited'
    BY <1>1 DEF Awaited, Alone
  <1> QED
    BY <1>2, <1>3, <1>4

LEMMA NewDayKeeps ==
    ASSUME IInv, NewDay, UNCHANGED <<revived, serial>>
    PROVE  IInv'
  <1> USE DEF IInv, TypeInv
  <1>1. /\ now' \in Days
        /\ UNCHANGED <<series, created, taskVersion, closed, jobState, attempts, hand, req>>
    BY DEF NewDay, jobs
  <1>2. TypeOK'
    BY <1>1 DEF TypeOK
  <1>3. HandSound' /\ RunningInHand' /\ Counted' /\ RequestsSound' /\ OneInFlight' /\ Chained'
    BY <1>1 DEF HandSound, RunningInHand, Counted, MadeCountsTasks, RequestsSound, OneInFlight, Chained
  <1>4. Awaited'
    BY <1>1 DEF Awaited, Wanted, Expected
  <1> QED
    BY <1>2, <1>3, <1>4

-----------------------------------------------------------------------------
(* The worker.                                                             *)

LEMMA ClaimKeeps ==
    ASSUME IInv, NEW d \in Days, Claim(d), UNCHANGED <<revived, serial>>
    PROVE  IInv'
  <1> USE DEF IInv, TypeInv
  <1>1. /\ hand = Idle /\ Alone /\ jobState[d] = "QUEUED"
        /\ jobState' = [jobState EXCEPT ![d] = "RUNNING"]
        /\ attempts' = [attempts EXCEPT ![d] = @ + 1]
        /\ hand' = [stage |-> "read", day |-> d, seen |-> Idle]
        /\ UNCHANGED <<series, created, taskVersion, closed, req, now>>
    BY DEF Claim, Due
  <1>2. hand' \in Hands /\ hand' # Idle /\ hand'.day = d /\ hand'.stage = "read"
    BY <1>1, ConstantsAssumption DEF Hands
  <1>3. TypeOK'
    BY <1>1 DEF TypeOK
  <1>4. HandSound' /\ RunningInHand'
    BY <1>1, <1>2 DEF HandSound, RunningInHand, TypeOK
  <1>5. Counted' /\ RequestsSound'
    BY <1>1 DEF Counted, MadeCountsTasks, RequestsSound
  <1>6. OneInFlight' /\ Awaited'
    BY <1>1, <1>2 DEF OneInFlight, Awaited, Alone, Expected
  <1>7. Chained'
    BY <1>1 DEF Chained, TypeOK
  <1> QED
    BY <1>3, <1>4, <1>5, <1>6, <1>7

LEMMA ReadSeriesKeeps ==
    ASSUME IInv, ReadSeries, UNCHANGED <<revived, serial>>
    PROVE  IInv'
  <1> USE DEF IInv, TypeInv
  <1>1. /\ hand # Idle /\ hand \in Hands /\ hand.stage = "read"
        /\ UNCHANGED <<series, created, taskVersion, closed, jobState, attempts, req, now>>
    BY DEF ReadSeries, HandSound, jobs
  <1>2. /\ hand' \in Hands /\ hand'.day = hand.day
        /\ hand'.stage = "create" => Wanted(hand.day) /\ hand'.seen = series
    BY <1>1 DEF ReadSeries, Hands, TypeOK
  <1>3. hand' # Idle
    BY <1>2, ConstantsAssumption
  <1>4. TypeOK' /\ Counted' /\ RequestsSound' /\ Chained'
    BY <1>1 DEF TypeOK, Counted, MadeCountsTasks, RequestsSound, Chained
  <1>5. HandSound' /\ RunningInHand'
    BY <1>1, <1>2, <1>3 DEF HandSound, RunningInHand, Wanted, TypeOK
  <1>6. OneInFlight'
    BY <1>1 DEF OneInFlight
  <1>7. Awaited'
    BY <1>1, <1>2 DEF Awaited, Wanted, Expected
  <1> QED
    BY <1>4, <1>5, <1>6, <1>7

\* The next date lies after the one in hand, or there is none.
LEMMA UpcomingLater ==
    ASSUME IInv, hand # Idle, hand.stage = "create"
    PROVE  /\ hand.day \in Days /\ Upcoming \in Days \cup {0} /\ Upcoming # hand.day
           /\ Upcoming # 0 => hand.seen.made + 1 < hand.seen.max
  <1>1. hand \in Hands /\ hand.seen \in SeriesRows
    BY DEF IInv, TypeInv, HandSound
  <1>2. LastDay \in Nat
    BY ConstantsAssumption
  <1>3. hand.day \in 1..LastDay /\ hand.seen.ends \in 1..LastDay
    BY <1>1 DEF Hands, SeriesRows, Days
  <1>4. hand.seen.every \in Nat \ {0}
    BY <1>1, ConstantsAssumption DEF SeriesRows
  <1> QED
    BY <1>2, <1>3, <1>4 DEF Upcoming, NextDate, Days

LEMMA CreateKeeps ==
    ASSUME IInv, CreateOccurrence, UNCHANGED <<revived, serial>>
    PROVE  IInv'
  <1> USE DEF IInv, TypeInv
  <1> DEFINE d == hand.day
             n == Upcoming
  <1>1. /\ hand # Idle /\ hand \in Hands /\ hand.stage = "create" /\ d \notin created /\ Creatable(n)
        /\ created' = created \cup {d}
        /\ series' = [series EXCEPT !.made = @ + 1, !.next = n, !.active = n # 0]
        /\ jobState' = IF n = 0 THEN jobState ELSE [jobState EXCEPT ![n] = "QUEUED"]
        /\ hand' = [hand EXCEPT !.stage = "done"]
        /\ UNCHANGED <<taskVersion, closed, attempts, req, now>>
    BY DEF CreateOccurrence, HandSound
  <1>2. /\ d \in Days /\ n \in Days \cup {0} /\ n # d
        /\ n # 0 => hand.seen.made + 1 < hand.seen.max
    BY <1>1, UpcomingLater
  <1>3. /\ series' \in SeriesRows /\ series'.made = series.made + 1 /\ series'.next = n
        /\ series'.active = (n # 0) /\ series'.max = series.max /\ series.made \in Nat
    <2>1. PICK m : m = n
      OBVIOUS
    <2>2. series' = [active |-> m # 0, next |-> m, made |-> series.made + 1, every |-> series.every,
                     max |-> series.max, ends |-> series.ends]
      BY <1>1, <2>1 DEF TypeOK, SeriesRows
    <2>3. /\ series.made \in Nat /\ series.every \in Steps /\ series.max \in Maxima
          /\ series.ends \in Days /\ m \in Days \cup {0}
      BY <1>2, <2>1 DEF TypeOK, SeriesRows
    <2>4. series' \in SeriesRows
      BY <2>2, <2>3 DEF SeriesRows
    <2> QED
      BY <2>1, <2>2, <2>3, <2>4
  <1>4. hand' \in Hands /\ hand'.day = d /\ hand'.stage = "done"
    BY <1>1 DEF Hands
  <1>5. hand' # Idle
    BY <1>4, ConstantsAssumption
  <1>6. TypeOK'
    <2>1. jobState' \in [Days -> {"ABSENT", "QUEUED", "RUNNING", "SUCCEEDED", "FAILED", "CANCELLED"}]
      BY <1>1, <1>2 DEF TypeOK
    <2> QED
      BY <1>1, <1>2, <1>3, <2>1 DEF TypeOK
  <1>7. RequestsSound'
    BY <1>1 DEF RequestsSound
  <1>8. HandSound'
    BY <1>4 DEF HandSound
  <1>9. RunningInHand'
    <2>1. \A e \in Days : jobState'[e] = "RUNNING" <=> jobState[e] = "RUNNING"
      BY <1>1, <1>2 DEF Creatable, TypeOK
    <2> QED
      BY <1>1, <1>4, <1>5, <2>1 DEF RunningInHand
  <1>10. Counted'
    <2>1. /\ IsFiniteSet(created') /\ Cardinality(created') = Cardinality(created) + 1
          /\ Cardinality(created) \in Nat
      BY <1>1, FS_AddElement, FS_CardinalityType DEF Counted
    <2> QED
      BY <1>3, <2>1 DEF Counted, MadeCountsTasks
  <1>11. OneInFlight'
    BY <1>1 DEF OneInFlight
  <1>12. Awaited'
    BY <1>1, <1>4 DEF Awaited, OneInFlight
  <1>13. Chained'
    <2> SUFFICES ASSUME serial, n # 0 PROVE Chained'
      BY <1>3 DEF Chained
    <2>1. series.active /\ series.next = d /\ hand.seen = series
      BY <1>1 DEF Awaited, Wanted
    <2>2. series'.made < series'.max
      BY <1>2, <1>3, <2>1
    <2>3. \A e \in Days : jobState'[e] \in {"QUEUED", "RUNNING"} => e = n \/ e \in created' \cup revived
      BY <1>1, <1>2, <2>1 DEF Chained, TypeOK
    <2> QED
      BY <1>3, <2>2, <2>3 DEF Chained
  <1> QED
    BY <1>6, <1>7, <1>8, <1>9, <1>10, <1>11, <1>12, <1>13

\* The job in hand is put down: it failed or it is done.
LEMMA PutDownKeeps ==
    ASSUME IInv, hand # Idle, hand' = Idle, NEW x \in {"FAILED", "QUEUED", "SUCCEEDED"},
           jobState' = [jobState EXCEPT ![hand.day] = x],
           UNCHANGED <<series, created, taskVersion, closed, attempts, req, now, revived, serial>>
    PROVE  IInv'
  <1> USE DEF IInv, TypeInv
  <1>1. hand.day \in Days /\ jobState[hand.day] = "RUNNING"
    BY DEF HandSound, RunningInHand, Hands
  <1>2. /\ jobState'[hand.day] = x /\ \A d \in Days \ {hand.day} : jobState'[d] = jobState[d]
    BY <1>1 DEF TypeOK
  <1>3. TypeOK'
    BY <1>1 DEF TypeOK
  <1>4. RequestsSound' /\ HandSound' /\ Counted' /\ OneInFlight'
    BY DEF RequestsSound, HandSound, Counted, MadeCountsTasks, OneInFlight
  <1>5. RunningInHand'
    BY <1>1, <1>2 DEF RunningInHand
  <1>6. Awaited'
    BY DEF Awaited, Expected
  <1>7. Chained'
    BY <1>1, <1>2 DEF Chained
  <1> QED
    BY <1>3, <1>4, <1>5, <1>6, <1>7

LEMMA CrashKeeps ==
    ASSUME IInv, Crash, UNCHANGED <<revived, serial>>
    PROVE  IInv'
  <1> USE DEF IInv, TypeInv
  <1>1. /\ hand' = Idle /\ req' = [s \in Slots |-> Idle]
        /\ jobState' = [d \in Days |-> IF jobState[d] = "RUNNING" THEN "QUEUED" ELSE jobState[d]]
        /\ UNCHANGED <<series, created, taskVersion, closed, attempts, now>>
    BY DEF Crash
  <1>2. TypeOK'
    BY <1>1 DEF TypeOK
  <1>3. RequestsSound' /\ HandSound' /\ Counted' /\ OneInFlight' /\ Awaited'
    BY <1>1 DEF RequestsSound, HandSound, Counted, MadeCountsTasks, OneInFlight, Awaited
  <1>4. RunningInHand' /\ Chained'
    BY <1>1 DEF RunningInHand, Chained, TypeOK
  <1> QED
    BY <1>2, <1>3, <1>4

\* A job an operator puts back is of a date noted as revived.
LEMMA ReviveKeeps ==
    ASSUME IInv, NEW d \in Days, Revive(d), UNCHANGED serial
    PROVE  IInv'
  <1> USE DEF IInv, TypeInv
  <1>1. /\ Alone /\ jobState[d] = "FAILED" /\ jobState' = [jobState EXCEPT ![d] = "QUEUED"]
        /\ revived' = revived \cup {d}
        /\ UNCHANGED <<series, created, taskVersion, closed, attempts, hand, req, now>>
    BY DEF Revive
  <1>2. TypeOK'
    BY <1>1 DEF TypeOK
  <1>3. RequestsSound' /\ HandSound' /\ Counted' /\ OneInFlight'
    BY <1>1 DEF RequestsSound, HandSound, Counted, MadeCountsTasks, OneInFlight
  <1>4. RunningInHand' /\ Chained'
    BY <1>1 DEF RunningInHand, Chained, TypeOK
  <1>5. Awaited'
    BY <1>1 DEF Awaited, Wanted, Expected
  <1> QED
    BY <1>2, <1>3, <1>4, <1>5

-----------------------------------------------------------------------------
(* The invariant and what follows.                                         *)

LEMMA StepKeeps == IInv /\ [Next]_vars => IInv'
  <1> SUFFICES ASSUME IInv, [Next]_vars PROVE IInv'
    OBVIOUS
  <1>1. CASE UNCHANGED vars
    BY <1>1
    DEF vars, jobs, IInv, TypeInv, TypeOK, RequestsSound, HandSound, RunningInHand, Counted,
        MadeCountsTasks, OneInFlight, Awaited, Wanted, Expected, Chained
  <1>2. CASE Next
    <2>2. ASSUME UNCHANGED <<revived, serial>>, NEW s \in Slots,
                 (Free(s) /\ Request(s)) \/ Commit(s)
          PROVE  IInv'
      BY <2>2, RequestKeeps, CommitUpdateKeeps, CommitCancelKeeps, RefuseKeeps DEF Commit
    <2>3. CASE CreateFails /\ UNCHANGED <<revived, serial>>
      <3>1. PICK x \in {"FAILED", "QUEUED"} : jobState' = [jobState EXCEPT ![hand.day] = x]
        BY <2>3 DEF CreateFails
      <3> QED
        BY <2>3, <3>1, PutDownKeeps DEF CreateFails
    <2>4. CASE Settle /\ UNCHANGED <<revived, serial>>
      <3>1. PICK x \in {"SUCCEEDED"} : jobState' = [jobState EXCEPT ![hand.day] = x]
        BY <2>4 DEF Settle
      <3> QED
        BY <2>4, <3>1, PutDownKeeps DEF Settle
    <2>5. CASE Work /\ UNCHANGED <<revived, serial>>
      BY <2>3, <2>4, <2>5, ClaimKeeps, ReadSeriesKeeps, CreateKeeps DEF Work
    <2> QED
      BY <1>2, <2>2, <2>5, ChangeTemplateKeeps, CrashKeeps, NewDayKeeps, ReviveKeeps
      DEF Next, Step
  <1> QED
    BY <1>1, <1>2

\* The inductive invariant holds throughout: the count, the chain of jobs, and what
\* the worker and the requests in flight know.
THEOREM Invariance == Spec => []IInv
  BY InitIInv, StepKeeps, PTL DEF Spec

\* Through every retry, crash and overlapping edit the count a maximum is compared
\* with is the number of tasks, and without overlap there is one chain of jobs, beside
\* those an operator puts back.
THEOREM SeriesSound == Spec => []SeriesHolds
  <1>1. IInv => SeriesHolds
    BY DEF IInv, TypeInv, Counted, Chained, OneChain, SeriesHolds
  <1> QED
    BY <1>1, Invariance, PTL

\* Only one action creates an occurrence.
LEMMA OnlyCreates ==
    ASSUME [Next]_vars, created' # created
    PROVE  CreateOccurrence /\ UNCHANGED <<revived, serial>>
  BY DEF vars, Next, Step, Revive, Request, BeginUpdate, BeginCancel, Start, Commit, CommitUpdate, CommitCancel,
         Refuse, ChangeTemplate, Work, Claim, ReadSeries, CreateFails, Settle, Crash, NewDay

\* A task is created for a date by its own running job; without overlap only for the
\* date the series waits for, never past its maximum or from a closed template.
THEOREM OccurrencesSound == Spec => OccurrencesWanted
  <1>1. IInv /\ [Next]_vars => \A d \in created' \ created : jobState[d] = "RUNNING"
    <2> SUFFICES ASSUME IInv, [Next]_vars, NEW d \in created', d \notin created
                 PROVE  jobState[d] = "RUNNING"
      OBVIOUS
    <2>1. hand # Idle /\ d = hand.day
      BY OnlyCreates DEF CreateOccurrence
    <2> QED
      BY <2>1 DEF IInv, TypeInv, HandSound, Hands, RunningInHand
  <1>2. IInv /\ [Next]_vars =>
          (serial => \A d \in created' \ created : series.active /\ series.next = d /\ ~closed)
    <2> SUFFICES ASSUME IInv, [Next]_vars, serial, NEW d \in created', d \notin created
                 PROVE  series.active /\ series.next = d /\ ~closed
      OBVIOUS
    <2>1. hand # Idle /\ hand.stage = "create" /\ d = hand.day
      BY OnlyCreates DEF CreateOccurrence
    <2> QED
      BY <2>1 DEF IInv, Awaited, Wanted
  <1>3. IInv /\ [Next]_vars => (serial /\ created' # created => series'.made <= series'.max)
    <2> SUFFICES ASSUME IInv, [Next]_vars, serial, created' # created
                 PROVE  series'.made <= series'.max
      OBVIOUS
    <2>1. /\ hand # Idle /\ hand.stage = "create"
          /\ series' = [series EXCEPT !.made = @ + 1, !.next = Upcoming, !.active = Upcoming # 0]
      BY OnlyCreates DEF CreateOccurrence
    <2>2. series.made < series.max /\ series.made \in Nat /\ series.max \in Nat
      BY <2>1, ConstantsAssumption
      DEF IInv, TypeInv, TypeOK, SeriesRows, Awaited, Wanted, Chained
    <2>3. series'.made = series.made + 1 /\ series'.max = series.max
      BY <2>1 DEF IInv, TypeInv, TypeOK, SeriesRows
    <2> QED
      BY <2>2, <2>3
  <1> QED
    BY <1>1, <1>2, <1>3, Invariance, PTL
    DEF Spec, OccurrencesWanted, CreatedByItsJob, OnlyWantedDates, MaximumKept
=============================================================================
