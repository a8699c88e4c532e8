# Formal models of LankaDWS

TLA+ models, model-checking runs and machine-checked proofs for this repository:
the API (`apps/api`), the parts of the web client (`apps/web`) that keep state of
their own against it, and the contracts between the two. Each definition is
translated from the code it names; comments give the function, `PROJECT.json`
the lines.

## The system

A NestJS process serves HTTP and runs one background worker; Prisma stores
everything in one SQLite file that a single process writes
(`docs/operations-runbook.md`), files lie beside it on disk. A React client with
TanStack Query and shared request contracts complete it. Four facts shape every
model:

* a Prisma `$transaction` is atomic, and a single statement is too; everything
  between two awaited statements outside a transaction may interleave with
  other requests, the worker and the clock;
* the process may die at any await. Rows and files survive, memory does not;
* a request may be lost, and so may its answer; the client repeats some requests
  with an idempotency key and others without;
* in the browser, answers, events, re-reads and the user come in any order, and
  an answer may come to a form that is gone.

The only migration (`prisma/migrations/20260805000000_baseline`) has tables,
foreign keys and indexes, and neither triggers nor CHECK constraints: what the
documents call "the database accepts only ..." is enforced by unique indexes or
by TypeScript alone.

### Inventory

| Component | State it keeps | Operations | What is hard | What makes it correct |
|---|---|---|---|---|
| Jobs and outbox (`jobs`, `admin.retryJob`) | `OutboxEvent`, `BackgroundJob` | commit event, enqueue, dispatch, claim, handle, settle, lease sweep, cancel, revive | crash between two statements, leases, retries, updates by id | nothing lost, nothing settled twice, attempts bounded, everything settled in the end |
| Feed (`feed`, `FeedPage`) | `FeedPost`, `FeedItem`, `FeedSourceHead`, favourites, read cursors, acknowledgements, reactions, subscriptions, file shares | create/edit/archive post, project task, star, mark read, acknowledge, like, comment, share, list, import history | late projections, snapshots read before a transaction, paging while heads move | the head is the newest version, favourites follow it, cursors advance, acknowledgements cover the audience of their version, paging shows everything once |
| Tasks (`tasks`) | `Task` with version, participants, followers, checklist, relations, time entries, marks | create, update, status, archive, participants, hierarchy, checklist, timer | versions shared by all parts; parent/child rules over several rows | no cycle, no closed parent with open children, a responsible, one running timer |
| Recurrence (`task-recurrence`, `createRecurringTask`) | `TaskRecurrence`, its jobs | schedule, reschedule, cancel, create occurrence | the handler writes from an old read; job keys live for ever | each date once, count exact, maximum kept, the series goes on |
| Reminders (`task-reminder`) | `TaskReminder`, its jobs | add, cancel, deliver | delivery crosses cancellation and removal | none after an answered cancellation |
| Task form and drawer (`features/tasks/create`, `TasksPage`, `Overlay`) | draft, fields, options, dirty marks, the cached task | edit, autosave, submit, retry, leave, reload, re-read | late and lost answers, timers, options that go stale | one task per submission, nothing typed is lost unasked, only what was touched changes |
| Chat (`communication`) | `MessageThread`, `ThreadParticipant`, `Message` | open, post, edit, delete, mark read, participants, preferences, list | idempotency keys, snapshots, last owner | one direct thread per pair, one post per key, an owner at all times, cursors advance |
| Chat in the browser (`features/messages`, `chat-realtime`) | cached pages, optimistic messages, an event stream | load, page, hear, send, retry, reconnect | writes of three kinds to one cache, in any order | at rest the window is the thread; a message is sent once |
| Files (`files`, scan and cleanup jobs) | `FileObject`, `FileLink`, disk | upload, scan, link, share, clean up, download | disk and database are not atomic | no linked file is deleted, a scanned file is reachable |
| Announcements | `Announcement`, receipts | draft, schedule, publish, fan out, read, archive | publication crosses archival and fan-out | nothing before its time, archived last, read stays read |
| Retention | holds, purge jobs | preview, hold, release, purge | hold placed during a purge | nothing under hold is purged |
| Authentication, authorization | sessions, credentials, roles | log in, second factor, change password, revoke, guard | a request goes on with what the guard saw | a revoked session is dead |
| Administration, groups, calendar, documents | one aggregate each, with a version | create, update, archive, join, decide, approve, hand over | version checks outside transactions | no lost update, an administrator remains, work has owners |
| Import control | a dataset directory, its index and signed manifest | validate, seal, compare with the database | files change, runs overlap and stop halfway | an accepted dataset is whole, a seal stays |
| Lifecycle, dashboard, analytics, org, knowledge, CLI, config, other pages | none of their own | queries, rendering | - | - |

Interaction: requests write aggregate rows, audit rows and outbox rows in one
transaction; the worker turns outbox rows into jobs, and jobs write rows of
other components (feed items, tasks, receipts, notifications, file rows). There
is no other channel between components on the server except direct service
calls. The client sees the server through its answers and one event stream.

## Plan

The order was: the queue and its abstract promise; chat threads; the feed;
recurrence; the task tree; files, accounts, administration and retention;
documents, announcements, groups, calendar, the work on a task; posts and the
reading of the feed; the chat list and window; import datasets; the client's
task form and drawer. All of it is on disk. What would come next: saved views
and the filters of the task list, throttling of logins, a composition of
`JobQueue` with one of its handlers in place of the reduced workers of
`TaskRecurrence`, `FileCustody` and `AnnouncementDelivery`.

## Modules

Conventions: an action is a database statement or transaction, with the reads
that lead to it in an action before it when they are outside the transaction.
A request between its reads and its writes sits in a slot (`req`); `Begin...`
fills the slot, `Commit...` empties it, `Refuse` empties it when the guard of
the transaction no longer matches. Definitions called `M_...` are deliberate
mistakes: no action uses them; put in the place of the definition after them
they show what a property catches (`PROJECT.json`, `mutants`).

Server modules:

* `DurableDelivery`: what the queue promises about one deferred piece of work:
  submitted, pending, settled once; only a dead item is ever revived. That
  pending work is settled in the end is not part of it, because the code does not
  keep that promise for a stranded event; `NothingElseLost` states how much of it
  holds.
* `JobQueue`: rows of both tables and the worker's place in its pass (`pc`), one
  action per awaited statement of `dispatchOutbox` and `runOnce`. Requests add
  events, queue jobs directly, cancel queued jobs (as recurrence and reminders
  do) and revive failed ones (`admin.retryJob`). Times are distances from now.
  `Crash` is possible at every await; a write that is rejected outside a `try`
  ends as a crash as well, because `tick` is not awaited and `main.ts` handles no
  rejections. The handler is an effect counter here.
* `ChatThread`: one GROUP thread: `post`, `addParticipant`, `updateParticipant`,
  `removeParticipant`, `editMessage`, `deleteMessage`, `markRead`,
  `updatePreference`. State: a row per participant and per message, the thread's
  version and its outbox rows.
* `ThreadOpening`: `create` (DIRECT and GROUP) with its idempotency record, its
  direct key and the second look after a lost race, and `groupThread`, the
  contextual chat of a work group. A thread from before direct keys existed
  (`Legacy`) is adopted by the first request that finds it.
* `ChatInbox`: one user's list of threads: order, cursor, unread filter, counts,
  and the copy of the list the browser keeps.
* `FeedStream`: sources (posts and tasks) with versions, items, one head per
  source, favourites, one read cursor per user, and who is an active user of the
  company (`home`): a new item keeps the stars of those and of nobody else. Tasks
  are changed by transactions that leave an item, an event or both; the worker
  projects any event, any number of times, in any order, reading the task as it is
  then. An item's place in the stream is its time, then its id; ids are random, so
  the model chooses any free rank.
* `FeedPost`: one post with its audience, edits, acknowledgements, likes,
  subscriptions and comments, the card it is edited in and what the card says of
  the acknowledgements (`View`, the numbers, and `Button`, whether it asks). It has two
  next-state relations, for the text and for the talk below it, because the two
  hardly meet.
* `FeedReading`: one user's way through the pages of the feed, the marker that
  is sent back and the count of unread items, while sources change, are imported
  from history and are lost. A marker is on its way (`asked`), is looked at and
  taken in two steps, or gets lost and is never sent again. The importer writes
  source by source (`Import`), then finds its newest item (`FindLatest`), reads
  the cursor (`FindCursor`) and writes it (`Upsert`), with anything in between.
* `TaskRecurrence`: one series, a job per date, `update`, `cancel` and
  `createRecurringTask`. A rule is a number of days between occurrences, a last
  day and a maximum. The worker is reduced to claim, read, create, settle or
  fail, with crashes; an operator may put a failed job back (`Revive`), whatever
  has become of the series.
* `TaskTree`: tasks as rows with a status, an archival mark, a parent, a scope
  (group and project) and a version, and the BLOCKS relations between them. A
  request reads in `Begin...` what `validateCreate`, `assertValidParent`,
  `activeSubtaskIds` and `assertNoBlockingCycle` look at, and writes in
  `Commit...` under the guard of one version. The statuses that are not terminal
  are one status here.
* `TaskWork`: participants, followers, reminders with their jobs, checklist,
  timers and marks of one task, its lists and who can open it. Two next-state
  relations, for the people and for what a user does alone.
* `FileCustody`: a file from upload through quarantine, scan, links, shares and
  clean-up, its row and its bytes kept apart, with processes that stop.
* `AccountSessions`, `AdminControl`: one account with its sessions; and what
  administrators do to accounts, to each other and to versioned settings. Work
  is given, closed, opened again (`changeStatus`, `restore`) and made by
  recurrences (`createRecurringTask`), the last two without a look at the owner.
* `RetentionPurge`: holds placed and released while a purge counts, plans,
  deletes in chunks and crashes.
* `DocumentShelf`, `AnnouncementDelivery`, `WorkGroups`, `CalendarBook`: one
  aggregate each.
* `SnapshotSeal`: sealing and checking a dataset directory, and comparing its
  company mapping with the database. A run that takes its outputs back looks at
  one (`Rollback`) and then removes what lies at its path (`Remove`).

Client modules:

* `TaskDraft`: the form for a new task as one value, its draft in local storage
  with the autosave timer, the question before it closes, its request under one
  key, late and lost answers, reloads of the page, and `create` on the server.
* `TaskFields`: the fields of the same form against options loaded per project,
  and what `createTaskSchema` and `TaskValidationService` accept.
* `TaskDrawer`: the drawer of a task: what it has read and what is being re-read,
  forms of three kinds, the version it sends, what an answer does to what was
  typed meanwhile, others who change the task, lost answers, and the question
  before it closes. Untouched inputs follow a re-read (React moves
  `defaultValue`), selects do not. The list of people comes late, is read again and
  has active employees only: a select whose person is not on it takes the first
  one there is (`Picks`). The input for the deadline has no seconds (`Cut`).
* `ChatWindow`: the cached pages of a thread, written by fetched pages, by
  messages read after an event, by optimistic copies, and by search results,
  whose page is fetched (`BeginAround`) and written (`OpenAround`) in two steps.
  A read that fails after an event (`Miss`) is not repeated.

### Several components in one run

`MCConversations`, `MCOffice` and `MCPlatform` each instantiate several modules
over the same generic variables (`x1`, `x2`, ...; `req`, `started`, `serial` where
the modules have slots). The variable `focus` says which component a behaviour is
about; it is chosen by the initial state and never changes, and the variables the
component in focus does not use stay 0. So one run is the disjoint union of the
state spaces of its components, each a specification of its own; nothing is
composed by it. Invariants read "if the focus is this component then"; action
properties are action formulas of the modules, boxed here. Where components do
interact, the module contains both sides: `FeedStream` the task services and the
projection, `TaskRecurrence` and `FileCustody` the worker, `TaskDraft`,
`TaskFields`, `TaskDrawer`, `FeedPost` and `ChatWindow` the client and the server.

## Runs

| Run | Shows | Bounds |
|---|---|---|
| `queue_crash` | safety and refinement of the queue, one crash at any await, one operator revival, throwing dispatches and handlers | one event, one direct job, two attempts |
| `queue_live` | orphaned leases come back; all pending work is settled, except an event stranded by a crash | two events, one of an unknown type, batches of one, one crash |
| `queue_event_lost` (violation) | a crash between claim and mark strands an event | one crash |
| `feed_changes` | the head is the newest version, one item per version and writer, stars of active users survive, cursors advance; without overlap, stars of a post on its head and its new versions unread | one post, one task, two versions, two slots, three requests |
| `series_edits` | occurrences counted exactly, each made by its own running job; without overlap one chain of jobs beside revived ones, only wanted dates, the maximum kept | two slots, three days, one crash, revivals counted as requests |
| `series_stalled` (violation) | a series moved to an earlier start stops | one slot, two requests |
| `task_tree` | what completion and new subtasks may overlook under overlap; without it, no task is its own ancestor, subtasks share the scope of their parent, and a blocking cycle runs through a task created inside it | three tasks, two scopes, two slots, four requests |
| `task_block_cycle` (violation) | a task created between two related tasks closes a cycle | one slot, three requests |
| `conversations` | a thread: versions, keys, membership, deletion, cursors, notifications. Opening: requests meet in one thread. The list and the window of the browser. A post and the reading of the feed | four users, two slots, five requests, two messages; three openings, two keys; a list of three threads in pages of one, a window of three messages in pages of two with one edit, one trouble (a lost stream, a failed read or request) and one search result; three sources in four places, two of them for history, one marker on its way |
| `office` | documents, announcements, groups, the calendar, the people and the own work of a task, datasets | two slots and three or four requests each; three checklist steps; two runs of the sealer with two keys, one stop and two changes by hand |
| `platform` | files, accounts, administration, retention, the form for a new task and its fields, the drawer of a task | one file with two shares and two cuts; three sessions, three administrators, two holds, one piece of work, two slots; two forms, two sends and one fault; one other user, task and project; the drawer of a user who keeps to its edit form and of one who uses a box, a kept form and one that closes, two sends, one change of others or lost answer |
| `task_edit_stale` (violation) | an edit of a stale drawer is accepted | one change, two sends |

The bounds are the smallest at which two actors meet on the same row and a
third event (a crash, a retry, another request) falls between their steps: the
hazards listed in `PROJECT.json` need two requests, a request and the worker, or
a user and a late answer. Counters (`MaxRequests`, `MaxMessages`, `MaxVersion`,
`MaxCrashes`, `MaxRetries`, `MaxCuts`, `MaxStops`, `MaxSends`, `MaxChanges`,
`MaxTroubles`, `MaxForms`, `MaxFaults`, `MaxMoves`, `LastDay`, `Horizon` and the
like) bound what the code does not; `Limit`, `MaxAttempts`, `OutboxAttempts`,
`LeaseTime`, `Lead`, `MaxBackoff`, `Scan`, `Size` and `BatchSize` are the code's
own, made small. Runs with such bounds end in states without successors, so
deadlock is not checked there. Symmetry is used for users, slots, comments and
tasks that nothing tells apart, never in a run with liveness.

Every property of a passing run has a mutant in `PROJECT.json`: a plausible
mistake in one definition that makes TLC find the property violated. The
properties of the composed runs are conjunctions, one conjunct per component; the
mutants listed for one of them come from several of its components.

### With and without overlap

Some guarantees hold only as long as requests do not overlap each other or the
worker. Most server modules carry a variable `serial` for this, which the initial
state chooses and nothing changes: while it is true, a request starts only when
no other is being served (in `TaskRecurrence` the worker's pass counts as one). A
property that begins with `serial =>` is about those behaviours; every other
property is about all of them. What overlap breaks, each met as a counterexample
while the properties were written:

* two calls of `markRead`, or one and the caller's own post, move a chat's read
  cursor back, because it is compared before the transaction only (the decision
  record says the database "prevents regression"); a participant who mutes a
  chat, or leaves, while a post is being written is still notified;
* a star lands on an item that is no longer the head, because `setFavorite`
  lists the items before its transaction; a late projection of a task moves
  stars to such an item even without overlap. A new version of a post carries a
  time taken before its transaction, and a projected version of a task the time
  of the task's last change, so a cursor may already be past it and it never
  counts as unread;
* two tasks moved under each other at the same time form a cycle, and a subtask
  moved to a task that is just being completed stays open under it, because each
  request is guarded by the version of its own task only;
* an occurrence may be created after a cancellation or an edit of its series
  that overtook the handler;
* two timers of one user run (`docs/decisions.md:185` allows one), marks set at
  once overwrite each other, a removal that crosses a hand-over leaves a task
  without a responsible;
* two administrators who demote each other leave none; work assigned or opened
  while its owner is deactivated stays with them; two requests finalise one reset
  twice;
* a login or the rotation of a session that read the account before a password
  change creates its session after it (`changePassword` does not advance
  `authorizationVersion`; resets by administrators and the command line do, and
  `ResetEndsAll` holds under overlap);
* a publication of a document that overlaps a new version points back to the
  previous one; a publication or promotion that read an announcement before its
  archival brings it back (`bert-crm-backend-spec.md:629` has ARCHIVED last);
* two decisions on one request to join leave a rejected member; a request is
  admitted under a policy that was replaced;
* of two seal runs at once the loser's rollback removes the checksum file that
  the winner accepted.

### Fairness

The queue's liveness assumes that a step of the worker that stays possible is
taken (the interval timer calls `tick` for ever and awaits return), that a dead
process is restarted, and that the clock advances. The clock is strongly fair
because the model stops it during a lease sweep, whose queries all use one
`now`. Requests, crashes and revivals are never owed. `TaskRecurrence` assumes
the same of its worker, that days pass, and that a request being served ends.
No fairness is assumed of a handler's success: `NothingElseLost` holds because
failing work is dead-lettered after its attempts. The other modules state safety
only: in them nothing is owed that does not go through the queue.

## Findings

Places where the code and a document or a check of the repository disagree; each
has a run whose counterexample is the scenario.

* An event claimed before a crash stays PROCESSING (`queue_event_lost`).
  `NothingElseLost` shows that this window is the only one.
* `create` does not look for a cycle among the blocking relations it is given
  (`task_block_cycle`). `CyclesAreCreated` shows that no other request makes one
  without overlap.
* Moving a series to an earlier start stops it: the cancelled job of the old
  date keeps its key, the chain cannot pass that date, and every attempt fails
  until the job is FAILED (`series_stalled`).
* A stale edit in the drawer of a task is accepted (`task_edit_stale`): the form
  is opened on what a previous visit has cached, the re-read under way brings the
  change of somebody else, and a select keeps the old value while the request
  carries the new version. `UntouchedKept` shows that an edit changes no field
  its user did not touch otherwise, but for two cases. `/employees` lists active
  accounts of type USER only, and is first asked for when the form opens: a
  creator or responsible who is an administrator or inactive is no option, nor is
  anybody before the list arrives, and the browser selects the first person
  there is, so that saving a new title gives the task to them. And an untouched
  deadline loses its seconds.

Smaller ones, without a run of their own:

* Server. Two members who open the chat of a work group at once get two
  (`messages.service.ts:409`; `docs/bitrix24-functionality-migration-plan.md:772`
  speaks of one canonical chat). The unread counter of the feed counts sources the
  user has lost, which no page shows and reading does not clear (the same plan,
  line 796: "counter zero"). A `markRead` between the importer's look at the
  cursor and its write is overwritten and the cursor goes back, although
  `docs/decisions.md:63` and `:83` have an import leave nothing unread and the
  cursor advance only (`HistoryIsSilent` shows that there is no other way). Any
  write of a feed item takes the star off for who is not an active user at home in
  its company: an administrator without a company, somebody deactivated or moved.
  `FeedService.create` answers the first post when a key comes again with another
  body. Audiences are expanded in two ways: an edit or a comment takes the stored
  recipients as they are, so members of an archived group are asked to acknowledge
  what they cannot open. An edit or a hand-over leaves the reminders and follows
  of those it replaces. A drawer's edit takes all other responsibles off
  (`updateLegacy`), and `put` can demote the last one. A task that is opened
  again, a document that is restored and an occurrence of a series give open work
  to whoever owned it, deactivated or not. A failed recurrence job that is put
  back runs for its old date beside the chain of a series that was moved; the
  handler turns it away unless the date is wanted. A file shared once keeps its
  row when the clean-up has taken its bytes, and a scan that stopped after moving
  the file fails for good. A hold placed after a purge has read the holds comes
  too late. The initiator of a reset may be its target, though the message of
  `admin.service.ts:124` says otherwise. A process stopped between `link` and
  `unlink` in the sealer leaves a second name and every later run is refused. A
  run that fails looks at an output and then removes it by its path: if its own is
  taken away by hand in between and another run puts one there, that one is lost.
  A task that recurs can become a subtask (`docs/decisions.md:185`: "Recurrence is
  top-level only").
* Client. In the drawer a success empties its box or closes its form with what
  was typed while the request was pending, or leaves it unflagged, so that the
  drawer closes unasked (`late`); a comment has no key and is posted twice after
  a lost answer; a second tick of a step before the re-read is refused and
  nothing says so. In the form for a new task a late success clears the draft of
  a form opened meanwhile and navigates (`strayed`); saving, leaving and
  submitting again during a request makes a second task; changing everything
  back leaves the last draft; the creator can be a participant twice after
  options are shown again, a reminder can stay for somebody taken off, and a
  relation picked under one project can be added under another: the server
  refuses all three (`OfferedIsAccepted` shows there is no fourth). In the chat
  window an event about an older message that is not loaded puts it at the end,
  a load in flight overwrites what events wrote meanwhile, and what was missed
  while disconnected, or could not be read after its event, is not read again; a
  search result that was fetched before an event replaces what the event wrote
  (`odd` collects these; `WindowExact` says the window is exact otherwise). The
  marker of the feed is sent once per first page: when that request fails, what
  was read stays unread until something new arrives.

Events of types the worker does not handle are dead-lettered after their
attempts (`queue_live` contains one); nothing in the model depends on their
delivery.

## Proofs

Each theorem is about the specification of a run and names the property the run
checks, so the run shows it on a small instance and the theorem for every value
of the constants: any number of users, files, tasks, requests in flight, retries
and crashes. For the composed runs this means the specification of `MCOffice`,
`MCPlatform` or `MCConversations`, whose bounds are constants too, those of the
browser included (how many forms, messages, threads, troubles). A component's
lemmas are about its own `Init` and `Next`; the theorem then only adds that a
behaviour whose focus is another component leaves nothing to show.

The plan is the same everywhere. The properties are not inductive, because a
request or the worker relies, when it writes, on what it read before. The
invariant therefore says what each still knows of it; a lemma says which changes
the steps of others may make (an append, a version that advances, a mark that is
never taken off); so what was known still stands, and each commit is shown to
keep the invariant from it. Where a property begins with `serial =>`, the
invariant adds that one request is in flight at most and that everything it read
is still so.

* `JobQueueProofs` proves what `queue_crash` checks, and that a settled job stays
  settled. `HeldJobRunning` needs to know that only the worker leaves RUNNING
  while it holds the job; `AttemptsBounded` and `AttemptsSpent` that a job that
  can be claimed again has an attempt left within its bound, an orphan of a crash
  included (`AttemptInv`); `EffectsMatchAttempts` what the worker is about to do
  (`WorkerInv`); "at most once" that a job with an effect is settled or about to
  be (`OnceInv`). `Refinement` maps a job's row, or its event's while there is no
  job, to the status of `DurableDelivery`; `OneMoves` shows that a step that
  changes the status of one item only is an abstract step or a stutter, and
  `StepRefines` that every action is such a step.
* `TaskTreeProofs` proves the three properties of `task_tree`. While the parent's
  version stands, the parent is an open root (`KnowsParent`); while the task's
  version stands, its parent is the one read (`KnowsTask`) and it has no open
  subtask that was not moved to it (`KnowsSubtasks`), because creating or
  reopening a subtask advances the parent's version. `Grows`, a row changes only
  with its version, carries these facts over the steps of others. `TreeSound` is
  about paths of any length, without induction over them: a relation is acyclic
  if what can be reached from a task, the least set closed under the relation,
  does not contain it (`FromLeast`, `FromClosed`), and an edge, a task with
  edges out, or one with edges in is added without a cycle when the request has
  looked at just that set (`AcyclicWithEdge`, `AcyclicWithSource`,
  `AcyclicWithSink`).
* `FeedStreamProofs` proves all four properties of `feed_changes`. Every write of
  an item, by any of four actions, has one effect (`Writes`: the item, the head
  and the stars of those at home), and each part of
  `HeadsHold` is shown to survive it once. `HeadsHold` is inductive only together
  with what slots and the worker's event may refer to (`Sound`, `JobSound`); what
  holds without overlap rests on `Alone` and `Awaited`: the one request in flight
  is ahead of every cursor, or knows the head it is going to star.
* `TaskRecurrenceProofs` proves both properties of `series_edits`. Only the job
  in hand runs (`RunningInHand`), so a date is created by its own job and counted
  once, whatever overlaps. Without overlap the handler's reading still stands
  (`Awaited`) and a job that may still run is for the next date, has its task
  already or was put back by an operator (`Chained`).
* `ConversationsProofs` proves everything `conversations` checks.
  - Openings: threads and records only ever grow (`ThreadsGrow`) and a direct
    thread comes into being with its key, so what a request has found between two
    awaits (`Stands`) is not undone, and the second look after a lost race finds
    the winner.
  - A thread: what a change to the participants checked on its snapshot (an owner
    besides, more than two left, room for one more) is true again at its commit
    if the thread has the version it saw (`Standing`), because every such change
    makes a version (`Steady`). `Evented` gives each version its one event,
    `Room` keeps posts under way within the bound. Cursors and notifications are
    not guarded by a version; there nothing may overlap (`Fresh`), which is where
    the counterexamples above begin.
  - A post: the version a request finds unchanged carries the text it read
    (`PostRequestsSound`), the card is never newer than the post and a draft is
    the text of its card (`CardSound`); who has acknowledged a version was asked
    for it, and the two numbers on a card count the current version only.
  - Reading: `RankFollowsPlace` and `FirstOnes` say what a page of the sorted
    heads is, without speaking of sorting: the page and the cursor cut the heads
    into what was shown, what comes next and what was passed over. `WalkShown`
    says that what did not change lies on the right side of the cursor.
    `SeedSound` keeps what the importer has read: its newest item, and a cursor
    behind it until a marker is taken, so that its write takes the cursor forward;
    what is imported does not count as unread, so no step of it adds to that.
    `MarkersSound` ties the marker that was taken to the cursor, as long as no
    such write has undone it.
  - The list of threads: a thread has a height, the time of its last message and
    then its id, as one number, so that the cursor of three columns is a cut
    (`CutAt`) and a page is what stands next below it. `Scrolled` says that what
    did not change lies above the cut and was shown, once, or was pushed off the
    first page; a preview moves a thread to the top and so out of what did not
    change. `AsListed` adds that with nothing changed the rows and counts are
    those of the server, from which `CountsMatchList` follows by counting the
    places of a list that has nothing twice.
  - The window: what is shown at rest follows from what holds at any time of the
    cached pages and of the load in flight (`Good`). They are a piece of the
    thread (`Piece`: in order over all pages, without gaps, with the cursor at the
    oldest message, a first page that is not empty of messages). Each entry is
    current or its better version is on its way, as an event or as an answer
    (`Recent`); so is every message newer than the newest shown (`Reaches`), and
    what is no message is the copy of the one being sent (`Copied`). At rest
    nothing is on its way, which leaves `WindowExact`. A page that is replaced or
    appended, a message that is put in place, a copy that is taken out or becomes
    a message each keep it (`UpsertGood`, `GoodLess`, `WholeGood`); an event for a
    message that would leave a gap is one of the odd cases. What is said of the
    load in flight is said of each search result being opened as well
    (`AroundGood`). A reload fetches as many pages as there were, or until there
    are no older ones (`Reload`, a recursive function of their number). TLA+ has
    such a function only if one satisfies its equation, so `ReloadIs` shows that
    chains of fetches of every length exist and agree (`Chain`, `Further`), and
    `ReloadWhole` that what they return is a piece of the thread up to its newest
    message; both by induction in its bare form (`Climbs`: a set with one in it
    and with each number the next has every positive number).
  - Types: parts of these invariants, with the stages of an opening
    (`OpeningTypes`) and the bound on the places of a feed (`ReadingTypes`) added.
* `OfficeProofs` proves everything `office` checks. A decision, a publication, a
  delivery or a retry is bound to what it read by the status or the key it names
  (`GroupRequestsFit`, `DocRequestsFit`, `JobsFit`, `CalRequestsFit`).
  `NotBeforeItsTime` needs, for each job that has passed a place in its work,
  what it found there (`TimeFits`, `DraftFits`). The checklist rests on counting
  (`Dense...`): positions without gaps and without repetition stay so when one is
  added, dropped or all are put in order, because each of these is one
  transaction over the whole list. A dataset: for every run, at every step of it,
  which outputs it has made, which of them carry two names, and which part of
  what it has read still stands (`RunSound`, `SealStands`). A run between its look
  and its removal owns what it looked at, unless something was changed by hand
  since (`calm`).
* `PlatformProofs` and `FormsProofs` prove everything `platform` checks, the first
  what is about the server, the second what is about the browser and the types.
  - Files: the order in which bytes, row, scan and clean-up come and go
    (`LifeSound`), how far a clean-up is unless somebody linked the file behind
    its back (`CleanSound`), and what a job that ended left and why
    (`EndSound`), for each file on its own; one job at a time runs (`OneJob`) and
    one upload owns a file (`UploadsSound`).
  - Accounts: sessions and requests in flight never carry a version newer than
    the account's (`SeenAtStart`, `AllLetIn`), so every advance of it cuts off
    all of them.
  - Administration: an approval keeps its parties and is never unapproved
    (`Steady`), so a third person stands behind every password issued under any
    overlap. Without overlap what a request checked is still so (`Standing`):
    another administrator remains, the account has no work but what was opened
    after its owner had left, the reset has not been issued (`Accounted` ties the
    number of passwords to the state of the approval).
  - Retention: a purge deletes by ids planned earlier, so these are kept disjoint
    from the rows on hold since the job read the holds (`Spared`), which needs
    that at most one job runs (`OneAtATime`).
  - Fields: once the options of the draft's project are there, its people are
    among them (`Offered`); its parent is in that project, and its relations are
    unless `odd` says otherwise (`InPlace`); one person has one role but for the
    creator (`OneRole`). So what the form lets through the server accepts, the
    known gaps aside.
  - The form: each submission is compared with every other one (`Submitted`,
    `Ordered`): a later one has a later key, or the same key and the same text, or
    something was changed in between; a task is made from a submission and once
    per key. `DraftKept` says that what is in the form is in local storage, or a
    timer will put it there, or saving has failed and said so. `FormNeverLeft`
    goes through the ways out of it.
  - The drawer: readings of the task only get newer (`Readings`), and what a form
    has written is shown or will be read (`Reread`). A request carries the number
    of what was typed, and that number is made once unless an answer was lost
    (`MadeOnce`, over `Requests`). `UntouchedFit` says field by field that what
    was not touched is as in the reading the form belongs to, with the three
    exceptions the code has. The drawer is proved for a user who uses any set of
    its forms, so both users of the run are covered (`NextOnForms`).
  - Types: the numbers that only a count bounds need that count: attempts of a
    job within its limit (`Tries`), versions of an account within the acts that
    advance them (`AccountCounts`), and a file's bytes in one directory at a time
    (`Places`).

Assumptions. Each is a named ASSUME, which the runs evaluate on their constants.
`ConstantsAssumption` of `JobQueue`, `FeedStream`, `TaskRecurrence` and
`TaskTree`: sets that are finite or disjoint where they are counted or told apart,
numbers in their ranges, and marks for "nothing" that are none of the things they
stand beside. `MCOffice`: the same for its marks, with finitely many users and
checklist steps. `MCConversations`: for a thread, finite users and slots and
founders within the limit (`ThreadAssumption`); for openings, stored direct
threads with distinct pairs (`OpeningAssumption`); for the feed, pages of at least
one item and an import whose places lie before the live ones (`PagesAssumption`);
for the window and the list, pages of at least one row, a search result in the
thread, and group threads among the threads (`WindowAssumption`,
`InboxAssumption`). `MCPlatform`: that `NoUser` and `Idle` are marks
(`AdminAssumption`), that a comment is not taken for its task
(`CommentsAssumption`), that the user is none of the colleagues and nobody is the
mark for no choice (`FieldsAssumption`), that the kinds of forms of the drawer are
told apart and what its fields start from, and what the input for the deadline can
hold, are values (`DrawerAssumption`), and that bounds are numbers
(`FormAssumption`, `CountsAssumption`).

Only model-checked: liveness (`LeasesRecovered` and `NothingElseLost` of
`queue_live`; the counterexample of `EachOccurrence`), which is out of the
prover's reach. Every invariant and action property of every passing run, and
the refinement of `DurableDelivery`, is proved.

## Not modelled

* Text, formatting, rendering, layout, focus, audit rows and search. Request
  validation by the contracts is modelled where a form is checked against it
  (`TaskFields`) and left out elsewhere.
* Permissions appear where a guard that races depends on them (managers,
  authors, members, administrators) and not otherwise.
* The lifecycle of documents: no operation sets a step of an instance DONE, so
  its completion always refuses (`docs/implementation-checklist.md:25` has it
  open); there is one transition to model.
* `readiness` of the import control always answers BLOCKED.
* Throttling of logins, exports, saved views, filters of lists, dashboards,
  analytics, the organisation chart and knowledge pages: queries, or rows that
  one user writes with single statements.
* Two windows that share the key of one draft, and the stack of overlays.
* Scripts, build and deployment files, tests.

`PROJECT.json` lists every component with its status and, where it is partial,
what is left out.
