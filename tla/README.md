# A verification project for the CN Squad back end

CN Squad is a NestJS server over PostgreSQL (TypeORM, `synchronize: true`) with
socket.io gateways: a company's staff register, projects and tasks, calendar,
chat, calls, and a dozen smaller office services. It runs as one Node process.
This directory models its core in TLA+, checks the models with TLC and proves
theorems about them with TLAPS. All paths below are under `src/src/`.

## 1. The system

### How it runs, and why it is hard to test

* **One process, many handlers.** A request or socket handler runs alone from
  one `await` to the next. Every database call is an `await`, and there any
  other handler may run. Nothing in chat, calls, the calendar or the office
  services uses a transaction or a lock.
* **Saves of loaded rows.** `repo.save(entity)` first SELECTs the row, which is an
  `await` of its own, and then UPDATEs the columns in which the entity differs
  from what it found. A row read before an `await` overwrites what was written up
  to that SELECT, and two saves that both look before either writes leave a row
  of both their columns. With `cascade: true` on a loaded collection the save also
  makes the collection's rows equal to the loaded ones: it inserts deleted ones
  again and unlinks new ones.
* **Memory beside the tables.** The gateways keep maps of sockets, calls in
  progress and ring timers; the calendar keeps one `setTimeout` per reminder.
  They are lost at a restart, and no code rebuilds them.
* **Check, then act.** Uniqueness (one read row per reader, one reference per
  ticket, one account per e-mail) is looked up first and inserted later, with or
  without an index behind it.

### Inventory

| Part | Code | State | Operations | What makes it correct |
|---|---|---|---|---|
| Calls | `calls/` | tables `calls`, `call_participants`; maps `activeCalls`, `callParticipantInfo`, `ringTimeouts`, `userSockets`; a timer per ringing call | initiate, accept, decline, end, add and remove a participant, disconnect sweep, ring timeout | a call rings, is answered or settled, never rings again; a ringing call settles; the maps and the tables agree |
| Chat: conversations | `chat/chat.service.ts` | `conversations`, `conversation_members`, `chat_messages`, `message_reads` | DMs, channels, send, reply, forward, edit, delete, members, mark read, leave | only members speak; removed means removed; `lastMessage` is right; deleted stays deleted; unread counts agree with the read pointer |
| Chat: presence | `chat/gateway/` | `userSockets`, `socketToUser`, `staff.isOnline`, rooms | connect, disconnect, join | `isOnline` exactly while a socket is open |
| Chat: scheduled messages | `chat/chat.service.ts:2490` | `scheduled_messages` | create, toggle, delete, 60 s tick | each is sent once in its minute; a toggle is not undone |
| Chat: threads, reactions, pins | `chat/` | one table each | toggle, reply, mark | one reaction per user, emoji and message |
| Calendar | `calender/` | `calender` rows with recurrence rule; reminder timers | create, update, remove, list with occurrences, reminders | nobody is booked twice; reminders belong to events that still stand |
| Staff accounts | `staff-register/` | `staff`, tokens, password, roles, soft deletion | create, register, login, reset, roles, delete, restore | a token works once; the deleted cannot log in; a role change counts |
| Permission guard, roles | `staff-register/guard/`, `roles/`, `permissions/`, `departmental-role/` | roles and their permissions | guard, edit | the guard lets through exactly what the roles allow |
| Admins | `admin/` | `admin` rows, CEO flag | promote, toggle CEO, login | at most one CEO |
| Departments, heads | `departments/`, `headofdepartment/` | rows | edit | a department has one head |
| Projects | `projects/` | `project`, assignments, comments, progress | create, assign, update, comment | status and progress agree |
| Tasks | `task/` | `task`, assignments, comments | create, update, bulk upload, delete, midnight job | the sprint gate; assignments survive an update; a project completes with its tasks |
| Leave requests | `leave-request/` | rows | create, update, decide | a decision is made once, balances add up |
| Tickets, pipeline | `ticketing/`, `pipeline/` | rows, activities, reactions | create, update, status, react | references are unique; who may close |
| Announcements, CEO messages | `announcement/`, `ceo-messaging-center/`, `message-ceo/` | rows and read rows | publish, read, reply | read and unread partition the audience |
| Notifications, settings, push | `notification/`, `notification-settings/`, `push-notification/` | rows, subscriptions | create, read, delete, subscribe | settings are obeyed; one endpoint, one user |
| Activity, quotes, birthdays, documents, hero content, demo, error log | own directories | rows | one row per request | nothing beyond the database's own guarantees |

The parts meet in three ways. Handlers of one gateway call the services of
others (`CallsGateway` reads a conversation's members; almost every service
calls notifications, push and mail after its own writes, and swallows their
errors). Tables are shared (`staff` is written by accounts, presence and
admin). And chat's service calls its gateway back to publish what it stored.

## 2. Plan

Each component is a module in the style of `Calls` and `Conversations`: tables
and maps as variables, a handler in flight as a record in `req[slot]`, one
action per database call. All parameters are constants, no module declares a
RECURSIVE operator, and invariants are conjunctions of named parts, so that
each module can be proved about.

| Order | Module | Composes / implements | Runs | Theorems |
|---|---|---|---|---|
| 1 done | `Calls` | service and gateway; implements `CallLifecycle` | race, serial, two disagreements | typing, columns, no second ring, a ringing call is timed, the maps, founding rows; implements `CallLifecycle`, table and map agree |
| 2 done | `Conversations` | service and foreign keys; implements `ChatRooms` | all operations, two disagreements | typing, `LastInside`, `OnlyMembersSpeak`; newest text, deletion, read pointers; implements `ChatRooms` |
| 3 done | `Calendar` | availability, recurrence, timers over the event table | bookings and timers, one disagreement | typing, double booking, own time, removals, reminders |
| 4 done | `StaffAccounts`, `Administration`, `StaffDirectory`, `ActivityLog` | accounts, presence and the CEO flag, which all write `staff`; the administrators' tables; the views | `staff` | typing, decisions stand, tokens, presence, namesakes, the views |
| 5 done | `Projects`, `Tasks`, `TaskViews` | two services over one shape of assignments; the views over both | `work` | typing, decided assignees, the sprint gate, linking, the views |
| 6 done | `Handlers` with `LeaveRequests`, `Tickets`, `Pipeline`, `Marks`, `Threads`, `ScheduledMessages`, `Notices` | the office services, the rest of chat | `office` | typing, leave, tickets and ideas, readers and reactions, threads, scheduled messages, notices |
| 7 | an end-to-end `Chat` | `ScheduledMessages` over `Conversations`' send, presence over `Calls`' sockets | | |

## 3. What is modelled now

### `Calls`, `CallLifecycle`

`Calls` is `calls.gateway.ts` over `calls.service.ts`.

* `call`, `part`: the two tables. A participant row is identified by its user
  and a number (the code may insert two rows for one user); `linked` is its
  foreign key, which the cascade of a stale `callRepo.save` sets to null.
* `active`, `roster`, `info`, `ringTimeouts`, `armed`, `room`, `sock`: the
  gateway's maps. `activeCalls` holds Set *objects*: `handleDisconnect`
  keeps one across an `await`, so `active[c]` says which object the entry
  is, and `roster[c]` keeps every object the call has had.
* `conv`: the members of the conversation, which other endpoints change or
  delete (`EditConversation`, bounded by `MaxEdits`).
* `req[s]`: a handler in flight: operation, the `await` it stands at, and all it
  has read. `Receive` starts one; `InitiateLoad`, `AcceptLoad` and so on are
  its steps. `endCall` and its callers share their steps (`Ending`), since the
  disconnect sweep calls it for every call of the user.
* `callRepo.save` is two steps. `LookAtCall` is its SELECT and keeps what it found
  to differ in `diff`: columns of the row, statuses and links of participants, rows
  to unlink. `SaveCall` writes that difference. `mixed` remembers the calls whose
  row, after such a write, is not the row that save meant, because another save
  wrote between the two halves: an accept and a ring timeout may leave an active row
  with an end time. `participantRepo.save` writes one column that matters, so it is
  one step.
* `Fault`, `Restart`: a handler is cut short; a restart clears memory.

`CallLifecycle` is what the calls component promises; `Calls` implements it
(`FollowsLifecycle`) when handlers do not overlap: model-checked in `calls_serial`, and
proved.

### `Conversations`, `ChatRooms`

`Conversations` is the core of `chat.service.ts`.

* `conv`, `member`, `log`, `read`: the four tables. `log` is in the order of
  `createdAt`; a message hard-deleted keeps its place with `conv = 0`. A
  conversation may be inserted again by a save after its delete, under a new
  id. A member row is identified by its user.
* The sending endpoints (`sendMessage`, `sendMessages`, `sendChannelMessage`,
  `replyToMessage`) differ in wording, mentions and attachments, none of which
  the properties tell apart; they load, test membership, insert and save the
  conversation in the same order and share `SendLoad`, `SendInsert`,
  `SendSave`. The map names one of them for each step.
* `SaveConv` is the cascade, `Resurrect` the save of a row that is gone,
  `Destroy` the delete under the foreign keys, `LeaveAllMessages` the delete
  that `lastMessage` refuses.
* `known` and `overlap` are history, read by no action. `overlap` becomes true
  when a request starts while another is in flight: five of the properties
  are what the code guarantees for requests that do not overlap, and say so in
  their first conjunct.
* Members of a direct conversation come and go like those of a channel: neither
  `addMembers` nor `removeConversationMember` asks for the type, and
  `createConversation` takes the type its dto names (`room.type` of the request).
  So a pair may well have two direct conversations, even without overlap, and
  none of the properties says otherwise; only `deleteChannel` asks for a channel.
* Left out: `deleteConversation` asks for the relation `members.staff`, which
  the entity does not have, so it always fails before it changes anything;
  `createConversation`'s test of the name (the model creates under an unused
  one); notifications and pushes after a send.

`ChatRooms` is the abstract specification: people enter and leave rooms, a
message appears once in one room and may be taken down, a room closes with all
it shows. `FollowsRooms` says that every step of `Conversations`, up to the
first overlap, is one of these.

### `Calendar`

`Calendar` is `calender.service.ts` with the availability and recurrence
services.

* `rows`: the table with its attendees; `used`: the ids drawn. `timers`: what
  the process has passed to `setTimeout`, with the attendees it captured.
  `now` moves only when no timer is due.
* A handler loads and validates (`Create`, `Update`, `Remove`), asks twice
  (`Query`, `Series`: `checkConflict` has one query for single events and one for
  recurring ones), saves, sends an e-mail that may fail without effect, and
  sets timers (`Schedule`). A new event is one `Insert`; the save of a loaded one
  looks at the row (`LookAtEvent`) and then writes the columns and attendees that
  differed (`Save`), which the keys may refuse, or which finds no row to update.
* Staff rows do not change here, so reading them is no step of its own. Two
  people with one name or e-mail are in `Namesakes`.
* A rule is its period, its count and its last moment. Package `rrule`
  anchors a rule without a start at the moment it is parsed, hence
  `Occurrences` counts from `now`; `exact` is the millisecond it drops.
* `later`, `set` and `mixed` are history: which events were saved after the check
  behind a row began, when the reminders of an event not edited since were set, and
  which rows are not what their last save meant to write: the columns of two updates
  are mixed in them.
* `Earlier` holds the rows that may be in the table when the process starts, one of
  them or none.
* Left out: the read-only views, the methods nothing calls, titles and colours.

What the code promises is weaker than one would like, and the properties say
how much: attendees can be double-booked, but only by two handlers whose checks
and saves cross, or by the mixed row of two updates, whose time and attendees no
check has seen together; a creator's own appointment without attendees is respected by
invitations that come after it, and not the other way round, because `create` asks
only about attendees.

### The staff side: `StaffAccounts`, `Administration`, `StaffDirectory`, `ActivityLog`

`Workplace` holds what these and the following modules share: the ids of staff,
the slots for handlers, the null value, pages and percentages. The four modules
share no variable and no handler of one reads what another writes, so `MCStaff`
explores one of them per behaviour (`scene`).

* `StaffAccounts`: `account` is table `staff` with the columns the code decides on
  (e-mail, password, the two tokens, roles, the CEO flag, `isOnline`,
  `deletedAt`). A secret is a number drawn once, so two passwords never
  coincide. `serving[s]` is a handler between its load and its save; it keeps
  the object it loaded, and `raced` notes every row that was saved from an
  object older than the row. `Register` spreads a body that nothing validates into
  the row, so it may give the CEO flag (`declared`) and roles. `sockets` and `status` are the gateway's map and
  the `updateOnlineStatus` calls nobody has awaited yet.
* `Administration`: six tables with their create, update and remove, their unique
  indexes where there are any, and the permission guard as a function of them.
  A create looks and inserts (`Insert`), an update loads, looks (`LookAtRow`) and
  writes what differed (`SaveRow`); a role that names permissions which are not
  there makes them first (`Permit`). Administrators come from `PromoteStaff`, linked
  to a staff row by a one-to-one index, and from `CreateAdmin`, `POST /admin`,
  which looks for the address only. `granted` is what the last request that named
  permissions gave a role, `blurred` the roles that a request saved as it had
  loaded them before another write, `excused` the names that crossing creates or
  updates have doubled.
* `StaffDirectory`: the date lists (birthdays, anniversaries; today, the week,
  the month) on a small calendar with leap years, paging, and workload figures.
* `ActivityLog`: the log's rows and the counts per day and week.

### Projects and tasks: `Projects`, `Tasks`, `TaskViews`

`assigned[i][u]` counts the assignment rows of an item, project or task: both
tables have the same shape, no unique index, and are rewritten row by row. A
list is an array of `{staffId, role}` that nothing checks for repetitions, so it
is modelled by its entries per staff id: `Once` is what a project makes of it
(the second entry of a person finds the row of the first), `PerEntry` what a
task makes of it (a row per entry).
A request with a list (`AskAssign`, `AskUpdateProject`, `AskUpdateTask`) goes
through `Sweep`, `Look`, `Put` (projects) or `Clear`, `SaveStaff` (tasks), one
database call each; `NotFound` is the staff id without a row that ends it half
way. `GateOpen` is `checkPreviousSprintStatus` with its filter on the new
task's department, `IsProjectCompleted` decides
whether a task is linked to a project or added to it, `Placed` where it lands.
`Tasks` extends `Projects`, so a task's gate sees the projects' rows, and the
removal of a project takes its tasks along. `TaskViews` has no action: it is
what the read-only endpoints compute (progress, dashboard, pages, completion
level, the midnight job's choice), and `WorkViewsAgree` relates the answers to
each other on every reachable state.

History: `decided` is the last list a request gave, `crossed` the items on
which a list met another request or failed. A crossing is excused, since the
code undoes one of the two; everything else is not.

### The office: `Handlers` and seven services

`Handlers` is the one shape of these services: a request reads, awaits and
saves. `desk[s]` is the handler in a slot with the thing it works on, `calls` the
requests left, `crossed` the things two handlers were at together. The seven
modules share no table; `MCOffice` explores one of them per behaviour, with its
own number of requests (`Most`).

* `LeaveRequests`: `leave` rows; edits by the applicant, whatever the status, and
  decisions from any status to any other. The body of an edit is JSON that
  nothing validates, so it may name a status, a reviewer or the computed length
  (`stated`). The save is two steps, `LookAtLeave` and `SaveLeave`: the write
  carries the columns, and the rows of the join table of supervisors, that
  differed at the look (`Merge`, `Written`); `mixed` remembers the rows written
  between the look and the write of another save. The handover a request names
  on an edit is not written: the row is loaded with the relation, which TypeORM
  takes before the column.
* `Tickets`, `Pipeline`: rows, the tickets' log in order, references drawn from
  the number of rows (`NextRef`) under a unique column. A department may have
  several heads or none: all of them receive its tickets, one (`FoundHeads`, a
  `findOne` without an order) is told.
* `Marks`: the rows that say yes for one person: readers of announcements and
  CEO messages, reactions to ideas, comments and chat messages. `Refused` says
  what an index or a foreign key does; only the readers' tables have one that
  works.
* `Threads`: replies and `lastReadAt`. `sendThreadReply` marks the thread as read
  after its pushes, so its steps are the row, the look-up, the save.
* `ScheduledMessages`: the 60 s tick over the rows it loaded; a send may fail
  before or after the message was inserted, the save of the row follows, a
  restart may cut in. Days stand for the minutes of the schedules: a tick falls
  into the minute once, twice (the timer drifts) or not at all.
* `Notices`: settings, notices and what they tell. `CheckSettings` is one look-up
  per recipient, `SaveNotices` the save of all the rows; `steady` remembers
  whether a setting changed meanwhile. Announcements, CEO messages and replies
  all go through it. Push subscriptions are here too.

## 4. Runs

| Run | Question | Result |
|---|---|---|
| `calls_race` | two overlapping handlers, three messages, two sockets, disconnects and the timer at any await | columns agree but for rows that two saves mixed, a ringing call is timed, maps in step, founding rows stay linked, no second ring |
| `calls_serial` | one handler at a time, every message, with a database error, a restart and an edit of the members | implements `CallLifecycle`; table and map agree; a ringing call settles |
| `calls_timeout_race` | does the timeout ever mark an answered call as missed? | yes: violation of `AnsweredIsNotMissed` |
| `calls_empty_group` | does a group call end when nobody is in it? | not always: violation of `GroupEndsWhenEmpty` |
| `conversations` | all thirteen operations: four requests one after the other, or three that overlap, and one failure | eight properties hold |
| `conversations_removed` | is a removed member out? | not always: violation of `RemovedStaysOut` |
| `conversations_empty_dm` | is a DM gone when both have left? | not always: violation of `EmptyDMIsGone` |
| `calendar` | two events, two handlers, three requests, a clock, timers and a restart | double bookings are races or mixed rows, own time is respected, reminders match unedited rows, removals last |
| `calendar_reminders` | do reminders go out before the start of the event? | not after a move or a removal: violation of `ReminderOnTime` |
| `staff` | accounts, presence, administration, lists and counts, one per behaviour | an account changes back only by a stale save; a reset token works once; `isOnline` is right but for crossings and restarts; names are doubled only by crossing creates and updates; a role opens what it was last given; the views agree |
| `work` | a project, two tasks, lists with a person named twice and a missing person, a department, two handlers | assignment rows are those the last list asks for, the sprint gate and the linking hold but for crossings; the views agree |
| `office` | seven services, one per behaviour, two handlers | durations and decisions, references and logs, readers and reactions, threads, scheduled messages, notices under settings |

**Bounds.** Calls: one call row (the component keeps nothing across calls), two
or three users, two sockets, two slots. Two handlers are enough for every
hazard listed, each of which is one stale snapshot against one writer, and
three messages let a third one (add, end, decline) act on what the pair left.
`calls_race` leaves `kick` to the serial run. Conversations: two users, since
what is special about a third one (a bystander) is what a conversation
between the other two shows; two rows of `conversations`, so that a
message may be forwarded and a deleted conversation inserted again; three messages, so
that "newest" differs from "last saved" and "last text". Four requests reach
create–send–forward–mark and write–mark–delete–mark; the overlapping behaviours
are bounded to three (`MaxRaced`). Calendar: two staff, one to invite the other;
two events, since a conflict is a pair, and one of them may be from before the
start; three requests, so that a third one
moves, turns into a series or removes what two others booked in a race, or two
updates cross on an event that one has created; times
up to 4 and a clock to 2, so that one booking lies further off than `MaxDelay`
and one start passes. Two ticks make a day and a daily series repeats twice.
Staff: two people and two handlers, since every hazard is one stale object
against one writer; three requests, so that a removal or a reset can fall
between a load and a save and be seen afterwards; five secrets; three years, of
which one is a leap year. Work: requests are two, on top of all initial
placings of the people on the project and of a first task of a department,
which stand for the requests before; statuses are the two
ends of the gate and "completed". Office: three requests for most services, four
for marks and threads (two that cross, one before, one after), five for ideas
(three filings, a removal, a filing); three days, a week being seven, so a
weekly message meets its day once; three ids of tickets, four of ideas.
Symmetry is used over users, events and slots, which
no action tells apart; the only liveness property is in `calls_serial`, without
symmetry.

**Deadlock** is not checked: behaviours end when their bounded requests are
handled, and an idle server is not stuck.

**Fairness** (`FairSpec` in `Calls`): weak fairness of each handler's next step
and of each armed timer. A database promise settles, by value or error, and
Node's event loop then runs the continuation; timers fire. Nothing is
assumed of clients, errors, restarts or the order of handlers. `RingingSettles`
excuses behaviours with an error or a restart: timers live in memory, and
after a restart nothing settles a call that was ringing.

The other components have no liveness property: their handlers answer once,
and what must happen afterwards (a reminder, a tick) is lost at a restart.

**Exceptions.** Many properties leave out a case and name it: `crossed`, `raced`,
`excused`, `blurred`, `declared`, `unsure`, `gap`, `emptied`, `stated`, `mixed` are history variables that no guard reads.
Each stands for a hazard the code does not handle (PROJECT.json, `hazards`), and
is as narrow as TLC allowed: without it the run finds a counterexample.

**Disagreements with the code's own comments.** Each violation run checks one
sentence of the source: the 30 s timeout comment (`calls.gateway.ts:196`), the
empty group call (`calls.service.ts:149`), the answer of
`removeConversationMember` (`chat.service.ts:2402`) and the DM that both left
(`chat.service.ts:1673`), and the reminders before the event
(`calender.service.ts:394`). PROJECT.json gives the cause at its line.
Four more are findings of reading and modelling without a run of their own:
nobody can comment on a personal task, ideas cannot be filed after a removal,
the index on reactions refuses nothing, an update of a quote drops its files.

## 5. Proofs

Every theorem is proved for all values of the constants: any number of users,
rows, handlers in flight, requests, errors and restarts. Only the two theorems of
`CallsSerialProofs` are about one handler in flight, because the code keeps what they
say for that case only. What is assumed of the constants is in the module that
declares them, and the runs evaluate it.

| Assumption | Says |
|---|---|
| `CallsAssumption`, `CalendarAssumption` | the constants have their types; the null value is none of the data |
| `ConversationsAssumption` | the requests are of the endpoints modelled; the bounds are numbers |
| `AccountConstants`, `StaffIsFinite` | the staff are finite; the null value is no person and no address; the bounds are numbers |
| `AdminConstants` | there is a name, and finitely many; the null value is no name and no list of names; a table has a row, and the bounds are numbers |
| `DirectoryConstants` | years are numbered from 1; a month has a day and a week has one; nobody need have assignments, and their number is one |
| `LogConstants` | the lengths of days and weeks and the bounds are numbers |
| `LeaveConstants`, `IdeaConstants` | finitely many ids; days are integers; the null value is no set of requests |
| `TicketConstants`, `ReplyIds` | ids are numbers from 1 (`@PrimaryGeneratedColumn`), finitely many tickets; the null value is no person |
| `WorkConstants`, `TaskConstants` | the staff are finite and the missing person is none of them; a list counts its entries; ids of tasks and numbers of sprints start at 1; ids of projects are none of tasks; the statuses in requests are statuses; the null value is no id, list, sprint or status |
| `ViewConstants` | finitely many projects; the ids of tasks are 1 to their number (the model's table of tasks); the horizon is a number; the null value is neither of two words the views answer with |
| `ScheduleConstants` | the null value is no schedule; days are numbers |
| `NoticeConstants` | finitely many ids, which are numbers; the null value is no setting and no row of settings |

The invariants have one idea in common: a model of stale saves is proved correct by
saying what each handler in flight *carries*. Hardly any property below is
inductive as it stands, because the next save writes what was read long before.

### Numbers and finite sets (`Counting`)

What several components need, without an induction schema: well-founded strict
inclusion gives a family of subsets a least one (`LeastInclusion`). So a bounded set of
numbers has a greatest element, and what holds from each number to the next holds up
to any (`UpTo`). `MapThenSumSet` is a recursion over subsets; the sizes of
disjoint parts solve it, and it has one solution (`SumOfParts`). From that follow the
sums of two sets and of bounded numbers (`SumOfTwo`, `SumAtMost`).

### Calls (`CallsProofs`)

* `TypeCorrect`: the invariant is `Typed`, `TypeOK` with what a handler's
  operation says of the names it carries.
* `ColumnsCorrect`: adds `GoodRequest` of every handler: the row it carries agrees
  with itself. A row that is not `mixed` is, after each write, the row the handler
  meant, which was right once and was edited by one of the four edits that keep the
  columns together (`WrittenRows`).
* `NoSecondRing`: a row about to be saved no longer rings, whichever of its columns
  are written; and `UnbornOK`: a call
  id whose row is not inserted is known to the handler that creates it only.
* `InfoFollowsRoster`: inductive beside `Typed`. Whoever enters
  `callParticipantInfo` is in the entry of `activeCalls` in the same step, and
  both leave in one step.
* `RingIsTimed`: `ClearsOK`, that a handler which will stop a timer works on a call
  that rings no more, and `RosterBorn`, that only inserted calls have entries.
* `FoundersKeepRows`: `CrewOK`. The founders are linked to the call, a call that a
  handler can reach has all its founding rows, and a handler that saves a call
  back carries them all, so no difference it found unlinks one (`Cascades`).

### Calls, one handler at a time (`CallsSerialProofs`)

Both theorems assume `OneHandler`, that there is one slot, as in the run
`calls_serial`; users, calls, messages, faults, restarts and edits of the
conversation are any number. With two slots TLC refutes both within seconds: the
disconnect of a user crosses his accept, and the one's save is over the other's.
* `FollowsTheLifecycle`: `TablesTidy` says that a call's rows are linked and one for each
  user, `HandsOK` that the handler carries the rows as they are, but for the
  change it is about to save (`InHand`), and that the difference which a save found
  is exactly that change (`Exact`). So each database call `Moves` a call in
  one of three ways: not at all, by one participant's row (`RowWritten`, which is
  the abstract `Join` or `Leave`), or by the call's own row (`CallWritten`, one of the
  `Turns` `Ring`, `Answer`, `Miss`, `Decline` and `End`). `MovesLive` shows each to be that
  step of `CallLifecycle`, guard included: that a group call which ends is empty,
  and that a call which is missed still rings.
* `JoinedInRoster`: `RosterOK` is the property between database calls. Who is JOINED is in
  the entry, or is the user whose accept is about to put him there (`Late`), or
  the entry is what the handler at its tail will still do with what it has read
  (`OnTheWay`, `Asked`). It needs that whoever was told of a call finds an entry
  (`Announced`), and that entries are of inserted calls (`RosterBorn`).

### Calendar (`CalendarProofs`)

* `NoQuietDoubleBooking`, `OwnTime`: `HandlerOK` says that every event in a
  handler's way now is in `wrote`, the events saved since its question, and
  whoever its row invites was among those it asked about. Another
  handler's save enters `wrote`, and a removed row is in nobody's way. `Puts` is the
  only step that books: unless the row it leaves is mixed, it is the row its
  handler has asked about.
* `RemovalStays`: an action property. Once removed and in no handler's hands, an
  event is in no later handler's hands, since a load finds rows only.
* `RemindersTrue`: `RemindInv` adds that only the handler which created an event
  sets its reminders, and does so once; until then the event has none.

### Conversations (`ConversationsProofs`)

* `TypeCorrect`, `LastInsideAlways`, `OnlyMembersAlways` hold in every
  interleaving. `HandlersOK` says what a handler knows at each `await`: the
  message it has posted is in the conversation it will save (or both are
  gone), and its user has been a member (`known`) of the conversation it will
  write to. Rows of `member` change freely; `known` only grows.
* Its second half is about behaviours up to the first overlap.
  `SerialInv` is the invariant above and, until `overlap`, that one handler is in
  flight (`Alone`), that what it has loaded is the row as it is
  (`HandlerCurrent`), that the tables agree (`DataOK`), and that `lastMessage` is the
  newest text but for the conversation the handler will save (`Showing`).
  From it: `NewestTextShown`, and the action properties `NoReturn`,
  `MarkReadsAll` and `PointerForward`.
* `ImplementsRooms` is the refinement: `Conversations` implements `ChatRooms` until
  requests overlap. Each database call is shown to be one of the abstract
  steps (`KeepsRooms`) or to leave members and visible messages alone.

### Staff (`StaffProofs`)

* `DecisionsStand`: `ObjectsCurrent` says that the object of a handler that is not
  stale equals the row but for its own change; `OneChief` that the handler which
  took the flag from the others gives it to one. Rows registered with the flag
  (`declared`) are not among those.
* `TokensWorkOnce`: `TokensOwned` (a secret is one user's, and was drawn) and
  `TokensSpent` (a used one is in no row but a raced one).
* `PresenceIsTrue`: the last `updateOnlineStatus` under way is the truth, or there
  is none and the column is.
* `NamesakesExcused`: `LookupsHold` says that what a create did not find is not
  there, unless a write crossed it; `RowsKept` what a handler knows of its row.
* `RevokedStaysShut`: `RolesKnown` says that a handler which names permissions
  carries just those, and one which does not, and which no write of the role has
  crossed, carries those of the row; so a role that is not blurred grants what it
  was last given (`GrantsHold`). The write carries differences, so it also needs
  that what the handler saw at its look is still the row's.
* `OccurrencesRight`: a day that is no leap day is in every year, so the constructor
  of dates carries nothing over (`EveryYear`), and of this year's date and the next
  one's exactly one is the first from today on.
* `SessionsRight`: rows are of the past, so the session of a new row is not
  negative; the newest login is the greatest of finitely many numbers
  (`GreatestNumber`).
* `WeekRight`: days are numbered in their order (`EarlierIsFewer`), and every number up
  to the last day's is a day's (`NumbersAreDays`, from `DayAfter`). So a week is the
  days from its first to its last, and when both are in one year, so are all its
  days, and comparing month and day is comparing dates.
* `PagesRight`: a rate is 0 to 100 (`RateIs`), so in one range (`OneRange`); the rows a
  range keeps are those in it, each once (`ListedIs`); and row `k` is at one place of
  one page (`PageOf`, `PlaceOf`), which is a bijection from the rows to what the pages
  show (`PagesShow`). Page sizes are 1 to 3, as in the property.
* `CountsRight`: an hour is in week `q` exactly if its day is one of that week's
  (`DaysOfWeeks`), so the rows of a week are cut into those of its days, and all rows
  into those of each person. The sizes of the parts sum to the size of the whole
  (`SumOfParts`).
* `ViewsAreRight`: `ViewsAgree` from these, `OccurrencesRight` and `SessionsRight`.
* `StaffTypeCorrect`: each behaviour of `MCStaff` is a behaviour of all four components
  (`EveryComponent`), so each component's invariant holds in it. The other
  theorems are of the components' own specifications.

### Projects and tasks (`WorkProofs`)

`Sound` types the tables and says what a handler is at each `await`: which
operation and item, which list is left to do. Three invariants rest on it.
* `WorkTypeCorrect`: `Sound` implies the types, action by action.
* `AssigneesDecided`: `Deciding` says what each handler at an item that is not crossed
  has done of its list, and that it is alone there, or nobody at the item has a
  list (`Apart`). A handler without a list saves the rows it loaded, which are
  still the rows; that a project has at most one row of a person then
  (`OneEach`) makes the comparison of `updateProject` exact (`MaySameIs`: as many
  entries as rows, all of them named). `DecidingMove` is the step lemma: whatever a handler does to
  its own item is quiet everywhere else.
* `SprintsStayInOrder`, `CompletedWorkStays`: `InSight` says what a handler that no
  other request's write has made late still knows: the gate it found open is
  open, the project it found incomplete is incomplete, the task it inserted
  has nobody yet and is the newest. Writes make every other handler late, so
  a step has to show this of its own handler only; and a step after which nobody
  holds more tasks than before keeps the order (`SprintsKept`).
* `WorkViewsFit`: the progress of a project is a rounded mean of numbers up to 100, of
  which a task that is not done has 80 at most (`ProgressIs`); so one such task in
  fewer than forty keeps the mean below 99.5 (`MeanIs`). With forty it need not:
  that bound is in the property. A member's rows are a sum over live tasks, which
  the groups of statuses divide (`DashboardAddsUp`); a list has as many places as
  there are rows (`ListingLength`, task by task), and its pages cut it into
  intervals (`PagesAddUp`). Page sizes are 1 and 2, as in the property.

### Office (`OfficeProofs`)

Stated of `MCOffice`'s specification. The services share no table, so the
invariant has one part per service, and `OfficeInv` picks the part of the
service whose scene it is.
* `Alone`: two handlers at one thing have crossed it. So a handler at an uncrossed
  thing has read the row as it is now, and every service's invariant says what
  it therefore saves: `GoodMark`, `GoodThreadHandler`, `GoodLeaveHandler`,
  `GoodClerk`, `GoodIdeaHandler`.
* `SentOnce`: a tick that holds a schedule holds the row as it is, or the schedule is
  `unsure`.
* `MarksAreRight`, `LeaveIsRight`, `RefsAndLogsRight`: the rows as above, and counts. A
  row of leave that is not `mixed` is what the save with the last write wanted, since
  nothing was written between that save's look and its write, and what every save
  wants has the length of its dates unless the request stated one. In
  a ticket's case the invariant says that the log's newest status is the row's, or
  that its one handler has the line in hand that will make it so.
* `NoticesAreRight`: an action property, of three services. `FitIsOn` says that whom
  a handler has found fit was not muted ever since it began, and `GoodTeller` that
  the notice a handler will remove is read and the letter it will save has the
  reply there is, unless crossed. New notices get ids above `issued`, and a
  handler's notice is not above it, so what is in hand is never overwritten.
* Counts: statistics count disjoint parts (`SumOfParts` of `Counting`).
* `OfficeTypeCorrect`: `DeskOK` says what every handler is, and its service's part
  (`PlansTyped`, `TicketTyped`, `LeaveTyped` and the rest) what its rows are and what
  its handlers carry. Three parts are more than a type. No schedule ran after today,
  and no tick holds one that did (`PastPlan`). References are bounded because the ids
  they are counted from are. And comments are within a behaviour's requests because
  of `CommentBudget`: the comments there are, the handlers about to insert one and the
  requests left never sum to more.

### Only model-checked

* `RingingSettles`: liveness under fairness is out of this prover's reach.

## 6. Not modelled

* The components marked `not_modelled` in PROJECT.json: birthdays, documents, hero
  content, product demos, the error log and quotes write one row per request
  that nothing else reads; bootstrap, configuration, uploads and the error
  filter keep no state.
* Pins, mentions and attachments of chat; comments of projects and tasks; the
  notices of the pipeline to a department.
* Methods no route calls (`creates`, `markAsReads`, `getReadersy`, `updateOld`,
  `updated`, and the like), mail templates, file uploads, the socket relays of
  WebRTC signalling and media controls (they store nothing), history queries
  beyond the counts, DTO validation.
* Three hazards of the calendar have no property: a generated rule has no DTSTART
  (`recurrence.service.ts:111`), an update drops the UNTIL part that `create`
  appended (`calender.service.ts:299`), and every update of a series sets its
  notices again (`calender.service.ts:361`). They are what the code does
  whatever happens, and are modelled in `Occurrences`, `Edited` and `Schedule`.

TypeORM and PostgreSQL are not in the repository. They are modelled from how
the code uses them, and marked external: what `save` writes, cascades, which
foreign keys refuse a delete, and that one statement is atomic.
