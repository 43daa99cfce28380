# Sprino in TLA+

Formal models of the Sprino server (`apps/server`), the reference implementation
of the Tessera task protocol: what its services do to one Postgres database when
many clients call at once, retry, time out, and when the server dies in between;
and of the part of its web client that follows the server's events.
The models are checked with TLC on small instances; the theorems about them are
checked with TLAPS for every value of the constants.

- `*.tla` without prefix: the models. `MC*.tla`: instances for TLC. `*Proofs.tla`: proofs.
- `*.cfg`: one per run. `PROJECT.json`: components, runs, the mutants that show
  that each property can be broken by a bug in the code, the code lines each
  definition stands for, hazards, findings and theorems.
- Paths below are relative to `src/apps/server/src` unless they say otherwise.

## 1. The system

Clients (agents over MCP, a web board and scripts over HTTP) call *verbs*. An
adapter parses the request, authenticates the bearer token, resolves the workspace
and calls a *service* function. Services keep all state in Postgres (READ
COMMITTED, row locks where they ask for them); the process keeps none that
matters but tickets for streams. Other processes beside the server are the
boot-time seed and two cron scripts. So every concurrency question is about how the SQL
statements of several calls interleave, and every failure question about where a call stops between two
commits.

| Component | State | Operations | Hard about it | What makes it correct |
|---|---|---|---|---|
| Task verbs `service/tasks.ts` | `tasks`, `events` | create, update_status, update, transition, set_points | same version sent by several clients; gates that read other rows; timestamps taken before waiting | no lost write; status is the replay of the events; one winner per version |
| Idempotency `service/idempotency.ts`, `scripts/cleanup-operations.ts` | `operations` | lookup, record, expiry, purge | a retry in flight beside the original; crash after commit; retry after the purge | an operation takes effect once; a replayed answer is the true one |
| Automation `service/automation.ts` | `automation_rules` | create, delete, fire inside a verb's transaction | rules that set off each other; a rule that fails | bounded chaining; a failing rule takes the verb with it |
| Hierarchy, dependencies `service/tasks.ts` | `tasks.parent_task_id`, `task_dependencies` | set_parent, add/remove_dependency | no lock around the walks; `addDependency` has no transaction | both graphs acyclic, depth bounded, the log accounts for every edge |
| Board order `service/tasks.ts` | `tasks.rank` | reorder; create and transition take the next rank | sorted snapshot, then row locks; deadlocks | a column's ranks stay distinct; a task lands behind its anchor |
| Actors, credentials `service/actors.ts`, `auth/registry.ts`, `auth/middleware.ts` | `actors`, `actor_tokens` | register, revoke_token, rotate_token | locks in opposite orders; a guard over a set of rows | somebody can sign in; revoked means revoked; a token is told once |
| Agent lifecycle `service/agent-lifecycle.ts`, `agents.ts`, `db/seed.ts`, `scripts/cleanup-agent-sessions.ts` | `actors.lifecycle_state`, `last_heartbeat_at`, tokens of the environment | heartbeat, deactivate, expiry job, seed at boot | job against a heartbeat; seed is not one transaction | inactive is final; no live agent is expired; a boot puts the tokens in order |
| Sprints `service/sprints.ts` | `sprints`, `sprint_tasks` | create, activate, close, assign, remove | checks by plain reads, carry-over without task locks | one active sprint; a task in one open sprint |
| Workspaces, entitlements `service/workspaces.ts`, `entitlements.ts`, `projects.ts` | `workspaces`, `workspace_members`, plan limits | create, add, remove, project creation | counts read outside a transaction | an administrator remains; limits hold |
| Attachments `service/attachments.ts`, `service/attachments/*` | `attachments`, files | create, upload, finalize, download | bytes and row are written separately | a ready row has its bytes, and they never change |
| Event stream `adapters/http/sse.ts`, `service/events.ts`, `auth/stream-ticket.ts` | cursor per connection, tickets in memory | ticket, connect, replay, poll, resume | ids are made before commit; ordering by time, filtering by id | no event skipped; a revoked actor's streams end |
| Activity feed `src/apps/web/src/components/ActivityFeed.tsx` | list shown, `EventSource`, timer, all in refs | load, open a stream, fall back to polling, switch projects | answers for a project that is no longer shown; a stream lost sight of | it shows the project selected, without repeats, and never stops for good |
| Adapters `adapters/http/routes.ts`, `adapters/mcp/server.ts` | none | parse, authenticate, format | — | only as the place where a call arrives and is answered |
| Schema, migrations, boot `db/*`, `main.ts` | — | start-up | — | keys and indexes the services rely on |
| Audit export, telemetry, query language, pagination | none / counters | projections, parsing | — | — |
| The web client's other views, operations scripts | — | — | — | — |

Interaction: the task verbs, the graph verbs, the board and sprints all write rows
of `tasks`; a verb that takes an `operation_id` records it in `operations` in the
transaction of its effect (not so the graph verbs, `rotate_token`, heartbeats, workspace
members and sprint assignments); automation runs inside
the transaction of the verb that set it off; every verb refers to `actors` by a
foreign key; the event stream reads what verbs have appended to `events`, and ends
when the token of its actor is revoked; the activity feed asks for tickets, opens
streams and lists the newest events.

## 2. Modules

```
TaskLedger        what a client that retries is promised (abstract)
   ^ refined by
TaskService       task verbs + idempotency + automation + crashes    <- MCTaskService
   ^ extended by         ^ both proved about in  TaskServiceProofs
TaskGraph         graph verbs beside the task verbs                  <- MCTaskGraph
Board             reorder beside creations and transitions           <- MCBoard, BoardProofs
Credentials       register, revoke, rotate                           <- MCCredentials, CredentialsProofs
Sprints           create, activate, close, assign, remove            <- MCSprints, SprintsProofs
Workspaces        workspaces, members, projects, plan limits         <- MCWorkspaces, WorkspacesProofs
Attachments       reserve, upload, finalize, download                <- MCAttachments, AttachmentsProofs
Agents            heartbeat, deactivate, expiry job, seed at boot    <- MCAgents, AgentsProofs
EventStream       tickets and streams over the log of events         <- MCEventStream, EventStreamProofs
   ^ extended by
ActivityFeed      the web client's feed, a client of EventStream     <- MCActivityFeed, EventStreamProofs
```

**A common reading of the code.** A *call* is one arrival of a request at a handler;
a client that retries makes a new call with the same `operation_id`. `pc[c]` says
which statement the handler of `c` is at. One action is one SQL statement, or
several that no step of another call can tell apart. What a transaction has written
is invisible to others until its commit, so writes are gathered (in `txn[c]`, or by
the call's place in its handler) and applied by one commit action. Row locks are
variables; a statement that must wait has a guard that is false. READ COMMITTED is
modelled by what Postgres does: each statement reads what is committed when it
starts, and a row for which a locking statement waited is taken as it has become
and dropped if it no longer qualifies. `Crash` stops every handler in flight and
rolls back what was open; committed rows stay; the client is never answered.
Ids that the code makes with UUIDv7 are numbers where their order matters and
model values where it does not; one made for a new task is one that no request in
flight names (`Unheard`).

The requests of a module are one set of records per verb, `Refusals` the errors that
the service throws and that the adapters' tables (`errorResponse` of the routes,
`translateError` of the MCP server) turn into answers; the type invariants say that
every call ends with one of them. Names in the sentences below are those of the
modules; `PROJECT.json` "map" gives the lines of each.

**TaskService.** `rows`, `log`, `ops`, `deps`, `rules` are the tables; `rowLock` is
`FOR UPDATE`; `clock` is the server's clock, advanced whenever a handler takes a
`Date`, of which a handler takes the first before it waits for its lock. Real dates are
milliseconds and may tie, as the one of a verb and that of its rule
(`service/automation.ts:139`); `EventsInTimeOrder` therefore asks for order up to ties.
Each call has the requests it may make (`Requests`); rules exist from the start
(`Configured`) or come and go (`Managed`).
`Submit` is the arrival with any `if_match` the task has had. `CheckHit` /
`CheckMiss` are `checkIdempotency`; `LockMissing`, `LockRefused`, `LockTask` the
`SELECT ... FOR UPDATE` with the comparison of versions and the checks that need only
the row; `CheckDependencies`, `CheckChildren` the two gates, one read each;
`RefuseWrite`, `CreateTask`, `WriteTask` the writes with `recordOperation`, whose
primary key waits for, or fails on, another call with the same operation;
`FireStatusRule`, `FireAssigneeRule`, `RuleFails` one firing of the agenda of
`fireAutomation` (depth limit 2); `Commit`; `Abort` with `RecheckHit` / `RecheckMiss` the
`catch`; `Expire`, `Purge` the passage of 30 days and the cron; and the two rule verbs.
The texts of a task, points and context are left out (`set_points` and context edits
are writes with an event and no field); ranks are Board's.

**TaskLedger** is the promise to a retrying client: an operation takes effect in one
step, at one place of one task's history, and leaves a receipt; whoever is told of
success is told that place; while the receipt is kept the operation has no effect
again. `TaskService!ImplementsLedger` maps `log`, `rows`, `ops` and `answer` onto it.

**TaskGraph** extends TaskService with `setParent` (reads without locks, then one
transaction), `addDependency` (no transaction: insert, block, log commit one by one)
and `removeDependency` (locks, unblocks when nothing is left to wait for). Any number of
clients edit the graphs. A walk over the graph is one step although the code issues one
query per node; whatever is written between its queries counts as having overtaken it.
Three history variables say where the code gives no guarantee, and nothing else is
exempted: `overtaken` are the calls since whose arrival another has written the
graph that they walk; `crossed` says which verb has then written on such a walk, or has
put a task under itself; `untold` are the edges that a crash or a removal found
between their insert and their event.

**Board** models `reorderTask` lock by lock: the target's lock, the snapshot sorted
by rank, the lock of each row in that order with the recheck of its column, the
anchor, the renumbering and commit. *Movers* are `createTask` and
`transitionTaskWorkflow` reduced to column and rank: they read `MAX(rank) + 1`
without a lock and write it at their commit. `raced` marks columns where the code does
not keep ranks distinct. Either two movers entered at once and took the same rank. Or a
task left the column and came back (`Returns`) while a reorder that had seen it there waited
for its row: Postgres takes the row as it has become, so the reorder numbers it with the
others, and hands out a rank more than there were tasks in the column when somebody entered
at its bottom.

**Credentials** models the three verbs on tokens statement by statement. `Blockers(c)`
says whom the next statement of `c` waits for: the holder of a row lock, whoever has
written the row or inserted an equal key, and the holder of `FOR UPDATE` on a row a
foreign key refers to. Every waiting action has `Free(c)` as its guard, and
`Deadlocked` is defined from the same relation. A call makes at most one actor and
one token, so they carry its number. The read of the caller's row happens at the
arrival and the foreign key with the commit that follows it; neither can be told
apart from the code's order, as kinds and roles never change and nothing but the
commit follows the key.

**Sprints** models the five verbs on sprints in the same way. The foreign key of
`sprint_tasks` matters: `InsertMember` inserts, `ReferToSprint` waits for whoever holds
the sprint `FOR UPDATE`, and until its commit the call holds off a close (`Blockers`).
Task verbs appear as `ChangeStatus`, since a close reads only whether a task is done.
`beside[c]` remembers which calls were past the check that `c` has just made and had
not committed. `removeFromSprint` is two steps with a crash possible between them. The
code has no guard on `starts_on`, though the D4 design lists one (`:124`), and takes no
notice of the `operation_id` of an assignment; the model follows the code.

**Workspaces** models `addWorkspaceMember` and `removeWorkspaceMember` read by read:
they have no transaction, so `ReadCaller` (`workspaceAuth`), `ReadTarget`, `ReadSeats`,
`CountAdmins` and the final `Upsert` or `Delete` each see what is committed by then.
`createWorkspace` and `createProject` insert in one transaction, waiting for a call
that has inserted an equal key; the limits of the plan are counted before it.
`stale[c]` is history: another call has written, since the reads of `c`, the rows those
reads were about. The plan of every workspace is one pair of numbers.

**Attachments** keeps the row (`slots`) apart from the file on disk (`file`). An upload
locks its row, empties the file, writes it and commits, a file that is written not
being rolled back; `FailWrite` is a full disk. `finalize` looks at the row and at the file without
a lock; its transaction begins with the `UPDATE`, which waits for an upload that holds the
row and does not look at the file again. `excuses[s]` is history: the write of the file broke off, or
an upload emptied it between finalize's look and its update.

**Agents** models `recordHeartbeat` (one transaction with a row lock, its time taken
before it waits), `deactivateAgent` (idempotent like the task verbs),
`expireStaleAgents` (one `UPDATE` whose rows are locked in table order and looked at
again) and `seedFromEnv`, statement by statement: upsert of each actor, its token
looked up, its other tokens revoked, the token inserted, and last the tokens revoked
that the environment no longer has. `Die(c)` ends one process only, since boots and the
job run in processes of their own. `clock` counts in units of which the time to live has
`Ttl`; `heard` and `alone` are history.

**EventStream** models the log as what a stream can tell apart: `TakeTime`, `MakeId` and
the commit of each event are separate steps, so ids, times and commits come in any order.
One connection asks for a ticket, is admitted (ticket valid, actor still with an
active token, cursor from `Last-Event-ID` or the newest event), replays up to
`ReplayLimit` rows and polls: the check of the credential, the query, the rows, the
sleep. The code lets a ticket be used again while it is valid, for 60 seconds; here a
connection that comes back asks for another, which it can at any time. A query may fail (`hiccups`), the client may go away at any step.

**ActivityFeed** extends it with `ActivityFeed.tsx`. A callback of the component is one
step up to its next `await`: `initialLoad`, `openSse` with its request for a ticket, the
handlers of the `EventSource`, the polling timer, unmounting, and the effect that runs
when the user picks another project (`Select`) or none (`Deselect`). A feed that shows no
project, or is unmounted, still gets the answers it has asked for: a load that fails then
starts the timer (`StartPolling`, which does not look at `cancelledRef`), and of
a feed that is unmounted no one stops it again (`ActivityFeed.tsx:241`). Refs (`esRef`, `pollTimerRef`, `lastEventIdRef`,
`cancelledRef`) are variables, the requests under way are `load` and the connections of
EventStream. A load answers the newest `LoadLimit` events of its project, fewer than the
`MaxEvents` that the list keeps, as in the code (50 and 100). `mixed` is history: another project, or none, was picked while something of the one
before was under way.

Board, Credentials, Sprints, Workspaces, Attachments and Agents keep receipts for good:
their expiry and purge are those of TaskService.

## 3. Runs

`CHECK_DEADLOCK FALSE` except in `sprints`: calls are a finite supply, and when all are
answered the system really stops. In `sprints` tasks go on changing their status for ever,
so there the check of deadlock is on and can find nothing; that no calls wait for each
other in a circle is a part of `SprintsTypeOK`. No run replaces a definition.

| Run | Instance | Shows |
|---|---|---|
| task_service | 3 tasks (one waits for another and has a child) and room for two more, 2 operations, 3 calls (an original, its retry and a rival), every way to be refused, 3 rules (two answer each other, one of them comes and goes; one names nobody) | `TypeOK`; `VersionCountsEvents`: no write is lost and none lacks its event; `OperationsAreSerial`: events in time order although timestamps precede waiting, retries apply once even after the purge, answers, replays included, are true of the log, one winner per version; `ChainingIsBounded`; `StatusIsReplayed`: of the task verbs and rules, the log accounts for every status, also at each recorded change; `ImplementsLedger`; `EveryCallIsAnswered` |
| task_graph | 4 tasks and a free id, depth limit 3, 3 edits of two clients (cycles, a task under itself), 1 task call, crashes | `GraphTypeOK`; `GraphsAreSound`: both graphs stay acyclic and shallow until a write is `crossed`; `LogTellsTheGraph`: versions count events, edges are replayed but those `untold` |
| unlogged_block | the same with one edit and one client | `ReplayYieldsTheState` **violated**: `addDependency` blocks its task and logs no status |
| board | 2 tasks in a column, a third to come, 2 reorders, a mover with 3 moves out of the column and into it | `BoardIsSound`: distinct ranks but in a column that is `raced`; `ReordersAreHonoured`: a reorder applies once, and lands behind its anchor; `OnlyItsColumn`; `EveryReorderIsAnswered` although they deadlock |
| credentials | 2 humans, 2 agents, 3 calls with scripts that cross | `CredTypeOK`: at most one active token; `TokensAreToldOnce`; `RevokedMeansRevoked`: a revoke leaves no access and nobody overwrites it; `SomeHumanUnlessOvertaken`; `EveryCallIsAnswered` although they deadlock |
| sprints | an active and two planned sprints, 2 tasks, a close or creation and its retry, 2 calls that move and activate | `ConflictsOnlyByRace`: two active sprints, or a task in two open ones, only come of overlapping checks; `RecordsAgree`: retries agree, moves are logged except over a crash; `NothingSlipsPastAClose`; no two calls wait for each other |
| workspaces | 5 actors (2 administrators, a member, 2 outside), 3 calls, plan of 4 members and 2 projects | `WsTypeOK`: slugs are unique; `AdminRemainsUnlessOvertaken`; `AdditionsAreSound`: limits hold unless additions overlap, an operation makes one project |
| attachments | a slot and a retry of its reservation, 5 calls, 3 operations, full disks, crashes | `AttTypeOK`: one writer per file, one slot per operation; `DownloadsAreWhole`; `FilesStand`: a ready file never changes, an accepted upload is there |
| agents | a registered human and agent, an agent of the environment, 3 calls, 3 operations, 4 instants | `AgentTypeOK`: at most one active token per actor however boots race; `GoneForGood`; `OnlyTheSilentExpire`; `BootReconciles` |
| event_stream | 3 events of a project in any order of times, ids and commits, 1 connection that comes back, `ReplayLimit` 1, a ticket that lives one instant, 1 failing query | `MissedOnlyIfOvertaken`; `EventsArrive`; `RevokedStreamsEnd` |
| empty_feed | a project without events, a connection without a cursor, 1 event | `LiveEventsArrive` **violated**: the first event, and every later one, is never sent |
| activity_feed | 2 events of a project, a load that returns one of them, a project without events, 2 connections, 2 loads under way, another project picked once, or none, or the feed left | `FeedTypeOK`: a list without repeats; `ShowsSelectedUnlessMixed`; `SomeChannel`: the feed never ends up with neither stream nor timer |

**Why the bounds are enough.** The races here are between two calls on one row plus a
third that retries one of them, so three calls (two where locks are fine-grained
and the third party is a mover) and two operations show each of them; two tasks beside
the one that waits are needed for the dependency and child gates, and free ids for creation.
Two editors close a cycle with one edit each, and the third edit is one that must still be
refused. A cycle in a
graph needs three tasks to be missed by a search of one hop, and a chain of four
exceeds the depth limit of 3, the one in the code. In the board three tasks give a place
before, at and behind an anchor; three moves let one leave, another enter below it and the first come
back. One mover makes all three: with two the safety properties
hold as well (1.8 million states), but the liveness check takes longer than a run should. A member too many takes one free seat and two additions, a
workspace without administrators two administrators and two changes. A slot goes through
reservation, two uploads, finalize and download, so five calls. A stream passes over an
event only beside two others: the one that carries the cursor past it, and one that the
limit cuts off. An expiry that errs needs a heartbeat, a run of the job and an interval
longer than `Ttl`, which `MaxClock` 3 leaves room for. `MaxMoves`, `MaxEdits`, `MaxHiccups`
and `MaxSelects` bound how often movers move, graph clients edit, queries fail and users
switch; calls are one-shot, which bounds logs and versions. Symmetry is used only
where no liveness is checked. In the runs with a `MCRequests` each call chooses from a script of
its own, which avoids checking permutations of the same requests; together the scripts
hold each pair of conflicting requests, retries, an operation id used for two requests,
and each refusal.

**What is exempted on purpose**, each by a history variable or by a condition of the
property, so that everything else is checked to hold. What is exempted is what the code
does, so a property with an exemption does not rule out that outcome: it shows that the
race, the crash or the request named is the only way there. Of the graphs, `crossed` exempts a write on a
walk that another write overtook and a task put under itself, and `untold` an edge without
its event. Board exempts columns in `raced`, where the
unlocked `MAX(rank)` lets two entries take one rank, or a task that came back is numbered by a
reorder that had seen it before it left. `SomeHumanUnlessOvertaken` exempts a
rotation that overtakes the guard. Sprints exempts checks in `beside`; Workspaces calls in `stale`,
so neither two administrators who remove each other nor two additions that pass one limit together
are caught; Attachments slots in `excuses`, a write that broke off and an upload that empties the file behind
finalize's look; ActivityFeed what follows a switch in `mixed`, which is what a load of the project
before, or an `EventSource` the feed lost sight of, bring. Agents exempts boots that
ran beside another, tokens that were another actor's, and an older heartbeat that is
written over a newer one. `MissedOnlyIfOvertaken` names the two ways in which a stream passes
over an event: one with a higher id that was sent committed before it, or it was cut off by the
limit behind one that is older by time and younger by id. Each is
listed in the hazards at the line where it comes from, with a note.

**Where code and documents disagree.** Two disagreements are kept as runs that must fail.

- `unlogged_block`. `docs/TECHNICAL.md:133-139` says that every mutation writes its event
  before it updates the row, in the same transaction, and that replaying the log must
  yield the row's status; `docs/TECHNICAL.md:83` and `service/tasks.ts:12` say the same of the
  transaction. `addDependency` (`service/tasks.ts:1199-1225`) sets the status to `blocked`, writes no
  event of it, and has no transaction.
- `empty_feed`. `service/events.ts:119` answers nothing when there is no cursor, and
  `service/events.ts:168` and `adapters/http/sse.ts:120` say why a stream must not be left
  without one; on an empty project `latestEventId` returns `null` (`service/events.ts:184`) and the
  cursor stays so.

The others follow from the models and are short enough to be told:

- *An edge without its event.* For the same reason a crash, or a removal of the edge,
  between `addDependency`'s statements leaves `task_dependencies` and the log apart (`untold`).
- *A retry after the purge creates again.* `scripts/cleanup-operations.ts` and the expiry in
  `service/idempotency.ts:71` forget an operation after 30 days; a creation has no `if_match`, so
  its retry after the purge makes a second task. `docs/TECHNICAL.md:152` says that an expired
  retry is answered `410 Gone`.
- *A task may be its own parent.* `service/tasks.ts:1147` walks the ancestors of the new
  parent and does not compare it with the task; `adapters/mcp/server.ts:595` and the D3 design
  (`docs/superpowers/specs/2026-05-07-d3-hierarchy-dependencies-design.md:127`) say a cycle
  is refused.
- *Two clients can close a cycle.* The walks of `setParent` and `addDependency` take no lock
  (`service/tasks.ts:1196`): `a` waits for `b` and `b` for `a` are both accepted, against the D3
  design (`:141`).
- *Reorders do not serialize.* `service/tasks.ts:1005` sorts a snapshot before it locks the rows:
  the second of two reorders beside a creation can undo the first, against the D2 design
  (`docs/superpowers/specs/2026-05-06-d2-backlog-and-board-ordering-design.md:158`).
- *The last human can go.* The locking `SELECT` of `revokeToken`'s guard waits for a rotation
  of the only human and then drops the token that was rotated; the human is not among the
  active ones it found, so `service/actors.ts:594` lets the revoke go on, and it takes the new
  token. `docs/TECHNICAL.md:482` says that a rotation needs no guard.
- *Two sprints of a project can be active, and a task can be in two open ones.*
  `service/sprints.ts:174` and the check of an assignment are plain reads,
  against `service/sprints.ts:5-6` and the D4 design
  (`docs/superpowers/specs/2026-05-09-d4-sprint-planning-design.md:70`).
- *Rules chain once.* The header of `service/automation.ts` (`:8-10`) says that at depth 1
  `applyAutomationRules` returns immediately; the code (`:103`) and `apps/server/test/automation.test.ts:186-233`
  let rules fire at depth 0 and 1. The model follows the code.

**Fairness.** `FairSpec` asks weak fairness of each call's handler (in Board of the movers'
too), `FairStreamSpec` of each connection's, and of nothing else:
Node's event loop keeps running a handler whose query has returned, and Postgres
grants a lock that is free and ends one transaction of a deadlock after
`deadlock_timeout`. No client must submit, no server must crash, no cron must run, no
client must connect. Weak fairness is enough: a lock that is waited for is released once and for all by a call
that is itself in flight, calls being finite in number.

## 4. Proofs

Eight modules, `*Proofs.tla`, hold theorems for every value of the constants. Every
invariant and every action property that a run checks has one. Each module
has the same build: the component's properties are seldom inductive, so there is an
inductive invariant (`IInv`; for some properties a second one beside it) that says
step by step what a call has read and still goes by; TLC has checked it on the
instance of the component's run; one lemma shows that the
initial state has it, one per action that it is kept, `NextKeepsIInv` puts them together, and
the theorems follow. Most lemmas rest on one about a step that leaves a call alone:
what is said of a call is about rows that it holds, so others cannot
disturb it. What the constants must satisfy is the `ASSUME` of each component:
shapes, finiteness where something is counted, `None` being no value of the column it
stands in, and a few facts about the state at the start (a workspace is founded by an
administrator, an actor is registered with one token) that the invariants carry on.

**TaskServiceProofs** is about TaskService and about TaskGraph, which extends it.

*The tables.* `TypeCorrect`, `VersionsCountEvents`. The second is not
inductive: `Commit` installs a row that was drafted some steps before.
`CallInv(c)` says what holds in between: `c` has its task's row lock, so the row it read is
still the committed one; its draft has as many versions beyond it
as it has events to append; a creation's task is still free. All of this is `BaseInv`, stated so that
it holds also beside writers that are no task verbs (`IInv` adds that there are none), so that the
proofs of TaskGraph use the same lemmas.

*What is written and answered.*
- `StatusReplayed` (of the task verbs and rules alone) and `OperationsSerial` from `HInv`: the log that a draft *will* make
  (`Whole(c)`) is as sound as the committed one, so that the commit is no event. Events are
  in time order, although the first timestamp is taken before the lock, because the version that
  the request names had been committed when it arrived (`CameAfterTheVersion`). A
  verb that is retried applies once, even past the purge, because each event has an author,
  at the place that its `if_match` names (`EventsHaveAuthors`).
- `LedgerImplemented`, the refinement of `TaskLedger`: a commit is `Apply`, an answer from a receipt
  `Tell`, the cron job `Expire` and `Forget`, every other step a stutter.
- `ChainingBounded` from `CInv`: every rule that fires spends one of the chains that the
  client's event may set off, the agenda names only chains not yet spent, and there are finitely many.

*The graphs.*
- `GraphTypeCorrect` and `VersionsCountVersioned`, for any number of graph clients, from `GInv`: `BaseInv`,
  what each edit has read and locked, and that both ends of what it is about to
  write exist.
- `GraphsStaySound` holds for any number of graph clients and whatever they ask. It takes graphs that are
  sound at the start, and nothing else: two editors, and a task under itself, are inside it, and what is
  exempted is only the state after a write that was `crossed`. A check is good until a rival writes, so the
  invariant says what a walk has established of each call that is not `overtaken`.
  The invariant replaces walks by what a walk establishes. That dependencies have no cycle is said by sets that
  an edge cannot leave: if `addDependency` does not reach `t` from `d`, the tasks that it reached are
  closed under edges, `d` is in them and `t` is not (`CutOff`), and so it stays until the edge is
  inserted. That the parents form a forest is said by a level for each task, one more than
  that of its parent and less than `MaxDepth` (`Levels`); a level is the number of ancestors, and `setParent` has
  checked that the subtree of its task can be moved to the level below its new parent (`Movable`). That
  a walk which is bounded by the number of tasks finds all there is to find
  is a lemma on chains of sets that grow until they are closed, proved with the library's facts on finite
  sets and a minimal counterexample (`WFMin`), as induction over data is out of reach.
- `LogTells` has no assumption. Its invariant `LInv` says of each edge that it is `untold`, or that a call is between its
  insert and its event and the edge is there, or that it is there exactly if the last event about it, or the state at the
  start when there is none, says so. A call that removes an edge commits with its event, so
  only an insert can be ahead of the log.

**BoardProofs**: `BoardSound`, `OnlyOwnColumn`, `ReordersHonoured`. What a reorder has locked stays in its column
(`Holds`), so it numbers only that. Ranks stay apart because of three things (`Ordered`): a task
that enters goes below all that are there; a task that entered after a reorder sorted its snapshot
has a rank greater than the number of tasks that the reorder will number (`Newcomers`); and of two
reorders of a column, the one that commits first has numbered nothing that the other has not
seen, since it cannot get past the other's target, which is locked (`Overlap`). Without the second
exemption of `raced`, `Newcomers` is not inductive: the proof is how the task that leaves and comes back
was found, three moves away from the start, and the run now has room for it. `RInv` adds what is
recorded: each operation once, with the order it left, and success told of those alone.

**AttachmentsProofs**: `TypeCorrect`, `DownloadsWhole`, `FilesAlwaysStand`. The row's lock guards the file:
whoever writes it holds the row and it is pending (`KnowsItsSlot`); what a finalize found
without the lock is still there or has left an excuse (`KnowsItsFile`).

**WorkspacesProofs**: `TypeCorrect`, `AnAdminRemains`, `AdditionsSound`. What a call has read of the
members, the seats and the projects is so when it writes, or it is `stale`; who has inserted a
slug or an operation is alone with it. The counting is with the library's theorems on
finite sets.

**AgentsProofs**: `TypeCorrect`, `InactiveForGood`, `TheSilentExpire`, `BootsReconcile`. A held row
is as its holder found it (`KnowsItsRows`). A boot that was alone has settled the tokens of the entries it is
through with (`KnowsItsEntries`), which needs that an environment names no actor and no
token twice, as its parser enforces.

**EventStreamProofs**, about the stream: `TypeCorrect`, `PassedOverOnlyIfOvertaken`. `NothingIsPassed(k)`: each committed event
between the place where polling began and the cursor was sent, is in the batch being sent, or
was overtaken by an event that was sent. That a batch is the right one is a lemma on ranks:
numbers that differ, below the number of elements, are all taken. And about the feed, which extends it:
`FeedTypeCorrect`, `ShowsSelected`, `AlwaysAChannel`, from `FeedInv` beside the stream's `IInv`. It says
that a load under way or answered holds committed events of one project, each once
(`Loading`), that the `EventSource` the feed knows of is open (`Connected`), and that as long as nothing was
`mixed`, whatever is under way was begun for the project selected, and nothing is when none is (`AllForSelected`).

**CredentialsProofs**: `TypeCorrect` (one active token per actor), `SomeHumanRemains`, `ToldOnce`,
`RevokesRevoke`. A revoke holds its actor, so its
update sees every active token of it (`HoldsItsTarget`); rotations insert one at a time
(`InsertsAlone`). The humans that a revoke has counted have a token that it holds locked, and
a token of its own target that it did not count is one yet to be looked at or made by a rotation
(`CountsHumans`): the exemption of the property, and the only one. That some human is there
at the start is assumed; `.env.example` names one.

**SprintsProofs**: `TypeCorrect` (which includes that no calls wait for each other in a circle), `OnlyRacesConflict`,
`RecordsTell`, `ClosesFindAll`. A transition holds its sprint
from the row it read to the commit, and no fresh row refers to a sprint that is held, so a close has
found all. Whoever is past a check knows of every rival by that check or by an overlap that
`beside` records (`ActivatesAlone`, `AssignsAlone`). There is no circle because
a call waits only for calls that are further on than it is (`NoCircleOfWaiting`).
That the sprints at the start are in no conflict is assumed.

**Only model-checked.** Liveness (`EveryCallIsAnswered`, `EveryReorderIsAnswered`, `EventsArrive`, `RevokedStreamsEnd`):
fairness and `ENABLED` are out of the prover's reach. `LiveEventsArrive` and `ReplayYieldsTheState` are refuted, not proved.
`Orders`, `Ancestors`, `Generations` and `Reaches` are recursive functions or quantified sets,
never `RECURSIVE` operators, which is what lets the proofs reason about them.

## 5. Not modelled

`PROJECT.json` "components" gives the reason for each part. Left out for good: texts and
formatting, parsing and validation of the shapes of requests (requests are well formed
when they reach the models), shell scripts, telemetry, audit export, pagination and the query
language, none of which keeps state that several steps could corrupt; migrations
and the start of the server; list and get verbs, which only read; saved views and
looking up a project by its repository, which are single statements. Of the web client
only the activity feed is modelled: the other views show what one request returned. Left out of the modelled parts: a task's texts, points and
context, sprint dates, plans that differ between workspaces, and what a workspace's
boundary does to the task verbs, which have one project and one workspace.

## 6. What remains

The modules and theorems that were planned are all there. What could be added:

1. *Walks that nobody overtakes.* If a lock is added around the walks (say, of the project's row), `overtaken`
   stays empty, and `GraphsStaySound` says what it should without an exemption.
2. *The gates of a status change.* `CheckDependencies` and `CheckChildren` read without a lock, so
   a task can become done beside a dependency that is added meanwhile (`service/tasks.ts:816`). No
   document promises otherwise, so there is no property of it.
3. *Liveness for every value of the constants*, when a prover for it is at hand: the arguments under
   "Fairness" say why each holds.
