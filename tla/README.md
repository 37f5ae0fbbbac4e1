# mom-bot: a TLA+ model

mom-bot is a Discord bot of a gaming clan. One Python process holds the Discord
gateway session, two scheduler loops, an HTTP sidecar through which the
siege-web site acts on Discord, and slash commands. Its state is in Postgres and
in Discord; its difficulty is that everything is an `await` on one event loop,
that Azure overlaps two processes during a rollout, and that an HTTP call to
Discord may time out after Discord has carried it out.

This directory models the parts of the bot whose order of steps matters. Source
paths below are relative to `src/src/mom_bot/`.

## 1. Inventory

| Component | State | Operations | Interacts with |
|---|---|---|---|
| Notification store (`member_notifications/service.py`, `models.py`, `reminders/sent_store.py`, `models.py`) | tables `reminder_sent`, `member_notification`, `member_notification_sent` | create, update, delete (cascades), list_due, mark_sent, unmark; each one committed statement | the scheduler claims, officers edit |
| Reminder scheduler (`reminders/scheduler.py`) | the tick in progress; `health/progress` | a tick every 60 s: which reminders are due, tank-week suppression, claim, send, give back | store, Discord, health |
| Officer commands (`member_notifications/commands.py`, `new_member_alerts/commands.py`, `discord_authz.py`) | none of their own | acknowledge, test the permission and the format, one or more statements, reply | store, Discord, which tells every process of an interaction |
| Day-role sync (`sidecar/app.py` `role_sync`, `roles/service.py`, `sidecar/models.py`) | `member_role_sync_state`, a lock per member, the gateway's role cache, Discord's roles | POST role-sync: replay, staleness, remove and add roles, UPSERT | siege-web, Discord, store |
| Auto-kick (`member_activity/*`, handlers in `main.py`) | `member_activity` | join and first message recorded; sweep every 60 s: fetch, warn, re-read, kick, untrack | gateway events, Discord |
| Health (`health/*`) | heartbeat, per-scheduler progress | `/healthz`, `/healthz/progress`, `check.py` | both schedulers, the probes of `infra/modules/containerapp.bicep` |
| Post-condition preferences (`post_conditions/*`) | editor selections, cached catalog | toggle, page, save with retries on 429, cancel | siege-web |
| Siege calendar, member recurrence (`reminders/calendar.py`, `member_notifications/schedule.py`) | none: pure | first Tuesday, siege and tank dates, month ends | reminder scheduler, seed |
| Lifecycle (`main.py`) | tasks of the process | setup, READY (repeated), close | everything |
| Seeds (`reminders/seed.py`, `roles/seed.py`) | reminder and day-role rows | insert on first start, refresh of role ids | lifecycle |
| New-member alerts (`new_member_alerts/*`, `on_member_join` in `main.py`) | a subscription per officer | set; welcome, then write to each subscriber | gateway, officer commands |
| Rollout (`reminders/seed.py`, `migrations/versions/0005`, `0007`, `infra/`) | rows of `reminders`, revisions | migrate, first-boot seed, update with an overlap, seed by hand | lifecycle, calendar |
| Sidecar endpoints without state (`sidecar/app.py`, `auth.py`) | requests in progress | notify, post-message, post-image, members; exceptions into statuses; drain | siege-web, Discord, the guild cache |
| Layout of the editor (`post_conditions/grid_layout.py`, `grouping.py`) | none: pure | pages of the catalog | the editor's view |
| Configuration, engine, telemetry, day-role seed, scripts | not modelled | | |

What is hard, per component, is the list `hazards` of `PROJECT.json`, at the
line where each bites. In short: a claim committed before a send that may fail,
time out or crash; two processes on one table; lists read before a loop of
awaits; requests of siege-web that overtake each other; a role cache that lags;
rows that change while a kick is awaited; thresholds equal to periods.

What makes each correct: a reminder is posted when due, not twice, and is not
lost by a handled failure (delivery); the rows it needs are there in every
release (rollout); an officer is told what is true, and alerts follow what was told
(officer commands); siege-web may infer from a status whether Discord has the message
(sidecar); the message shows what the next click works on (editor); the stored row and the member's roles
agree, and the newest assignment wins (role sync); only members who were silent
for the window are kicked, and rows tell the present stay (auto-kick).

## 2. Modules

Delivery:

- `NotificationStore`: the tables and their statements. One committed statement
  is one operator. `mark_sent` succeeds once per slot (UNIQUE) and fails as well
  when the parent row is gone (the foreign key raises the same IntegrityError);
  `delete` cascades; ids never return (a Postgres serial).
- `ReminderScheduler`: EXTENDS the store. `proc[p]` is the tick of replica `p`:
  its program counter, its date and time, the lists it read before awaiting, the
  slot it holds. A tick is cut where the code awaits Discord or commits; between
  two cuts it is one step, because the event loop runs nothing else. Actions:
  `BeginTick` (heartbeat, due list), `Suppress` (the two queries of the tank-week
  rule, separate steps), `Claim`, `ClaimWithoutChannel`, `Collide`, `FetchFound`,
  `Reach` (Discord shows the message), `SendOk`, `Refuse` (403/404), `Transient`
  (claim given back, tick aborted), `UnmarkFails`, `QueryFails`, `ClaimFails`,
  `ListDue`, `EndTick`, `SkipTick`, `Crash`, `Start`; and around it `OfficerCommand` and
  `AdvanceClock`.
- `DeliverySlots`: what the claims promise: a slot is open, owned by one
  replica, or closed; a closed one never reopens. `ReminderScheduler` implements
  it under the mapping `slotState`.
- `MCReminderScheduler`: instances. `ReminderScheduler_proof`: the proofs.

Role sync:

- `RoleSync`: one member, since lock, row and roles are per member. A `call` is
  one delivery of a request to one replica. `Decide` steps (`Replay`,
  `RejectStale`, `NothingToUnassign`, `Enter`, `Skip`) take the lock and run to
  the first await; `Assign`, `Unassign`, `Removed`, `Added` and the refusals are
  the Discord calls of `apply_day_role`; `Save` is the UPSERT and the answer.
  `view` is the gateway cache the decision reads; `discord` is the truth.
  `CallBreaks` is any exception on the way (answered with a 5xx, whether or not
  Discord acted); siege-web may `Repeat`. `exact` is a history variable: the
  call saw a current cache and nothing but the bot has moved the roles since.
- `MCRoleSync`, `RoleSync_proof`.

Auto-kick:

- `AutoKick`: members join, write, leave (`guild`); the gateway tells every
  process that is up (`events`); a handler is one statement (`HandleEvent`);
  `sweep[p]` keeps the rows read at its start and awaits between `Resolve`,
  `Fetched`, `Messaged`, `KickLands` and `KickAnswered`. `missed` is a history
  variable: members of whom an event was lost (process down, statement failed).
  `Earlier` members were tracked by a process before these and left while none ran;
  of the `Unfetchable` ones the fetch may fail in every sweep. A kick that fails is not
  tried again: `KickRefused` removes the row all the same, unless that fails, too.
- `MCAutoKick`, `AutoKick_proof`.

Post-condition preferences:

- `CatalogCache`: `list_catalog` of `siege_web_client.py`. The cached payload with
  its time, the lock, and each caller's `call`: `Hit` is the path without the
  lock, `Queue` and `Locked` the double-checked one, `FetchAnswered`,
  `FetchLimited` (429 and sleep, or the last one raises), `FetchFails` and
  `FetchStored` the fetch. `retired` is a history variable: when siege-web's former
  catalogs were last current. An unknown status whose body is JSON is a payload,
  `Garbage`, as the client takes it for one.
- `PreferenceEditor`: EXTENDS it. `view[e]` is one editor (its selections),
  `saves[s]` one click on Save with the ids it carries, its attempts and what the
  member was told. A Save is cut where the code awaits the PUT, so toggles, a
  second Save, Cancel and a second editor fall in between. `moved` is a history
  variable: what the member toggled in an editor and what others stored meanwhile.
- `MCPreferenceEditor`.
- `GridPages`: the layout as operators: the page of a condition from how many of its
  group precede it. `PagesInOrder` is the reference it is measured against.
- `GridView`: EXTENDS it. One editor's `page` and `selections` change with a click; what
  the click draws is kept in `callback[k]` until its edit `Lands` or `IsLost`, so
  edits of fast clicks overtake each other and the member clicks on what the message
  still shows. `Redraw` has the KeyError of a condition without a label. `excuses` says
  why the message may show something old. The preferences at siege-web are in
  `PreferenceEditor`. `MCGridView`.
- `PostConditions`: the common base of both, which `CatalogCache` and `GridPages` EXTEND.
  `PostConditions_proof` EXTENDS `PreferenceEditor` and `GridView`, whose names are apart.

Officer commands and alerts:

- `OfficerCommands`: `call[c]` is one interaction from `Invoke` to `Reply`. Each process
  that is up has it in `heard`; `Defer` is the acknowledgement, which Discord takes
  once. `Find`, `Write` and `Refresh` are the statements of a handler; they are
  synchronous, so a process between two of them does nothing else (`Blocked`) while
  the other one may. `witness` is a history variable: what was true at an instant
  while the call ran.
- `NewMemberAlerts`: EXTENDS it with `on_member_join` in each process: `Welcome`, the
  subscribers read once (`LoadSubscribers`), and a loop of awaits. `promised` is a
  history variable: what each officer had been told of its alerts when the member
  joined and has not changed since. `MCNewMemberAlerts`, `NewMemberAlerts_proof`.

Rollout:

- `Rollout`: the rows of `reminders` by name, with the channel each names; three
  releases, each with its migration (`Migrate`, which copies from Hydra's row) and its
  first-boot seed (`Count`, then `Insert` after the channel is resolved), the pipeline
  that migrates before it updates, the overlap of two revisions, and
  `seed_siege_reminders` by hand (`Stage`, `CommitStaged`). `late` is a history
  variable: an older release seeded after a newer one's migrations. Its proofs are in
  `SeededRows_proof`, with those of the dates of the same rows.

Sidecar:

- `SidecarApi`: `request[q]` from `Accept` over `Handle` (bearer test, validation,
  lookup in `cache`) and the call of Discord (`Succeeds`, `Missing`, `Refused`, `Fails`)
  to `Reply`; the guild and its lagging cache; the server's drain and its end.
  `posted` is what Discord shows; `lost`, `held` and `absent` are history variables.
  `MCSidecarApi`, `SidecarApi_proof`.

Lifecycle and health:

- `BotLifecycle`: one container in time. `up` is the phase of the process
  (`setup_hook`, running, the two stages of `close()`, down), `task[s]` the
  reminder and the sweep task, `heartbeat` and `progress` what they leave for the
  probes, `blocked` a statement of the synchronous driver that stops the event loop
  and the health server with it. `Probe`, `Kill` and `Boot` are the platform, with
  the numbers of `containerapp.bicep`. Time is ages and timers that saturate, so
  behaviours have no end and liveness is checked; `Elapse` waits for what is due.
  `servers`, `row` and `ended` are history variables: the uvicorn servers, what kind
  of row of failed probes this is, how and when each loop's last cycle ended.
- `MCBotLifecycle`, `BotLifecycle_proof`.

Dates:

- `Calendar`: `reminders/calendar.py`, `member_notifications/schedule.py`, and the
  rows of `reminders/seed.py`, as operators on date records. `CalendarWalk`: the
  reference, a walk from day to day that counts weekdays, Tuesdays and days since
  an announcement one by one. `MCCalendarWalk`; proofs in `SeededRows_proof`, of which `RowsOfTheSeed` says that
  the names `Rollout` deploys are those `Calendar` dates.

`Mutant of X` operators are wrong versions of the definition that follows them:
each property is shown to fail when the definition is replaced by its mutant.

## 3. Runs

Deadlock is checked except where the program may really have nothing to do: a
finite number of requests, clicks, commands or deployments, a sweep task that
has died (`Grace`), and the end of the walk over the dates.

| Run | Properties | Shows | Bounds |
|---|---|---|---|
| `Channels` | `DuplicateNeedsLostReply`, `NoSilentDrop`, `PostedWhenDue`, `ImplementsSlots` | two replicas never deliver one slot together (a slot has one owner, by refinement of `DeliverySlots`); a second message needs a lost reply; no handled failure leaves a claim without a message; nothing is early | 2 replicas, 2 reminders in two places, 2 dates x 2 times, 2 faults |
| `Served` | `IInv`, `ReplacedNeverClaimed`, `SuccessMeansServed`, `DueIsServed` | the inductive invariant with officers editing and deleting rows under a tick; Hydra is never claimed when the tank-week end replaces it; a tick that reports success left nothing due unclaimed; what is due is delivered, refused or cut short | 1 replica, 3 reminders of the seed and 1 notification, 2 faults |
| `Swaps` | `RolesInv`, `RowMatchesRoles`, `LatestAssignmentStands`, `NeverBackInTime`, `EveryCallAnswered` | lock discipline; status tells the roles; a granted newest assignment stands; the stamp never goes back; every request is answered | 1 replica, 3 deliveries, 2 days, 3 stamps, 1 fault |
| `Grace` | `RowTellsTheStay`, `KickIsDeserved`, `StaleIsHandled` | the shared row tells the present stay; a kick goes on only against who was silent for the window; a stale row is dealt with, although Discord may never return another stale member | 2 members, one of them of an earlier process and unfetchable, 2 stays, 2 processes, a window and time of one unit, 1 fault |
| `Editors` | `SavedIsStored`, `CatalogRecent`, `NoHerd`, `OnlyToggledChanges` | a save stores only what was toggled in its editor; success is told only of what was stored; one fetch at a time; no catalog older than the TTL and one answer; the lock is given back on every way out | 2 editors, 2 saves, 2 conditions, 2 attempts, 3 units of ten minutes, 1 fault |
| `Pages` | `ShownIsStaged`, `SavedIsListed`, `PagesOfCatalog` | the pages of every catalog are right; the message comes to show what the next click works on; "Preferences saved" lists what was sent | every catalog and selection of 5 conditions of 3 types in 2 groups and one of none, 2 to a page; 3 clicks, 1 lost edit |
| `Officers` | `AnswersAreTrue`, `OffMeansNoAlert`, `OnMeansAlert`, `ChangesAreAskedOnce` | officers are told what was true; each command changes the tables at most once and only what it names; alerts follow what an officer was told | 2 processes, 2 commands, 2 officers, 1 name, 1 new member, 1 fault |
| `Rollout` | `RowsBelongTogether`, `ReleaseIsComplete`, `ServesAgain` | a set of rows is there together and names one channel; a process that runs finds its release's rows; the newest revision comes to run | 3 releases in any order, 4 deployments, 2 channels, 3 faults |
| `Requests` | `AnswerTellsDelivery`, `LookupsAreTrue`, `AcceptedIsAnswered` | a status tells whether the message is out; no lookup in the lagging cache names a stranger; what was accepted is answered, in a shutdown, too | 1 request of every kind and defect, 2 members, 1 channel, 2 names, 3 faults |
| `Probes` | `HealthyMeansProgress`, `OneSidecar`, `LiveSchedulerKept`, `StuckIsRestarted`, `Recovers` | the progress endpoint tells the truth and recovers; a READY that comes again starts no second sidecar; the liveness probe kills no loop that ticks and does restart one that is stuck | 1 container, 15 s a unit, a start, a tick and a long statement of up to one unit, 3 faults |
| `Dates` | `EventsAnnounced`, `OccursRegularly` | every tank week and siege is announced by the seeded rows on the right days only; notifications skip and double no period | 27500 days from 2026-06-01, 6 anchors, 3 cadences |
| `StaleCache` | `SwapLeavesOneRole` | violated: a swap decided on a lagging cache leaves two roles, answered `applied` | 3 deliveries, no fault |

Why the bounds are enough: a conflict on a slot, a member or a lock needs two
parties; a failed retry needs two faults; midnight needs two dates; a stale
request needs two changes and a repeat a third delivery; a stay confused with an
earlier one needs two stays; a member who keeps another waiting needs both, of whom
the one need not come again; one window of time tells a stay that is stale from one
that is not; an overlap of saves or of fetches needs two; two
edits that overtake each other need two clicks and a third that meets the result;
the endpoints share nothing but the guild, so one request meets every case, and the
proof covers any number; two commands of one officer, or of two on one row, are a
race, and `Asked` has both; a deployment that comes back to an older release and
on again needs four; the
15 s unit divides the tick (60 s), the heartbeat threshold (60 s) and the probe
period (30 s) and tells a probe in the gap between two heartbeats from one outside it, and a
restart after a fault leaves one more fault for the new process; 75 years hold
the non-leap century, 2100. Two replicas together with officers' edits of
notifications are left to the proof of `IInv` and of the refinement, which holds for
any number of both.

### Fairness

The event loop is FIFO and discord.py times out every HTTP call, so a step a
process can take is taken: weak fairness of each tick's, call's and sweep's steps
and of `AdvanceClock` where a deadline is needed. An `asyncio.Lock` wakes its
waiters in order, hence strong fairness of `Decide` in `RoleSync`. Restarts are
weakly fair (the platform restarts a container). Nothing is assumed of users,
siege-web or officers, and faults are finite by a bound (`MaxFaults`), which is
what a liveness property under failure needs; only the fetch of an `Unfetchable` member
of `AutoKick` may fail for ever. The editors have safety properties
only: every step of theirs waits for a member or for siege-web. In `BotLifecycle`
the steps of the process, the platform's probe, kill and boot and the passing of
time are weakly fair, and so is the gateway's reconnect, which discord.py retries;
disconnects, hangs, statements that never return, failed starts and shutdowns are
faults. In `Rollout` the pipeline, a first boot and a restart are weakly fair
(`restartPolicy` of the container, a pipeline that waits with a timeout); deployments, renames and
stops are the operator's. In `SidecarApi` a handler, the drain and the restart are:
discord.py times out its calls and `close()` awaits the server.

## 4. Proofs

For every value of the constants, checked by TLAPS:

- `ReminderScheduler_proof`: `Invariant` (Spec => []IInv), from it `TypeCorrect`,
  `MutualExclusion`, `NoDuplicateWithoutLostReply`, `ClaimsAreAccountedFor`, and
  `Refinement` (Spec => Slots!Spec). The properties are not inductive: a state in
  which a replica holds a slot nobody claimed satisfies them and a second claim
  breaks them. `IInv` adds that a held slot is claimed or its notification
  deleted under the holder (`HeldIsUsed`), that posts exceed lost replies only
  while claimed (`PostsBounded`) and by how much for the holder (`HeldPosts`), that
  claims of members have parents and that ids in use are below the next.
  `MessagesAreNeverEarly` (`PostedWhenDue`) needs besides that the slots a tick has in
  hand are of its date and due at its time (`WorkIsDue`), for any replicas.
  `ReplacedStaysUnclaimed` and `SuccessLeavesNothingDue` are about one replica, since
  another one may give a tank-week-end claim back between the two queries (section 5).
  They rest on `OneTick`: every due reminder is claimed or still to do, but for those
  replaced, and `SuppressionFits`: a row that replaces another is due whenever that one
  is, so the second query finds it among the kept or the sent.
- `RoleSync_proof`: `TypeCorrect` for any replicas; `Invariant`,
  `TimestampNeverGoesBack` for one replica (`SingleReplica`: with two it is false,
  the lock is per process); `StatusTellsTheRoles` for one replica and at most two
  days (`TwoDays`: the code removes one other day), and so does `GrantedStands`
  (`LatestAssignmentStands`). `IInv` says one call at a time
  is past the lock and the row is no newer than that call; `AssignmentsOnTrack`
  what a call has established between its awaits; `Standing` that a stamp is of one
  change (`OneBody`) and that a granted newest assignment left its own row, so that any
  call past the lock since is a repeat of it and removes other days only.

- `BotLifecycle_proof`: `TypeCorrect`, `HealthyTellsProgress` and `OneServer` from an
  invariant that adds what they lack: a loop registered as running has a task and its
  last success, unless failed, is the end of its last cycle
  (`SuccessIsTheLastEnd`), nothing is registered before `setup_hook` returns
  (`NothingBeforeSetUp`), and only the sidecar referred to serves (`SidecarCounted`).
  `LiveLoopIsSpared` (`LiveSchedulerKept`) is about numbers and supposes `ProbesFit`: the
  probe period is below the threshold, and `FailureThreshold` probes in a row take longer
  than a heartbeat of a ticking loop can be stale. The longest gap between heartbeats
  (`LongestGap`) is the pause and three times the longest tick, as a statement of the
  sweep may keep the reminder task waiting at either end of its pause. With the
  deployed numbers (60 s, 60 s, 30 s, 3 failures) `ProbesFit` says that a tick, its longest
  statement included, stays below 20 s, which no timeout in the code enforces; the
  instance of `Probes` satisfies it (`InstanceFits`, evaluated by TLC). The
  argument: `GapBounded`, the age of the heartbeat and the longest time to the
  next one (`Left`) add up to `LongestGap` at most; and `RowBounded`, in a calm row of failures either the next
  probe finds the heartbeat fresh, or all of them fell into one gap, since the first was
  already stale, and their time fits into `LongestGap`.
- `SeededRows_proof`, dates: for every date of the Gregorian calendar, `EndIsFirstTuesday`,
  `HeadsupAWeekBefore`, `SiegeHeadsups`, `SeedWeekdaysFit`, `MonthlyOncePerMonth`
  and `OccursEveryPeriod`. They rest on `PlusIsDate` (adding days to a date adds them
  to its ordinal, over the ends of months and years), itself on `NextMonth` and
  `NextYear`, which compare the counts of leap days. From them, for a walk of any
  length from any first of a month, `EventsAreAnnounced` (`EventsAnnounced`) and
  `OccurrencesAreRegular` (`OccursRegularly`): what the walk counts one by one is tied to
  the calendar by `WalkInv`, which says how many Tuesdays the month has had
  (`TuesdaysCounted`), how long ago each announcement was in terms of the date it was
  made for (`HeadsupAge`, `SiegeAges`), and which date a notification last occurred on
  (`OccurrenceAge`, `OccurrencesOfMonth`).
- `SeededRows_proof`, rows: `RowsStayTogether` and `RunningFindsItsRows`, from
  `RolloutInv`, which adds what migrations leave (`Migrated`), that a running process has
  rows (`RunsOnRows`) and that rows staged by hand are a whole set (`StagedWhole`).

- `AutoKick_proof`: `TypeCorrect`, `RowsTellTheStay` and `KicksAreDeserved`, for any
  members, replicas and window. The rows alone are not inductive, as one is wrong
  whenever an event is under way. `RowIsCorrected` says so: what a row has wrong, a join
  or a message still in some queue sets right. It rests on `QueueGoesOn`: a queue that
  still has the join of a stay has the messages that came after it, since whoever was
  told the one was up to be told the other. `WindowHasPassed` carries the deadline from
  `list_stale` to the kick.
- `SidecarApi_proof`: `TypeCorrect`, `StatusesAreTrue` (`AnswerTellsDelivery`) and
  `LookupsNameTheBearer` (`LookupsAreTrue`), for any requests, names and faults. The
  invariant adds what a call under way has done (`CallFits`: whatever Discord shows
  already was a repeated attempt's), that names in the cache have been borne
  (`NamesWereHeld`) and that the absence of a member asked for was noticed
  (`AbsenceSeen`).
- `PostConditions_proof`, preferences, for any editors, Saves, catalogs and TTL:
  `LockIsGivenBack`, `SavedMeansStored` (`SavedIsStored`), `ExpiredIsFetchedOnce` (`NoHerd`),
  `ReturnedIsRecent` (`CatalogRecent`) and `StoredIsToggled` (`OnlyToggledChanges`), from
  `EditorInv`. That one adds that whoever fetches holds the lock and found
  the entry expired under it, that a payload kept, awaited or returned was current
  when its request was answered and is no older than its time stamp says, and that
  what a Save sends and what its editor shows differ from what was read only in what
  was toggled.
- `PostConditions_proof`, pages: `PagesHoldAll`, `PagesInOrder` for every catalog and page size, by
  arithmetic of chunks and by injections between sets of conditions; `PagesAreRight`,
  `MessageShowsStaged` and `SavedListsSent` from an invariant on the order of edits
  (`Landed`: the message is the drawing of the click it names; `Advancing`: without an
  excuse no edit has been passed by an older one; `Current`: the newest drawing is of
  what is staged).

- `NewMemberAlerts_proof`, for any processes, interactions, officers, notifications and
  faults: `AnswersHold` (`AnswersAreTrue`), `AskedForOnce` (`ChangesAreAskedOnce`),
  `OffIsQuiet` (`OffMeansNoAlert`) and `OnIsAlerted` (`OnMeansAlert`), from `AlertInv`. None
  of them is inductive: an answer is true because of a statement that went through
  while another process was between two of its own. `CallsOK` says, for each place in a
  handler, what has been seen of the tables by then; the delicate part is an update, of
  which the fields equal to the row as read were seen then and the others are seen at
  the COMMIT, and a removal, whose row is the one found or was seen gone. It is kept by the steps
  of other calls because a row keeps its key until it is removed (`RowsEndure`). `AloneOK`
  and `KnownOK` carry a setting from the table over the reply to what the officer knows: nobody who
  knows its setting has a command of its own between SELECT and COMMIT. `HandlersOK`
  ties `promised` to the subscribers a handler has still to look at. Every action
  is first shown to be a `Stepped`, the few facts about a step that the invariants of
  officers and handlers need.

`RoleSync_proof` also states the invariant the run checks, `RolesInv`, as `RolesInvariant`.

Every safety and action property of a passing run is stated by a theorem. Liveness
(`DueIsServed`, `EveryCallAnswered`, `StaleIsHandled`, `StuckIsRestarted`, `Recovers`,
`ServesAgain`, `AcceptedIsAnswered`) is only model-checked: with `ENABLED` it is out of the
prover's reach, as is induction over recursively defined data.

## 5. Where code and documents disagree

The run `StaleCache` ends in a violation and is the finding of `PROJECT.json`. Three
more were runs of an earlier state of this project; the definitions are still in their
modules, for whoever wants to check them again:

- `RoleSync!OlderAssignmentRejected`: an unassign that overtakes its assignment stores
  nothing (`sidecar/app.py:1242`), and the older assignment is then granted.
- `AutoKick!SweepSurvives`: a connection error in `fetch_member` is no discord exception;
  nothing catches it and the sweep's task ends (`member_activity/scheduler.py:111`),
  against its docstring (`:69`).
- `AutoKick!NewcomersTracked`: a rejoin while the kick is awaited is deleted with the
  old row (`member_activity/scheduler.py:167`), although the row is that of the
  present stay (`member_activity/service.py:43`).

Seen while modelling, and not kept as runs:

- A reply of Discord that is lost gives the claim back after the message was
  shown, and the next tick posts it again (`reminders/scheduler.py:433`); the
  tank-week design says a row fires at most once per its date
  (`docs/superpowers/specs/2026-06-27-268-hydra-tank-week.md:166`). The run
  `Channels` shows that this is the only way to a second message.
- An HTTP status the siege-web client does not know, with a JSON body, is taken for
  a payload (`post_conditions/client.py:353`), against its docstring (`:275`).
- When the start of the reminders fails, the release notes (`docs/releases/v1.0.0.md:90`)
  say that gateway and sidecar go on; `/healthz` then never turns 200 and
  the platform restarts the container. They also say (`:65`) that the health check passes
  as soon as the container is up; it answers 503 until the first tick.
- `health/__init__.py:49` calls the heartbeat threshold long enough to absorb a
  hiccup; it equals the tick period, so between the threshold and the next tick
  every healthy process answers 503. Two such gaps with a probe between them that
  finds the event loop in a statement kill a live bot. `LiveSchedulerKept` excludes
  that row, and holds only while a tick with its longest statement stays under 20 s
  (`ProbesFit`), to which no timeout in the code holds it.
- A READY after `close()` has drained the sidecar, before the gateway is closed, starts
  another server, which nobody drains (`main.py:396`, `:625`).
- No probe restarts a sweep that has died or a sidecar that has ended.
- A notification disabled while a tick awaits an earlier send is still claimed
  (`reminders/scheduler.py:335` reads the list once; `member_notifications/models.py:74`
  says disabled rows are never fired).
- With two replicas, a tank-week-end claim given back by one between the two
  suppression queries of the other lets Hydra through (`reminders/scheduler.py:285`).
- A transient failure on the last tick of a day is not retried after midnight.
- An unassign refused with 403 stores no day, and the next one answers
  `already_lacks_role` while the role is held (`sidecar/app.py:1283`).
- After a `partial` swap the next assignment of either day is answered
  `already_has_role` and both roles stay (`roles/service.py:297`).
- Two replicas do not share the lock (`sidecar/app.py:1139`).
- An exact repeat of an unassign with an unreadable row does not rewrite it
  (`sidecar/app.py:1242`).
- Cancel says "preferences unchanged" while a Save in flight may still store
  (`post_conditions/views.py:558`), and "Preferences saved" shows the selections at
  the answer, toggles made after the click included, which were not sent (`:534`).
  `SavedIsListed` excludes exactly those toggles.
- Edits of the editor's message are awaited one by one, but not in order: an older edit
  that lands last shows an old page, or brings the buttons back after "Cancelled", for good.
- A condition without an entry in `SHORT_LABELS` raises KeyError: on the first page the
  command is never answered, on a later one the view turns and the message does not. A
  catalog of unknown types only gives an editor without buttons.
- A Save delayed by a 429 overwrites a newer Save of the same member.
- A message missed while the process is down gets its writer kicked.
- The migrations leave an empty table to first-boot seeding ("first-boot seeding covers
  this path", `migrations/versions/0007_siege_seed_rows.py:12`), but a process of an
  older release that seeds after them inserts its own rows only, and no later start adds
  the rest (`reminders/seed.py:258` counts any row). `ReleaseIsComplete` excludes exactly
  that case (`late`).
- The infrastructure speaks of "avoiding rolling overlap"
  (`infra/modules/containerapp.bicep`); one replica per revision does not avoid that two
  revisions overlap until the new one is healthy. Each of them then welcomes a new member
  and alerts the officers.
- `run_preflight` raises ConfigError "so the bot exits" (`roles/service.py:538`);
  `on_ready` catches it and goes on.
- A duplicate name is answered with the internal error: `_NAME_UNIQUE_MARKER`
  (`member_notifications/service.py:68`) is part of SQLite's message, not of Postgres's. The
  design says "already exists"
  (`docs/superpowers/specs/2026-06-27-269-per-member-notifications.md:212`).
- An update of two fields beside another process's update may at no single instant hold
  both (only what differs from the row read is written); a success whose reply fails is
  followed by the internal error though it is stored; a list longer than one message is
  answered with the internal error.
- A connection error in the welcome or in one alert ends the handler, and with it the
  remaining alerts (`main.py:440`); `OnMeansAlert` speaks of handlers that came through.

## 6. Abstractions

- Discord's and discord.py's own retries, and Postgres, are external; a committed
  statement is atomic. A claim whose acknowledgement is lost is `ClaimFails` with
  the row stored.
- The guild is always present: the process ends otherwise (`main.py:279`).
- Reminder dates: in `ReminderScheduler` the weekday and the dates of each month
  condition are constants; `Calendar` is what computes them.
- `BotLifecycle`: statements too short for a unit of time are not told apart; the
  session pre-flight, the welcome message, alerts and the sentinel file read by
  `health/liveness.py` are left out; the platform's restart back-off is none.
- A tick without a connected gateway, and an auto-kick tick whose query fails, do
  nothing and are stutters.
- In `RoleSync` the changes of siege-web have distinct stamps; administrators
  change no day role by hand; notification data is a schedule and a fire time.
- In `AutoKick` one unit of time is the window; the first message's timestamp is a flag.
- In the editor the view's timeout of 300 s is a member who clicks no more; the
  commands ask for one stronghold level (None), so the cache has one entry;
  `/post-conditions` and `-get` only read; a 429 answered while the preferences
  are read is a retry that changes nothing.
- In `OfficerCommands` the format of a parameter is valid or not, a notification's dates,
  target and text are one `body`, and embeds or lists are too long or not.
- In `GridView` the embed is the set of what it lists; its truncation at 4096
  characters is left out.
- In `SidecarApi` a name is a model value; the first of two bearers of a name is any of
  them; `slowapi`'s rate limit and the generated documentation pages are left out.
- In `Rollout` a row is the channel it names; the three releases are those that added
  rows; the platform's update is one step, with both revisions up until the new one runs.

Not modelled, and why:

- `telemetry.py`, `config.py`, `db/`, most of `migrations/`: I/O and set-up.
- `roles/seed.py`: one upsert per guild and day; `RoleSync` takes its rows as the
  constant `Seeded`. The role preflight only logs.
- `health/liveness.py`: a script over a sentinel file that no deployment calls any more.
- `scripts/`: a smoke bot of a superseded layout and a probe of database access, run by
  hand.
- The wording and the layout of replies.

## 7. Plan

All components named above as modelled are, and the safety and action properties of the
passing runs are proved. What could still be proved: that the hypotheses of the theorems are
needed where section 5 gives a counterexample (one replica, two days), and the
safety part of the leads-to properties, that a step towards the end is never undone.
