# Specifications of fynsv

TLA+ modules for the programs of this repository that keep state and can go
wrong in ways a unit test hardly reaches: the Discord bot `connect` with its web
admin, the health-checker and the web page of the status page, and the Go
services `misskey-mixi2-link` (both directions, and the watcher it shares) and
`swarm-gcal-sync`. Paths below are relative to `src/services/`.

## 1. Inventory

| Part | State it keeps | Operations | What it talks to | What is hard | What makes it correct |
| --- | --- | --- | --- | --- | --- |
| **connect: reminders** (`arona/discord-bot/connect/src/server/features/reminder.ts`) | table `reminders` (SQLite), pending `setTimeout`s, sends in flight | `/remind`, `schedule`, `fire`, `deleteReminder` (web admin), ClientReady | Discord; the web admin in the same process | timers that outlive their row, 32-bit delays, restarts, a cancel racing a due timer | posted at most once, never early, never after its cancellation; no row forgotten |
| **connect: Misskey forwarding** (`features/misskeylink.ts`, `misskey.server.ts`) | `cursors`, `forwarded_notes`, the stream, a chain of handlers | `backfill`, `handleNote`, `connect`, `enqueue` | Misskey REST and streaming, Discord | crash between send and mark, gaps between fetch and subscription, reconnection, one cursor for many guilds | duplicates and misses only where the code cannot do better; past notes silent; received notes handled |
| **connect: settings** (`guild-settings.server.ts`, `settings.server.ts`) | `guild_settings` | `saveSettings`, `loadSettings`, `listEnabled` | web admin, every feature, Discord | an await between validation and write, last write wins | what is stored was valid and permitted when it was stored |
| **connect: role sync** (`features/rolesync.ts`) | members' roles at Discord | paged scan every 15 minutes | Discord | members change while they are paged | everyone who stays and is eligible gets the role; scans do not overlap and do not stop |
| **connect: sessions** (`auth.server.ts`, `access.server.ts`, `cookie.server.ts`) | `sessions`, two cookies per browser | login, callback, logout, access check | Discord OAuth2, browser | logins abandoned, reloaded or opened elsewhere; expiry at its boundary | a session works until it expires or is ended, never after, and in the browser that began it |
| **connect: web admin pages** (`components/panels`, `hooks.ts`, `api.ts`) | React state | load, edit, save, cancel | server functions | answers out of order, edits during a save, other administrators | what is shown and saved belongs to the guild on the page and to what was entered |
| **connect: process, welcome, profile, time** (`app.server.ts`, `features/welcome.ts`, `shared/jst.ts`) | none of their own | login; a message per event; `parseJst` | Discord | dates that do not exist, the turn of the year | the next instant a text can mean, or none |
| **health-checker: loop** (`status-page/health-checker/src/index.ts`, `rollup.ts`, `db/`) | Turso tables `snapshots`, `rollups_30m`, `service_meta`; `lastCleanup` | startup, `tick`, `rollupRange`, `backfillRollups`, `maybeCleanup` | Turso, the checks | requests that fail or whose answer is lost, stops between two writes, deletion against re-aggregation | rollups agree with snapshots; the loop goes on |
| **health-checker: checks** (`checks.ts`, `proxmox.ts`) | none | http, tcp, ping, docker | the services | timers racing answers and connections | the snapshot says what was answered in time, no socket is left |
| **status-page web** (`status-page/web/src`) | cached queries, a cached page, React state; reads Turso | uptime, gaps, the page, its refresh, the range | Turso, browser | bucket boundaries, three caches that each serve what is old | every check on its bar, every silence a gap, the page follows the checker |
| **misskey-mixi2-link** (`arona/misskey-mixi2-link`, `arona/shared`) | `bridged_posts`, `cursors`; two channels of 64; connections | `Backfill`, `HandleNote`, `HandleMentionedPost`, watchers, shutdown | Misskey, mixi2, Turso | retried posts, events sent again, full channels, shutdown without draining | as for the forwarding, in two directions |
| **swarm-gcal-sync** (`arona/swarm-gcal-sync`) | the calendar's events | daily sync, backfill, upsert | Foursquare, Google Calendar | paging by offset, the window of 25 hours, stop at the first error | every check-in of a run's time has its event |
| archived bots, router, Terraform, dotfiles, scripts | | | | | not modelled |

The parts of `connect` share one process and one SQLite file. Handlers run to
their first `await` without interruption; two features meet only in the
`guild_settings` rows an administrator edits. The bot and the health-checker
share nothing.

## 2. Modules

### Reminder, ReminderPromise, ReminderProofs, MCReminder

`Reminder` is the feature as it is coded. `reminders`, `lastId` (SQLite's
AUTOINCREMENT) and `enabled` survive a crash; `timers` and `sending` do not.

| Action | Code |
| --- | --- |
| `Start`, `ClientReady` | `startBot`; the ClientReady handler, which schedules every row |
| `Remind` | the InteractionCreate handler up to its first await: the checks, `addReminder`, `schedule` |
| `Reschedule`, `Fire` | the two callbacks of `schedule`; `Fire` is `fire` up to its await, `takeReminder` included |
| `DiscordPosts`, `SendSettles` | `channel.send`: Discord accepts, then the call settles with an answer or an error |
| `DeleteReminder`, `SetEnabled` | the web admin |
| `Tick`, `Crash` | the clock; the process stops, at any point |

`Schedule` and `SetTimeout` keep the chunking: a delay beyond `MaxTimeout` is
what the runtime turns into an immediate call. Channels, texts and permissions
are left out; "the channel is gone" is a choice in `Fire`.

`ReminderPromise` says what users get, without timers, rows or restarts: a
reservation is open until it is due or withdrawn, a due one is posted at most
once or lost on its way, a waiting one is never lost. `PromiseSpec` in
`Reminder` instantiates it with the mapping *open* = the table, *posting* = the
sends not yet accepted, *issued* = `1 .. lastId`.

### MisskeyLink, MisskeyLinkProofs, MCMisskeyLink

Notes are numbers in the order of their ids. `phase` follows the ClientReady
handler (`resolving`, `init` or `fetching`, `backfill`, `live`; `dead` after a
failed request), `conn` and `wire` are the stream, `todo` is the fetched batch
and later the chain of handlers, `note`/`left`/`dest`/`accepted` are
`handleNote` in its loop over the guilds. `Tagged` stands for
`shouldForwardNote`. The database writes of a handler (`SendSucceeds`,
`FinishNote`) are separate steps, so a crash may fall between any two.
`MisskeyWatcher.stop` has no caller and is left out.

History variables: `sent` (messages accepted), `handled`, `initial` and `start`
(the newest note at the first start and where the cursor was initialised),
`gap` (notes posted where neither the fetch nor the stream looks), `unmarked`
(messages out whose mark is not written).

### Forwarding

What the three bridges have in common, without streams, queues, attempts or
processes: an item is accepted by the other side (`copies`), the bridge is told
so (`awaiting`) or not (`doubted`), and records it (`recorded`) or loses track
of it; it moves on from items for good (`closed`). An item is forwarded only if
it is none of `recorded`, `awaiting` and `closed`, and for another time only if
it is `doubted`. `ForwardingSpec` in each bridge instantiates it:

| | `MisskeyLink` | `Mixi2Link` | `MentionLink` |
| --- | --- | --- | --- |
| `Items` | a note and a guild | notes | posts |
| `copies` | `sent` | `sent` | `notes` |
| `awaiting` | the send that Discord has accepted | the note at `record` | the post at `record` |
| `recorded` | `forwarded_notes` | `bridged_posts` | `bridged_posts` |
| `doubted` | `unmarked` | `unmarked` | `doubted` |
| `closed` | what the cursor has passed | what the cursor has passed | nothing: there is no cursor |

### HealthChecker, HealthCheckerProofs, MCHealthChecker

`phase` follows `loop()`. The database is remote: every request may fail, and
one that writes may have been applied all the same (`InsertSnapshot(FALSE)`,
`BackfillFails`, `RollupFails`, `CleanupFails`). Nothing else writes to these
tables, so the select and the upsert of `rollupRange` are one step. A snapshot
is its `recordedAt`; a rollup row is the set of snapshots it sums, which is
finer than its counts. The checks of a pass are the time between `TickBegins`
and `InsertSnapshot`. All services are in every snapshot; the partial entries
of a service switched off in between are not modelled. The retries of `initDb`
change nothing and are left out.

History variables: `taken` (all snapshots ever recorded), `unrolled` (those
whose own rollup did not take place), `severed` (those deleted while their
bucket was still the newest one with a rollup, which needs ninety days without
a rollup).

### Mixi2Link, Mixi2LinkProofs, MCMixi2Link

The direction from Misskey to mixi2 of `misskey-mixi2-link`. `phase` follows
`main`: `starting` up to the user id, `cursor`, `init`, `fetching` and
`backfill` in `Backfill`, `live` once the watchers run, `stopping` between the
signal and `os.Exit`. `stage` follows `HandleNote`:

| Action | Code |
| --- | --- |
| `Lookup`, `LookupFails` | `IsProcessed`, the filter, the dry run's return |
| `UploadImages`, `UploadFails` | the loop over the images in `forward` |
| `CreatePost`, `CreateFails` | one call of `CreatePost` in `retry.DoDefault`, which may have made the post although it fails |
| `Record`, `RecordFails` | `store.Record`, which may have been applied although it fails |
| `AdvanceCursor`, `AdvanceFails` | `advanceCursor`; its read and its write are one step, nobody else writes the cursor |
| `Shutdown`, `Exit`, `Crash`, `Restart` | the signal, `os.Exit(0)` with the worker wherever it is, a kill, Docker |

`ReturnError` is where the two callers differ: the worker logs the error and
goes on, `Backfill` gives the rest of its batch up. While `stopping` the
clients are closed, so requests fail without counting against `MaxFailures`.
The watcher is not repeated here: `Watcher` shows that notes come through in
order, that a full channel loses none, and that others may be lost with a
connection; in `Mixi2Link` a note of a live process joins `todo`
(`PostToStream`) or does not (`PostUnseen`).

History variables: `sent`, `handled`, `gap`, `unmarked`, `initial`, `start` as
in `MisskeyLink`; `failed` (given up after an error), `skipped` (what a failed
backfill left out), `away` (posted while the process was down).

### Watcher, MentionLink, SwarmSync, AronaProofs, MCArona

Three Go components that share no state. `MCArona` extends all three and chooses
one of them at the start of a behaviour, so that one run covers them; its
temporal properties are those of the modules, of the behaviours of their part.

`Watcher` is `arona/shared/misskey/watcher.go`: `reader` follows `connectLoop`
and `connectOnce` from one point where another goroutine may come in between to
the next (the critical sections of `w.mu`, the dial, the write, the blocking
read, the send on the channel). `registered` says whether `w.conn` is the
reader's connection or an old one, which is what `Stop` goes by. `worker` is
`TakeNote` and `NoteDone`. Misskey posts at any time; a connection may be cut at
any time, and the reader still gets a part of what had come down it. Which
envelopes are skipped is left out: the notes of the model are the account's own.
History variables: `handed` (the notes given to `onNote`, in order), `lost`
(posted unseen, or gone with a connection or at `Stop`).

`MentionLink` is the direction from mixi2 to Misskey: `Client.Watch` in
`mixi2/client.go` and `HandleMentionedPost`.

| Action | Code |
| --- | --- |
| `SendEvent` | mixi2 sends the event of a mention, for the first time or again |
| `Connect`, `ReadEvent`, `Enqueue` | `watcher.Watch`, `eventHandler.Handle`, `queue <- ev` |
| `StreamEnds`, `PauseOver`, `WatchReturns` | the loop of `Watch` around a stream that ends, its delay, a cancelled context |
| `TakeEvent` | the worker's `range queue` |
| `LookUp`, `GivesUp` | owner, `IsProcessed`, empty texts, the dry run; an error that is returned and logged |
| `ImagesUploaded`, `CreateNote`, `NoteFails` | the loop over the images; one call in `retry.DoDefault`, which may have made the note although it fails |
| `RecordPost`, `RecordFault` | `Store.Record`, applied or not |
| `Begin`, `Signal`, `Halt`, `StartAgain` | `main` before and after its signal, a kill, Docker |

`OwnersPosts` stands for what the filters let through, `WithImages` for those
that have images. The SDK's stream is external: it may end between any two
events, and what was on its way is gone. After a signal the store is closed
(`Fault`) while the worker and a blocked reader go on until `os.Exit`. History
variables: `notes`, `taken`, `doubted` (a note without a record), `gone` (an
event given up or cut off).

`SwarmSync` is `swarm-gcal-sync`: `runs` holds the daemon's run and one by hand,
each at `fetch`, `insert` or `update`; `Night`, `ByHand` and `FetchPage`,
`Insert`, `Update`, `RunFails`, `RunDone` are `runDaemon`, `main`, `FetchSince`
and `FetchAll`, and `upsertAll` with `UpsertCheckin`. Check-ins are numbers in
the order they are made; a page is cut, newest first, from what there is when it
is asked for (`Found`, `Page`). Google keeps a deleted event's id, so inserting it again is a 409 and then
an update. `runutil`'s signal and a kill are one action, `Stopped`. An observer
notes in a run the time it is for, the check-ins removed between its pages and
the events deleted under it (`LeftOut`, `finished`).

### GuildSettings, RoleSync

`GuildSettings` is a save of the rules of the role synchronisation. `saving[u]`
is `putSettings` at one of its awaits: the access check, and the check of one
target after another in `invalidReference`. What was read before an await is in
the record and used after it. `CheckRules` runs the loop from one await to the
next, the write included when no target is left. The guild (`held`, `roles`)
changes under it: members come, leave and change roles, roles are deleted.

`RoleSync` extends it: `scan` is `run()` in `registerRolesync`, waiting, listing
or adding the roles of one member of a page. `Walk` goes over a page up to the
next request; `NextPage` is `members.list`, which goes by the members' ids
(`Rest`). `BeginScan`, `PageArrives`, `ListFails`, `AddRole`, `AddFails` and
`Crash` are the rest. `Next` composes the scan with the saves: the only
coupling is the row `settings`, read when a scan begins, and the guild.

Observers: `seen[u]` (what was true at some time during u's save), `vouched`
(roles that somebody who asked for them could have granted), `owed` (who has
been due a role since the scan began), `granted`.

### Sessions, GuildPage, ProfileForm, Jst

`Sessions`: browsers, logins and the callbacks that await Discord. A login is
its `state`; the callback's address may be opened in any browser, again or
late. `Callback`, `Exchanged`, `ReadAnswered` and `CallLost` are the pieces of
`handleCallback` between its awaits. Cookies expire by `Max-Age` (`Sent`).

`GuildPage`: one browser on the page of a guild. `form`, `isSaving` and `shown`
are the state of `SettingsCard` and of `useAsync`. Settings are told apart by the
guild their texts were loaded for (`from`) and the guild whose channel they name,
which is always chosen among those of the guild on screen (`Offered`). Requests
are served and answered in any order, and a request carries what it asks for or, once it is
served, what it will answer. `Close` unmounts the page, `JumpTo` goes to another
guild's page without unmounting it, which the browser's history can do.

`ProfileForm`: `ProfilePanel`, for several administrators; `ClickSave` puts the
body together, `FilesRead`, `Update`, `Saved` and `SaveFails` follow.

`Jst`: `ParseJst` is the function `parseJst` on the numbers of a text, with
JavaScript's `Date` as it carries over; its reference walks a calendar, which is
`Years` years long.

### MCConnectAdmin, ConnectAdminProofs

The instance of the five modules above. `RoleSync` with `GuildSettings` is one
part, the four others are parts of their own; they share no state, and a
behaviour is one of one part.

### Checks, Uptime, StatusView, StatusPageProofs, MCStatusPage

`Checks` is one pass of the health-checker: `tick` up to its snapshot, with a
timer and a socket per service. `TcpOpens`, `TcpFails` and `TimesOut` are the
callbacks of `tcpCheck` in any order; `HttpAnswers`, `DockerAnswers`,
`PingExits` and `RequestFails` the other kinds; `ResourcesArrive` the request to
Proxmox beside them.

`Uptime` is what `lib/uptime.ts` and `lib/db.ts` compute of the tables: `Bars`,
`Total`, `RollupGaps` and `RawGaps` are operators over the checks `taken` so
far. `firstEver` is the cached answer to when the first rollup was.

`StatusView` is the page in a browser: the checker's writes, the cached queries,
the cached page, what is on screen, and the range of `HistoryProvider`. A unit
of time is a minute, in which `AutoRefresh` fires at least once.

`MCStatusPage` is the instance of the three, again one part per behaviour.

## 3. Runs

| Run | States | What it shows |
| --- | --- | --- |
| `reminder` | 175 028 | nothing is posted twice or early (`Safe`: `AtMostOnce`, `NeverEarly` and the types), `CancelledStaysSilent`, the promise (`PromiseSpec`) and `EventuallySettled` |
| `misskey_link` | 367 380 | who may get a note twice (`Safe`), which notes may be missed (`MissedOnlyInGap`), that nothing behind the cursor or older than the first start is sent (`OldNotesStaySilent`), that what is marked or passed is never sent again (`ForwardingSpec`), that received notes are handled (`ReceivedIsHandled`) |
| `misskey_link_limit` | violation | `MissedOnlyInGap` fails when more notes than `FetchLimit` were posted while the bot was stopped |
| `health_checker` | 332 143 | what the rollups count (`CountedUnlessCutShort`) and that they have no hole (`Safe`: `NoHole` and the types), what a backfill repairs (`BackfillRepairs`), that a failing pass ends in its pause (`PassEnds`) |
| `health_checker_backfill` | violation | `BackfillCoversAll` fails: older buckets than the newest rollup are not looked at |
| `health_checker_start` | violation | `StartLeadsToChecks` fails: `syncServiceMeta` ends the loop |
| `arona` | 639 927 | the watcher hands notes over once and in order, and a full channel drops none (`AronaSafe`); after a lost connection it dials again, and a note it has is handed over (`WatcherGoesOn`); a mention becomes one note except in doubt (`ForwardedOnce`), none once it is recorded (`ForwardingSpec`), and one that was read is forwarded unless an error or a stop takes it (`MentionGoesOn`); a run without an error leaves no check-in of its time out but for removals between its pages (`LeftOutOnlyByRemovals`) |
| `mixi2_link` | 945 592 | who may be posted twice (`Safe`) and how often, history not at all (`RepeatsBounded`), a record means a post (`NoSilentLoss`) and keeps the note from being posted again (`ForwardingSpec`), what may be missed, dry runs included (`MissedOnlyInGap`), a received note is handled in the end (`ReceivedIsHandled`) |
| `mixi2_link_backfill` | violation | `BackfillCatchesUp` fails: after a failed backfill the live notes move the cursor past what was missed |
| `connect_admin` | 207 874 | what is in force or was granted, an administrator could have granted (`AdminSafe`); what is stored was checked within its own request (`StoredWasChecked`); a scan serves all who stay (`StayersServed`) and the roles arrive (`EventuallySynced`); logins (`SessionLivesItsTerm`, `OnlyOwnLogins`); the guild's page (`SettingsStayHome`, `ListIsCurrent`); the profile form (`OnlyWhatWasEntered`); times (`ParsedIsNext`) |
| `status_page` | 107 580 | a snapshot says what was answered in time (`StatusSafe`), a pass ends and leaves no connection (`CheckPassEnds`); every check is on its bar (`BarsCountSamples`), every silence is a gap (`GapsExact`); the page follows the checker (`ViewCatchesUp`) |
| `status_page_refresh` | violation | `HistoryIsRenewed` fails: bars and charts of an open page are never renewed |

### Bounds

- `reminder`: two users, two guilds, one pending reminder each (so the limit is
  met), instants 0..3 with `MaxTimeout` = 1 (so a wait takes up to three
  timers), two ids (so a reused id would be seen), one crash. Two rows are what
  it takes for a timer to meet the row of another reservation.
- `misskey_link`: two guilds and three notes tagged for both, for one and for
  the other, any number of them older than the first start; two crashes (so one
  during recovery), one cut of the stream, a fetch that covers what was missed.
  `misskey_link_limit` has a fetch of one note and four notes.
- `arona`, watcher: a channel of two and five notes, so that the channel is full
  while one note is held back, one is on the wire and one is at the worker.
  Nothing bounds the dials. Mentions: two posts of the owner, one with images,
  and one of somebody else, three events (so one comes again), a channel of one
  and two calls, two faults and one stop. Check-ins: two of them, days of two
  hours and an hour of overlap and of delay, so that the second night may run
  late and its window leaves out what is older; pages of one check-in, so that
  every run has several; one removal, one error, one run by hand.
  `CHECK_DEADLOCK FALSE`: after `Stop` the watcher ends, when mixi2 and Misskey
  are silent the bridge waits, and the days are bounded.
- `mixi2_link`: three notes (one with images, one filtered out, one of text),
  two calls of `CreatePost`, two failing requests (so a note can use up its
  attempts, or a failure can be followed by another), two stops, a fetch that
  covers what was missed (the limit of 100 is the one `misskey_link_limit`
  shows). `CHECK_DEADLOCK FALSE`: when Misskey is silent and nothing may stop
  any more, the bridge waits.
- `health_checker`: buckets of two instants, chunks of two buckets, a retention
  of a bucket and a half, so that clean-ups cut buckets in two; eight instants,
  two failing requests, one crash. The two violations need one failure.
  `CHECK_DEADLOCK FALSE`: the clock is bounded and the loop may end (`ended`),
  so the system really may stop. The clock in `reminder` is bounded too, but
  the web admin can always act.
- `connect_admin`, role sync: three members with pages of two (so a scan has a
  full page and a rest), two of them administrators by turns, one the owner;
  three roles in a hierarchy, rules that chain; two saves that overlap, one
  change of the guild, one failure. Sessions: two browsers, two logins, a state
  of one unit and a session of two, up to time 3, so that both expire within a
  behaviour. Page: two guilds with a reminder each, five requests. Profile: two
  administrators, two edits. Times: clocks at the turns of 2027 and 2028 and on
  a leap day, texts with months, days, hours and minutes that do and do not
  exist, a calendar of fifteen years (a month of 99 carries over by eight). `CHECK_DEADLOCK FALSE`: each part has done all it may in the end.
- `status_page`: five services, of every kind, two of them at Proxmox; http
  answers 200, 401 and 503. Bars: checks at least 2 apart in buckets of 4, a
  threshold of 5, a raw range of 9 and a clock up to 13, which is three buckets
  and a part; ranges of two bars of one and of two buckets. Page: ages up to 4,
  beyond the 3 that count as stale, caches of one minute, two events (a stop of
  the checker, a deployment, a failed request). `CHECK_DEADLOCK FALSE`: a pass
  ends, and so does the clock.

### Fairness

Only what the runtime does is fair: time passes, the container is restarted
(`restart: unless-stopped`), login completes, due timers run, requests are
answered or fail, the handler and the loop run on. Users, administrators,
Misskey, mixi2 and crashes owe nothing; crashes are bounded, so the process is
up long enough in the end.

- `Reminder`: `DiscordPosts` is not fair: a send may settle without having been
  accepted.
- `Watcher`, `MentionLink`: the goroutines are fair, which assumes that `Dial`,
  `onNote` and the requests return; a read need not, and no event need come.
- `Mixi2Link`: the startup, the handler, the exit after a signal and the restart
  are fair; each has a failing outcome as long as `MaxFailures` allows.
- `HealthChecker`: the loop is fair, which assumes that a database request does
  not hang for ever.
- `RoleSync`: the scan's steps are fair, its timer included.
- `Checks`: timers, connections that open or fail, and the snapshot are fair;
  answers are not.
- `StatusView`: minutes pass, `AutoRefresh` fires and a page that is being made
  gets made; clicks and fetches of a range need not be answered.
- `SwarmSync` has safety properties only. It assumes that a night's run takes
  less than a day, and that the job is late by no more than the overlap.

### Findings

1. `misskey.server.ts:39`: the backfill fetches one page of 100. With more
   notes missed, the first live note moves the cursor past the rest. README and
   a comment promise the missed notes without a limit.
2. `rollup.ts:94`: the backfill starts at the newest rolled-up bucket. A bucket
   whose last rollup failed stays incomplete once a later one succeeded.
   README: the periods not yet aggregated are backfilled at startup.
3. `index.ts:88`: `syncServiceMeta` is outside every `try`. One failing request
   at startup ends `loop()`, while `/healthz` goes on answering, so the
   container is not restarted and nothing is checked.
4. `misskey-mixi2-link/main.go:90`: a failed backfill is logged, the streams
   start, and the next live note moves the cursor past everything the backfill
   was to catch up on. README: notes of a pause are backfilled at the start.
5. `history-provider.tsx:33`: the page's refreshes hand new bars, charts and
   gaps to `HistoryProvider`, which took its props once as the initial values of
   its state. README: the top page renews itself every 30 seconds.

Consequences of the code that the properties excuse by name or allow, rather
than report:

- A message whose mark could not be written is sent twice (`Safe`), and without
  a cursor (the account had no notes at the first start) a crash before the
  first note is finished makes the restart count as a first start
  (`ReceivedIsHandled`, `n <= start`).
- `misskeylink.ts:90`: a request that fails at ClientReady leaves the forwarding
  dead until the next restart, which `ReceivedIsHandled` leaves out (nothing is
  received meanwhile); `MissedOnlyInGap` says that the restart then finds what
  was posted.
- `watcher.go:98`: `Stop` during `Dial` closes the old connection or none; the
  new one is adopted and read until a note of the account's own arrives. Both
  callers end the process right after.
- From mixi2 to Misskey, events on the stream or in the channel are lost at a
  stop (`gone`); the handler's comment says that a failed forward is lost.
- `swarm-gcal-sync`: a night whose run failed, or that the daemon was down for,
  is made up by the next one for an hour at most, and by a backfill. A check-in
  that is removed while a run pages shifts another one out of it.
- Two saves of the rules that overlap: the later write stands as a whole, with
  targets its author could not grant but that were in force when it began.
- After the history went from one guild's page to another's, the card still has
  the other guild's form, and may get it back from a late answer. Saved here, its
  texts (a message, a hashtag) become this guild's, with no channel or with one
  of this guild that was chosen meanwhile; only the other guild's channel is
  refused (`invalidReference`). `SettingsStayHome` says that this takes such a
  step of the history to the very guild, and that no foreign channel is ever
  stored. A save
  of the profile clears what was typed in during it (`OnlyWhatWasEntered` is
  about what is sent).
- Checks are more than a minute apart, so an uptime stays somewhat below 100 %;
  the newest bar of a healthy service is empty or a gap before the first check
  of its half hour; a service added later has bars of 0 % before its time,
  `firstEver` being of all services; the chart of snapshots shows no gap before
  the first snapshot in its range.
- A range whose fetch fails makes the page show an error in its place
  (`failed`).

## 4. Proofs

Every theorem holds for any values of the constants that satisfy the modules'
named assumptions; no proof module adds one. The assumptions say that sizes,
limits and bounds are natural numbers (positive where the code's constants
are), that placeholders are not among the values (`NoGuild`, `GuildList`), that
chunks are whole numbers of buckets, that a late night is late by no more than
the overlap (`SwarmAssumption`), that there are finitely many members
(`PageAssumption`), that the fields of a text have two digits and the calendar
goes on for as long as they may carry over (`JstAssumption`), and, in
`HealthChecker`, that the clock's bound is not
before its first instant (`CleanupInterval <= MaxTime`).

None of the safety properties is inductive as it stands. Each proof module has
an invariant that is, a lemma per action (or per group of actions that disturb
the same part), and theorems that read the properties off it. The composed runs
(`MCArona`, `MCConnectAdmin`, `MCStatusPage`) show one part per behaviour:
`OnePartMoves` says that a step of the composition is a step of one part and a
stutter of the others, so the conjunction of the parts' invariants is kept.

| Module | Theorems | Run properties they state |
| --- | --- | --- |
| `ReminderProofs` | `ReminderSafe`, `CancelledNeverPosted`, `RowsAreTimed`, `ReminderKeepsPromise` | `Safe`, `CancelledStaysSilent`, `PromiseSpec` |
| `MisskeyLinkProofs` | `LinkSafe`, `LinkOldNotesStaySilent`, `LinkKeepsPromise`, `LinkMissesOnlyInGap`, `LinkMissesOnlyInGapIfAllFit` | `Safe`, `OldNotesStaySilent`, `ForwardingSpec`, `MissedOnlyInGap` |
| `HealthCheckerProofs` | `SnapshotsStayCounted`, `RollupsHaveNoHole`, `BackfillCompletes` | `CountedUnlessCutShort`, `Safe`, `BackfillRepairs` |
| `Mixi2LinkProofs` | `BridgeSafe`, `BridgeRepeatsBounded`, `BridgeLosesNothingSilently`, `BridgeKeepsPromise`, `BridgeMissesOnlyInGap`, `BridgeMissesOnlyInGapIfAllFit` | `Safe`, `RepeatsBounded`, `NoSilentLoss`, `ForwardingSpec`, `MissedOnlyInGap` |
| `AronaProofs` | `WatcherDeliversInOrder`, `MentionForwardedOnce`, `MentionKeepsPromise`, `SwarmLeavesOutOnlyRemoved`, `AronaIsSafe` | `ForwardedOnce`, `ForwardingSpec`, `LeftOutOnlyByRemovals`, `AronaSafe` |
| `ConnectAdminProofs` | `GrantsAreVouched`, `StoredSettingsWereChecked`, `StayersAreServed`, `SessionsLiveTheirTerm`, `LoginsStayTheirOwn`, `SavesOnlyWhatWasEntered`, `GuildsKeepTheirSettings`, `ReminderListsAreCurrent`, `TimesAreNext`, `AdminIsSafe`, `AdminKeepsItsPromises`, `AdminWritesWhatWasMeant` | `StoredWasChecked`, `StayersServed`, `SessionLivesItsTerm`, `OnlyOwnLogins`, `OnlyWhatWasEntered`, `SettingsStayHome`, `ListIsCurrent`, `ParsedIsNext`, `AdminSafe` |
| `StatusPageProofs` | `SnapshotsAreTrue`, `BarsAreOfChecks`, `GapsAreSilences`, `StatusIsSafe` | `StatusSafe`, `BarsCountSamples`, `GapsExact` |

`QueueLemmas` has the facts about queues that the bridges share (what appending,
taking and cutting do to the entries and the order of a queue) and those that
several proofs need about sets of numbers and division: a set has a least
element (`FirstOf`), its elements can be numbered in order (`Ranks`, for pages
of members and for ORDER BY), and a number lies in one multiple of another
(`Quotient`, for buckets and for days). Where a model picks "the newest" or "the
i-th" of a set with CHOOSE, these and `LastOf`, `PageOfMembers`, `FirstBucket`,
and in `AronaProofs` the lemmas about places, show that there is one.

**Reminders.** That a timer never sets off another reservation's row needs
`TimersMatch`: every timer that bears the id of a row was set for that row. It
survives `/remind` because a new id is larger than every id at large (`Issued`,
`NewIdFresh`), which is AUTOINCREMENT. `NeverEarly` then follows from
`TimersNotEarly` (a timer that is to fire is due no earlier than its row) for
the row taken. `AtMostOnce` and `CancelledStaysSilent` rest on `TakenOnce`: a
row in the table was never posted, a row being sent is no longer in the table,
and an id is sent once. `TimersOfReady` says that timers and sends belong to a
ready process. `IInv` is the conjunction. The refinement of `ReminderPromise`
uses it for its two hard steps: what `Fire` takes is due, and what Discord
accepts was not posted before. `RowsAreTimed` (every row of a ready bot has a
timer that wakes in time) is proved and no run's property, since
`EventuallySettled` fails with it. The clock of the model is the one timers go
by: that `setTimeout` may run a millisecond early, or the wall clock be set
back, is not modelled.

**Misskey forwarding.** `LinkInv`: the notes on their way to the handler are in
order and newer than the cursor (`Waiting`), so the cursor never jumps over one
of them; a bot with a cursor is past the notes older than its first start
(`PastIsPast`); and a pair of a note and a guild has one message exactly when it
is marked or about to be, unless it is in doubt (`Marked`). `MissedOnlyInGap`
does not follow for every `FetchLimit`: it is finding 1 that it fails when more
notes wait than a request returns. `LinkMissesOnlyInGap` therefore has the
hypothesis `[]BatchFits` (whenever the bot fetches, at most `FetchLimit` notes
are newer than the cursor), and `LinkMissesOnlyInGapIfAllFit` discharges it for
`FetchLimit >= MaxNote`, which is how the run has it. The invariant behind both
is `AllAccounted`: each note the cursor has passed is handled or was in a gap,
and each later one waits or was.

**The promise of the bridges.** That each bridge implements `Forwarding` is
proved step by step (`ForwardingNext`), one named action of `Forwarding` for
each step that posts, records, loses track or moves the cursor, a stutter for
all others. What it takes from the invariants is the moment of posting: what is
in flight or at `post` was found unrecorded, nobody else records it since the
handlers run one at a time (`Marked`, `Books`, `HandlesUnrecorded`), it has no
copy outside a doubt, and the cursor is behind it (`Waiting`). That a cursor
never goes back is what makes every move of it a `Close`.

**Misskey to mixi2.** `BridgeInv` has the same `Waiting` and `PastIsPast`, and
`Books`: what was posted is recorded, about to be recorded, or in doubt; what is
recorded was posted; what the handler leaves behind was posted or has failed.
`WithinAttempts` counts what each process may still post, from which
`RepeatsBounded` follows. `BridgeMissesOnlyInGap` needs `BatchFits` as above.

**mixi2 to Misskey.** `MentionInv` keeps the books of one post: the notes it may
still get in this attempt, and that every note is recorded, about to be, or in
doubt. `MaxCalls` times the events taken bounds them.

**The watcher.** `WatcherInv`: every stage a note passes (the wire, the reader,
the channel, what was handed over) is in order and behind the next (`InOrder`),
and every note posted is in one of them or lost by a connection or `Stop`
(`AllThere`).

**Swarm.** `SwarmInv` holds of each run between any two of its requests: what it
asks for reaches back to the beginning of the time it is for, however late the
night (`InTime`), and no more of that time's check-ins are passed over than were
removed while it paged (`MissedByRemovals`): while it pages, those before its
offset that are not on its list, and afterwards those without an event that are
not on it. The count goes by the place of a check-in among those there are: a
new one shifts the others to later places, a removed one shifts at most one
across the offset.

**Rollups.** A row is only ever computed from whole buckets, and only for buckets
of which no snapshot was deleted unseen: `DeletedForGood` (a deleted snapshot is
severed or in a bucket older than the newest row, which is never computed
again), `Backfilling` (the chunks done so far are counted, the rest is aligned),
`InTime`, `RowsInBucket`. `RolledUpInv` is their conjunction with the properties.

**Web admin.** `SyncInv`: while a save waits for Discord, what the code has read
for it is covered by what was true at some time during it (`Noted`); the rules
before the one it waits for are judged (`JudgedSoFar`); what is in force, what a
scan has read and what was given is vouched for (`AllVouched`). The last is
what carries `GrantsVouched` over a save whose `saved` is stale: a target that
is not judged again was in force when the save began, and so vouched for.
`Serves` is the invariant of a scan: whoever is owed a role is on what is left
of the page or has an id after it, which holds because pages go by id.
`LoginInv` follows a `state` from the browser it began in through the callbacks
to the session (`OwnLogins`), with Discord taking a code once (`OncePerLogin`)
and the table holding what is neither ended nor swept (`TableIsCurrent`).
`PageInv`: unless the history went to a guild's page from another one, settings
stored for it or on their way are its own, and on its page whatever belongs to
the mounting belongs to it (`AtHome`); what the latest effect lists is the guild's and
without what was cancelled before (`ListsAreCurrent`). `ProfileInv`: the body of
a save is what was entered at the click. `AdminInv` is these and `TimeInv`
together.

**Times.** `JstInv` says that the instant that was read is what `ParseJst` makes
of the text, and `JstInvSays` that this is the first of the candidates that read
as the text, or none if there is none. The work is in the calendar. Its sums are
recursive functions; without induction they are shown to be what closed forms
say, months by a function that satisfies the twelve equations (`MonthsBegin`),
years because one more leap year is one more element of the set that is counted
(`YearsBegin`). So days and dates correspond one to one (`CalendarShows`,
`OneDate`). `EpochOfValid` and `EpochOfInvalid` read off that `JstToEpoch`
accepts just what was not carried over. `DatedFits` shows that 731 days hold
every occurrence of a date in this year and the next, because no two years in
succession are leap years.

**Status page.** `PassInv`: a check is open exactly as long as its timer is on, and
its service is "up" exactly when it has answered well (`VerdictsAreTrue`); so
what comes after the timer, or after the snapshot, finds a verdict that stays
(`SnapshotIsLast`).

**Bars and gaps.** `DrawnInv`: the types, finitely many checks, and `FirstIsFirst`:
the first bucket that was cached stays the first of all, since rows are never
taken away and the clock does not go back. What is left are facts about one
state. A bar's sum is a fold over a set; `SumOfKeys` says that such a sum over
sets that do not meet counts each check once, by the least set of keys for which
it would not. `BarOfBucket` and `RowsInWindow` put every bucket of a range on
just one bar, so no check is on two or on none. The gaps of the rollups are a
recursive function along the buckets: one that satisfies its equations exists, by
the least number of buckets for which none would (`CanGo`); the code's is such a
one (`GapsAreFold`), and its values list just the silences so far, by the first
bucket after which one would not (`OneMoreBucket`, `RollupGapsAreRight`). Those
of the snapshots compare neighbours in their order (`TimesInOrder`,
`Neighbours`).

**Only model-checked.** Liveness under fairness and ENABLED are out of the
prover's reach: `EventuallySettled`, `ReceivedIsHandled` (both bridges),
`PassEnds`, `WatcherGoesOn`, `MentionGoesOn`, `EventuallySynced`,
`CheckPassEnds`, `ViewCatchesUp`. Every other property of a passing run, each
invariant, action property and refinement, is a theorem. `MissedOnlyInGap`, in
both bridges, is one under a hypothesis that the runs satisfy and finding 1 is
about. The findings are counterexamples, of which nothing is to be proved.

## 5. Plan

Done: the models of section 2, their runs, and the proofs of section 4. What
could follow: the averages of the charts, and the retries inside the clients of
Misskey and Foursquare as parts of their own.

## 6. Not modelled

Rendering, the averages that charts draw, message texts and the filters on them,
welcome messages and the list of guilds (one message or one read, without state
of their own), OAuth2 inside Discord, Foursquare and Google, the Discord
gateway's own reconnections, what the statistics of Proxmox say, the JSON API,
the archived bots, and the infrastructure files. `GuildPage` takes the channels of
a guild as one that stays: a channel that is deleted is refused when it is saved,
and skipped when it was stored before. Disk failures of SQLite: a
statement that fails throws into a handler whose caller logs it; it is taken not
to happen.
