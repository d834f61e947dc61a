# wifi-shepard in TLA+

wifi-shepard is a daemon that watches the clients of one or more UniFi
controllers, and sends a client that is stuck on a bad access point a BTM
request (802.11v) or a deauthentication so that it reconnects somewhere better.
It kicks real devices off a real network by itself, so what matters is what it
must *not* do: kick too often, kick a device it was told to leave alone, kick
twice for one decision, or lose the record of what it did.  This directory
specifies that behaviour, model-checks it with TLC on small instances, and
proves with TLAPS, for every instance, each property of a passing run but the liveness
ones.

## 1. The system and its parts

Paths are relative to `src/src/`.

| component | state it keeps | operations | talks to |
|---|---|---|---|
| Daemon (`wifi_shepard/main.py`) | the live config, the seen digest, the shutdown event, the tasks, what is connected or logged in | start, run, reload (SIGHUP, file watch), shutdown | builds and calls everything below |
| Scanner (`wifi_shepard/scanner.py`) | none between cycles; in a cycle: the polled list, the client in hand, the flagged set, the captured allowlist | run_once, _run_dns_thrash, update_config | controller, store, pipeline, DNS detector |
| Actor (`wifi_shepard/actor.py`) + PendingKicks (`pending.py`) | pending BTM and pending verdict per MAC, last dry-run row per MAC | handle, check_post_kick_outcome | limiter, quarantine counter, store, controller, notifier |
| KickRateLimiter (`rate_limit.py`) | last wire call, one deque of kick times per AP | can_kick, can_wire_call, record_kick, record_wire_call | - |
| BackoffManager and evaluate_backoff (`backoff.py`) | kick count and "notified" per MAC | record_kick, should_quarantine; the pure policy | the ledger, through the actor |
| Scorer, InactivityScorer (`scorer.py`, `inactivity.py`) | a sample window per MAC | ingest, update_config | - |
| DnsThrashDetector (`dns_thrash.py`) | query times per (MAC, domain), the fetch watermark | observe, standings, update_config | DNS sources |
| DNS sources (`dns_sources/`) | session id, last poll status | login, queries_since, close | Pi-hole |
| Store (`db.py`, `db_mysql.py`) | kick_events, reboot_events, samples | inserts, reads, prune | SQLite or MySQL |
| Reboot (`reboot/`) | cooldown and daily count per MAC, the minute last fired | run_due, attempt, update_config | HA registry, rebooter, store, notifier |
| Config (`config.py`, `resolution.py`) | - | parse and validate, per-MAC resolution | - |
| Vendor lookup (`reboot/oui.py`) | - | MAC prefix to vendor name | - |
| UI: config editors (`wifi_shepard_ui/config_io.py`, `settings_schema.py`, `device_config.py`) | the page open in the browser | settings form, device cards | config.yaml |
| UI: read views (`wifi_shepard_ui/views.py`, `app.py`) | none: every request reads afresh | overview, devices, one device, access points, DNS | store, config.yaml |
| Migration (`migrate.py`) | - | copy SQLite to MySQL | both stores |

The daemon is **one asyncio event loop**.  Its tasks are the scan loop (all
scanners, one after the other), the reboot scheduler, the config watch, and the
signal handlers.  Code between two awaits is atomic; at an await any other task
may run.  The UI is a second process that only shares the config file and the
store.  Memory is lost on a restart; the ledger `kick_events` is not.

What is hard about it, and what each part must guarantee:

| behaviour | where it bites | what must hold |
|---|---|---|
| another task runs at every await; a reload swaps the configuration in the middle of a call | `actor.py:150-353`, `main.py:246` | spacing, caps and allowlist hold with respect to a configuration in force, not to a mixture |
| a kick takes several polls (BTM, wait, fallback), its state is in memory, its record in the ledger | `pending.py`, `actor.py:205-257` | one attempt is one BTM and at most one fallback, on the same access point; the verdict of a poll is about the last accepted call |
| any controller, store or notifier call can raise, with or without having taken effect | `main.py:164-184` | the ledger never claims a kick that was not made; the loop comes back to its sleep |
| a restart forgets all but the ledger | `backoff.py:53` | caps and escalation are computed from the ledger and survive |
| limits are windows with closed ends | `rate_limit.py:86`, `cooldown.py:57` | no window of the allowed length holds more than its cap |
| a reboot sweep awaits a registry, a backend and the store for each device | `reboot/scheduler.py:66-113` | nothing unpermitted is rebooted; one device's failure does not cost the others their turn |
| DNS queries are logged while a fetch is under way | `dns_thrash.py:93`, `pihole.py:99` | none falls between two polls, none counts without end |
| two tasks share one SQLite connection and its transaction | `db.py:310-375` | what a call reported written stays, half-written snapshots stay unseen |
| windows of samples and byte counts live through reloads, absences and resets | `scorer.py:58-89`, `inactivity.py:64-117` | a flag is about the last full window, by the thresholds in force; quiet hours never loosen |
| the daemon reads `config.yaml` twice per reload, once for the digest and once to parse it, while anybody may replace it | `main.py:216-284` | the daemon runs a valid file, the one it last saw, and a valid change reaches it |
| a login, a scanner, a close can raise, and SIGTERM or Ctrl-C can come at any stage of the start, the loop or the finally block | `main.py:86-213` | what was opened is closed, every scanner keeps its turn, SIGTERM ends the process |
| a settings page is a copy of the file that goes stale in the browser, and every save writes all of it back | `config_io.py:475-514`, `app.py:568` | the daemon loads what the page asked for; a page saved as it was opened changes nothing it can show; no save leaves a file the daemon rejects, but for what the page leaves in place |
| a page is answered by several SELECTs, each a snapshot of its own, while the daemon commits, prunes and upgrades the schema | `views.py` | figures of one page fit together; the DNS standings are those of the last poll, as far as they were written |

## 2. Modules and their correspondence to the code

| module | models | composed of |
|---|---|---|
| `KickGates` | the three gates of a fresh kick as operators: the ADR-0007 policy (`backoff.py evaluate_backoff`), the ADR-0004 limiter (`rate_limit.py can_kick`), the ledger read (`db.py recent_kick_timestamps`) | - |
| `Actor` | `Actor.handle` and `check_post_kick_outcome` with `PendingKicks`, `BackoffManager`, the limiter's state and the ledger | `KickGates` |
| `ScanLoop` | the daemon's loop and `Scanner.run_once` around the actor: polls, the three detectors, reloads, faults, restarts; the kick properties | `Actor` |
| `Detectors` | `Scorer` and `InactivityScorer` with overrides, quiet hours (`resolution.py`) and reloads (`pipeline.py`): when a client is flagged | - |
| `Store` | every call of `db.py` and `db_mysql.py` as its statements and commit, by the scan loop and the reboot scheduler; crash, shutdown and failure | - |
| `Migrate` | `migrate.py` beside the store | `Store` |
| `Reboot` | `reboot/`: the scheduler task, eligibility, cooldown, daily cap, audit rows | - |
| `DnsThrash` | `dns_thrash.py observe` over the merged Pi-hole sources | - |
| `Attempts` | what ADR-0003 promises of a kick, as a specification of its own: an attempt is one accepted BTM with at most one fallback, or one accepted deauth | implemented by `ScanLoop` |
| `Daemon` | `main.py` from start to exit: construction, `run()` with its logins, loop and finally block, the scheduler and watch tasks, the signals | - |
| `ConfigFile` | `config.yaml` between the settings page, the device cards and an operator with an editor | - |
| `Views` | the read model: what each SELECT of `views.py`, and the Python around it, makes of the tables | - |
| `Pages` | a request for a page, SELECT by SELECT, beside the daemon's writes | `Views` |
| `ScanLoopProofs`, `RebootProofs`, `DetectorsProofs`, `DnsThrashProofs`, `MigrateProofs`, `DaemonProofs`, `PagesProofs`, `ConfigFileProofs` | theorems | the module they are about |
| `MC...` | small instances for TLC | the module of that name |

**The event loop.**  `at` names the await at which the scan task is parked, and
`frame` holds the locals of the handle call in progress.  Each action runs from
one await to the next.  Where a stretch without an await is long, it is split
into several actions; `SyncPoints` names the points in between, and at those
nothing but the scan task may run (`Tick`, `Reload` and `Restart` require
`at \notin SyncPoints`), so the stretch is still atomic.  `cfg` is read where
the code reads `self._config`, and `frame.cf` where it reads a value it captured
before the await.

**Calls that leave the process.**  A controller call takes effect and returns in
one step (`KickSent`, `FallbackSent`), or raises (`WireFails`) with or without
having taken effect.  A store call that raises (`StoreFails`) may or may not have
written its row, the second being a lost acknowledgement.  Notifications change
nothing.  `wire`, `power` and `lived`, `offList`, `permitted`, `roamed` and the
like are observers: the properties read them, the code does not have them, and no
action's guard reads them.

**Time.**  One clock `now` stands for `time.monotonic` and `time.time`.  `Tick`
advances it between any two awaits, so any call may take any time.

**The refinement.**  `ScanLoop` defines `A == INSTANCE Attempts WITH ...`: the
attempt a client has open is its pending BTM, which is spent once its fallback was
accepted and until the row is written; the calls sent are the accepted ones; and
the groups are those given out so far.  `MakesAttempts == A!Spec` is a property of
`Loop_attempts` and the theorem `AttemptsCorrect`.

**Abstractions.**  Rationale texts, log lines and rows that no modelled code
reads are left out, and a configuration is a record of what the modelled code
reads of it.

- `ScanLoop`: the RF and inactivity scorers may flag any client their guards let
  through, or not; which they flag is `Detectors`'.  The closing writes of a cycle are one step.
- `Detectors`: a sample holds the retry rate, not the counts behind it, and its
  bytes are the sum of both counters.
- `Store`: a row is its table, time, call and place, and every table has all its
  columns; the schema upgrade is in `Pages`, where it matters to a reader.
- `Reboot`: the device behind a MAC text is `DeviceOf`, so two spellings of one
  device can be told apart; the loop may miss the scheduled minute.
- `DnsThrash`: a client has one address.  A deque of query times is the set of its
  entries, each a query and the poll that counted it, and `Before` their order.  An
  instance lists its queries oldest or newest first (`NewestFirst`), and only the first
  `Page` of them (`Listed`; 10000 in the code): what is beyond is never fetched.
- `Daemon`: a cycle of one scanner is one step; of the file only the part that
  the wiring depends on is kept (a `dns_sources` entry, a `detection.dns_thrash`
  block), or one of two values for a file that does not parse and no file.  A
  digest is the content itself.  `reading` is the moment between the two reads of a
  reload, `main = "loaded"` the one between the two reads of a start: there is
  no await in them, so no task and no signal handler runs, but other processes do.
- `ConfigFile`: one field of the schema stands for each way in which a kind of
  field is shown, coerced, written, loaded and checked: booleans, integers with and without a
  partner that another check compares them with (the per-AP cap and its window, inactivity and its
  samples), the criteria that a null switches off, a list, keys of optional blocks with and without
  required strings, a secret in a mapping (the Home Assistant token) and two in a list (the
  password of a DNS source and of its instance, the first standing in for the second).  A key
  holds a value, a null, something of the wrong type or out of range, or is not there; a secret is a
  `${NAME}` that the daemon's environment sets (`ref`), one that it does not (`unset`), or the
  secret itself (`literal`).  Beside them are the optional blocks, an unknown override threshold
  (`stray`), the allowlist, and the two leaves of a reboot override that depend on each other.
  There is one DNS source with one instance, and of the three criteria two.  The user interface
  handles one save at a time; an editor may save between its read and its rename.
- `Views`, `Pages`: a table is a function from ids to rows.  A
  SELECT is one step.  A daemon that has not started yet has no tables, and the tables
  of an older one lack the rationale column and the DNS tables.  The scan loop's sleep
  separates two polls, so poll times differ by at least a tick.

Definitions whose comment begins with "A slip" are plausible wrong versions of
the operator beside them.  The specification never uses them; substituting one
shows that a property does detect that mistake.

## 3. What the runs check

Passing runs, with the distinct states TLC finds:

| run | module | question | instance | states |
|---|---|---|---|---|
| `Loop_policy` | MCScanLoop | does the per-client policy hold across restarts, as a cooldown schedule (`EscalationHolds`) and as hourly and daily caps (`CapsHold`), and do dry-run and fallback rows never hold a client back (`DeferralEarned`)? | 1 client, 1 access point, hour 1, day 5, 6 time units, 4 calls, 2 starts | 2,903,009 |
| `Loop_limiter` | MCScanLoop | spacing over the whole controller (`GlobalSpacing`), the per-AP cap in every window (`PerApCap`), and the verdict of the next poll (`OutcomeNamesLastKick`) | 2 clients, 2 access points, all detectors, failing controller calls, a reload of mechanism, cap and window | 3,879,347 |
| `Loop_attempts` | MCScanLoop | BTM, roam and fallback as ADR-0003 promises them (`MakesAttempts`), how an attempt can end (`AttemptSettled`), truth of the ledger (`AuditTruthful`), the allowlist under reload (`AllowlistHonoured`), the quarantine budget, and that every cycle ends (`CycleCompletes`) | 1 client, 2 access points, all detectors, every call may fail, 2 starts | 579,256 |
| `Windows` | MCDetectors | when exactly a client is flagged, for radio (`FlagExact`) and for inactivity (`FlatlineExact`), and that quiet hours only tighten | 1 client, windows of 0, 1 and 2 polls, 4 polls, a 3-minute day, 6 reports, 5 configurations | 207,698 |
| `Store_rows` | MCMigrate | acknowledged rows stay, retention, whole MySQL snapshots; an exact and fail-closed migration (`MigrationSound`) | 2 backends, 3 calls in all, 1 failure, 3 instants, retention 1 | 4,131,483 |
| `Reboot_days` | MCReboot | device cooldown and rolling daily cap (`CooldownHolds`), at most once per listing and date (`OncePerDay`), what is permitted and what the ledger says (`Justified`), everybody's turn (`EveryTurnComes`) | 2 devices or one listed twice, every await may fail, 2-minute days, 5 minutes, 2 starts, everything reloaded | 221,523 |
| `Dns_polls` | MCDnsThrash | every query counted, and by at most two polls (`QueriesCounted`); a flag is sustained (`SustainEarned`) | 1 client, 2 domains, 2 instances, a page of 1 query, newest first, 2-unit seconds, 6 time units, 2 queries, a reload that removes the block and one that brings it back | 4,132,503 |
| `Daemon_life` | MCDaemon | the daemon runs what it saw; what `run()` opens it closes; a valid edit arrives, SIGTERM ends, every scanner keeps its turn | 2 controllers, every content of the file, 3 edits, 2 starts, an exception or signal at every stage | 270,008 |
| `Config_file` | MCConfigFile | what a save leaves: accepted from a device card, valid from the form but for what that leaves in place or takes from under `dns_thrash`, the page's values over any stale copy, nothing changed by an untouched page but where it cannot show it | 1 device, 14 fields, 4 blocks, 4 files to start from and any one-key edit of them by hand, 2 writes, 1 changed input | 157,868 |
| `Pages_reads` | MCPages | do the figures of one page fit together, and the pages with each other, and are the DNS standings current? | 1 client in two spellings, 2 Pi-holes, an hour, a day and a week of 1, 2 and 3 ticks, 4 ticks, 3 rows, every write of a poll may fail | 5,264,945 |

Every property of a passing run has been checked against a slip of a mapped
definition that it detects (PROJECT.json, `mutants`).

Runs that show a disagreement between the code and what it says of itself:

| run | what is said | what happens |
|---|---|---|
| `Stale_fallback` | `actor.py:375-379`: the pending BTM is cleared on a roam, otherwise a later bad state "would fire deauth_fallback under an unrelated attempt_group" | it is cleared only if the verdict popped at that poll is the BTM's own; a client polled once in place and then roaming keeps the entry, and its return to the old access point is answered with an ungated deauth |
| `Ui_invalid` | `config_io.py:10-12`: "the UI can't persist a config the daemon would reject" | switching off DNS detection and its sources removes `dns_sources` and leaves `detection.dns_thrash`, since the mapping is validated but a different document is written; `SettingsSavesValid` lists the other ways |

**Bounds.**  `MaxTime`, `MaxCalls`, `MaxRows`, `MaxStarts`, `MaxQueries`, `MaxPolls`,
`MaxFaults`, `MaxSaves`, `MaxWrites`, `MaxTyped` and `MaxBeats` bound only how often
the environment acts (time, the network, the operator, restarts, the rows of other
processes), so every handler runs to its end at the bound.  Time spans
are chosen so that each window is open, exactly full at its closed end, and
passed: the hour is 1 and the day 5 of 6 units, spacing 1 of 2.  Two clients and two access
points are enough for one client's calls to meet another's limit and for a client
to leave and return; caps of 1 and 2 distinguish an empty, a full and an
overfull window.  Two controllers have a first and a last, and a failure between
them; three edits are a bad one, a good one and a return to what was there.  Two writes
are one from elsewhere under an open page and the page's own.  Three rows are
two kicks and a sample, or one kick more than quarantine takes; each page has at most five SELECTs,
and the daemon may act before each.

`CONSTRAINT OnePolicy` and `OneFamily` keep a behaviour within
one family of configurations, so that a run asks two questions of one
instance; they cut off reloads from one family into the other and, in `MCReboot`, time after
minute 1 in the family about permissions and after minute 2, once restarted, in the
one about cooldowns.  `ToolOrTime` gives a behaviour of `Migrate` either
failing calls and the passing of time or runs of the tool, which read neither.
`OneKind` gives a behaviour of `Pages` either kicks and samples or the DNS tables,
which no page of the model reads together, with the pages that read them, and upgrades an old schema by its second row.
`SYMMETRY` is used in `Loop_limiter`, `Dns_polls` and `Pages_reads`, which check no
liveness.  Deadlock is checked in every run but `Daemon_life`, where the daemon may be
down with its starts and the edits used up.

**Fairness.**  `WF(Scan)` and, in `Reboot`, `WF(Step)`: every await of these tasks
returns or raises, because the clients they call have timeouts, and the event loop
runs whatever is ready.  In `Daemon`, `WF(Run)`: every
call that `run()` awaits returns or raises, by the same timeouts, and its sleep ends.
`WF(Watch)`: the watch task wakes every
`config_watch_interval_seconds`, and reads the file it has taken the digest of.  Nothing
is assumed of ticks, reloads, signals, crashes, the ends of the tasks or users.

## 4. What is proved

Each theorem holds for every value of the constants: any clients, access points,
devices, controllers, instances, configurations, schedules and bounds.

| theorem | states |
|---|---|
| `ScanLoopProofs!TypeCorrect` | `Spec => []TypeOK` |
| `ScanLoopProofs!AllowlistCorrect` | `AllowlistHonoured`: no detector has a client kicked that was on the allowlist throughout the cycle |
| `ScanLoopProofs!SpacingCorrect` | `GlobalSpacing`: within one process no controller call follows an accepted one before the minimum spacing of a configuration in force |
| `ScanLoopProofs!PerApCorrect` | `PerApCap`: within one process no access point has more accepted fresh kicks in a window that was in force than a cap that was |
| `ScanLoopProofs!CapsCorrect` | `CapsHold`: no rolling hour or day of the ledger holds more logical kicks of a client than a configuration in force allowed, over restarts too |
| `ScanLoopProofs!EscalationCorrect` | `EscalationHolds`: every logical kick has waited the cooldown of the rung that those before it led to, or of a later one |
| `ScanLoopProofs!BudgetCorrect` | `QuarantineBudget`: within one process no client is sent more accepted fresh calls than the quarantine budget |
| `ScanLoopProofs!DeferralCorrect` | `DeferralEarned`: dry runs and fallbacks defer nobody |
| `ScanLoopProofs!AttemptsCorrect` | `Spec => MakesAttempts`: `ScanLoop` implements `Attempts` |
| `ScanLoopProofs!SettledCorrect` | `AttemptSettled`: a pending BTM ends only in the ways the code provides |
| `ScanLoopProofs!AuditCorrect` | `AuditTruthful`: every live row follows an accepted call of its own, reported once |
| `ScanLoopProofs!OutcomeCorrect` | `OutcomeNamesLastKick`: the verdict of a poll is about the last accepted call, or the one before where the store may fail |
| `RebootProofs!SpelledCorrect` | cooldown and daily cap hold for each spelling of a device |
| `RebootProofs!CooldownCorrect` | `CooldownHolds`: they hold for each device, **if no device has two spellings** (`IsInjective(DeviceOf)`) |
| `RebootProofs!OncePerDayCorrect` | `OncePerDay`: within one process a device is asked for at most once per listing and date |
| `RebootProofs!JustifiedCorrect` | `Justified`: nothing unpermitted is rebooted, and no row tells of a reboot without its accepted call |
| `DetectorsProofs!FlagCorrect` | `FlagExact`: a client is flagged exactly if its last full window is bad by the thresholds in force |
| `DetectorsProofs!QuietCorrect` | `QuietOnlyTightens`: a flagged client is worse than its own thresholds, and in quiet hours than theirs too |
| `DetectorsProofs!FlatlineCorrect` | `FlatlineExact`: a client is flagged as idle exactly on a whole window of totals that rose by less than the floor since the last gap, reset or flag |
| `DnsThrashProofs!SustainCorrect` | `SustainEarned`: a flagged client was over the threshold for the whole sustain period, at every poll |
| `DnsThrashProofs!CountedCorrect` | `QueriesCounted`: no query falls between two polls, and none is counted by three |
| `MigrateProofs!AcknowledgedCorrect` | `AcknowledgedKept`: the rows of every call that returned stay until they are too old |
| `MigrateProofs!RetentionCorrect` | `RetentionKept`: a pruning call returns to a disk without the rows that had to go |
| `MigrateProofs!SnapshotsCorrect` | `MySqlSnapshotsWhole`, for any number of radios |
| `MigrateProofs!MigrationCorrect` | `MigrationSound`: a target that held anything stays as it is without `--replace`, and a run that ends well is exact |
| `DaemonProofs!OpenCloseCorrect` | `PairsOpenAndClose`: the tasks run over an open store, and a `run()` that ends by itself leaves nothing open unless the store's close raised |
| `DaemonProofs!ConfigCorrect` | `RunsWhatItSaw`: the daemon runs a valid configuration, the one the watch last saw if that was valid |
| `PagesProofs!TilesCorrect` | `TilesAddUp`: today's kicks are among the week's and in the hourly trend |
| `PagesProofs!ReasonCorrect` | `ReasonIsLastKicks`: the reason shown is that of a real kick, at least as late as the last one counted |
| `PagesProofs!HeaderCorrect` | `HeaderCoversTimeline`: a device's header covers its timeline, pruned samples excepted |
| `PagesProofs!StandingsCorrect` | `StandingsCurrent`: with no poll being persisted the DNS page shows the contenders of the last poll if they were written; if not, none, or those of the last poll that was written whole |
| `PagesProofs!AgreeCorrect` | `PagesAgree`: over one state of the tables the pages say the same |
| `ConfigFileProofs!DeviceCorrect` | `DeviceSavesValid`: a device card never leaves a file the daemon's parser rejects |
| `ConfigFileProofs!SettingsCorrect` | `SettingsSavesValid`: the settings page does so only by what it takes from under `dns_thrash` or leaves in place, or over a `${NAME}` that is not set |
| `ConfigFileProofs!LastSaveCorrect` | `LastSaveWins`: after a settings save the daemon loads what the page asked for |
| `ConfigFileProofs!UntouchedCorrect` | `UntouchedKeepsRest`: a page saved as it was opened changes nothing the daemon loads that the page can show, and only a literal password of an instance's own is exchanged for another |

The assumptions are the named ones on the constants (`ConfigAssumption` and so
on), which TLC evaluates in every run, and the hypothesis of `CooldownCorrect`:
the code keeps its limits for the text of a MAC, so for two spellings of one device
only `SpelledCorrect` is true.

**Types.**  `ScanLoop`'s `TypeOK` is more than types: handle's frame exists exactly at
handle's own awaits, and a client being scored has an access point, which is what the
actor's use of the per-AP deques rests on.

**Limits.**  All of them are judged at a gate and broken, if at all, by a call or a row
later on, and they speak of what has happened and not of the code's own
bookkeeping.  So each invariant adds two things: what the bookkeeping knows of
the past, and what the gate has established for the call about to be made and no step
takes back until then.

- `SpacingInv`: `lastKick` is at least as late as each accepted call of this
  process, and a call about to be made has waited.  Waiting only grows, `lived` only
  grows, and the calls of an older process are not counted.
- `PolicyInv`, for caps and escalation: from the read of the ledger to the row, the ledger clears
  the kick for the configuration that `handle` captured (`CallPolicy`).  Only the scan
  task inserts kicks, so in between rows only leave the windows; the rung that the remaining
  ones lead to is no later than the one waited for (`RungMonotone`).  A
  schedule need not ascend, which is why `EscalationHolds` says "or a later one".  The
  ledger survives a restart, and with it the invariant.
- `PerApInv`: each deque is in time order and holds an entry for each accepted fresh kick since
  any moment that no window in force so far has left behind (`DequesCover`); the kick
  about to be made has room left.  What `_prune` keeps is
  `Pruned`: in time order, the entries since the cutoff and no others.  Configurations with a cap of 0 record nothing, and
  the property excepts processes that had one.
- `BudgetInv`: the counter of a client is the number of its accepted fresh calls,
  and whoever is on the way to the wire has some of the budget left.

**Attempts.**  `AttemptInv` says that a pending BTM is of a group given out and an
access point that exists; that while a fallback is on its way, the pending BTM is still the
one it was begun for (only the scan task touches it, and a reload does not); and that a
fresh kick has no BTM pending on its access point, and a group that no call has.
Action by action, a step of the loop is a step of an attempt, or leaves attempts and
accepted calls as they are.  `AuditInv` adds that the row about to be written is of the
call last accepted, that rows and calls are counted per group and mechanism, and that each live row has
its call.  `VerdictInv` says which call an open verdict names and when one
call may have been made since: while its row is being written, or for good once that
write has raised.  `SettleInv` ties the verdict that `handle` and the poll take apart to
the BTM it came from.  For `AllowlistHonoured`, `AllowInv` says that whoever the live
list leaves out has been off the list in this cycle, that the same holds of the list
the DNS pass captured before its first await, and that the client in hand has been off it.

**Reboots.**  `GapInv` and `CapInv` are for one spelling what `SpacingInv` and
`PerApInv` are for an access point: the timer and the deque cover the accepted power
calls, and what the check found, waited and room left, is carried over the registry's
await.  `PermittedInv` says that a reboot under way is of a device permitted in its turn,
`AuditInv` that rows and calls of a spelling and date match.  `DayInv` counts: the
requests made on the date last fired, the one about to be made and those that the sweep has left
are together no more than the listings of a configuration in force.

**Detectors.**  `FlagExact` compares a verdict with the history of all samples, of
which the code keeps a deque.  `WindowInv` says that the deque is the end of the
history, as many entries as the live window size has room for; it rests on `Push` keeping
the last entries (`PushKeepsEnd`) and on a reload that changes the size building the
deques anew.  That a criterion is always in force (`InForceActive`) comes from
`build_config` and from quiet hours never switching one off.  `QuietOnlyTightens` rests on
the same invariant: what is worse than the stricter of two thresholds is worse than each
(`WorseThanBoth`), and the code's two comparisons of the clock find the minutes counted
from start to end around midnight (`QuietMinutes`).  `TrafficInv` says of the
deltas what `WindowInv` says of samples, that they are the last
differences of the totals, and adds why they are no more than they are: the window is full, or
they go back to the first total, to a reset or to the last flag (`Differences`).  That such
differences add up to what lies between the ends is `SumTelescopes`.  The sum is a recursive
function; for a sequence of differences it can be given in closed form, and a least
counterexample does the rest.  `SustainInv` dates each
streak of the DNS detector by a poll that found the client over the threshold, as did every
poll since; a reload of the sustain period changes neither.

**DNS queries.**  `QueriesCounted` looks at the deques between polls.  `CountInv` says
what an answer on its way holds (`ReplyInv`): every query logged since the bound of the
fetch and before its watermark that is not excused (its instance failed, listed a full page of
others ahead of it, or its client had no known address).  A query logged later is younger than the
watermark, so the next fetch asks for it; one older than the bound was counted before
(`KeptInv`), or has left the window.  That none is counted by three polls needs the
sleep between them: what a poll counted was logged before it ended (`EntryInv`), a second at
least before the next watermark, so truncating that watermark to a second does not reach it and
only the last poll can have counted what the next one will see (`TwiceInv`).  None of this
depends on the order in which instances answer or list their queries.

**The store.**  `Kept` strengthens `AcknowledgedKept` to calls still in hand: the rows a
call has written and not had undone are on the shared connection, on the disk or in its
own transaction, whichever will be on the disk when it returns.  On SQLite it is any
task's commit that puts them there.  `Cleaned` does the same for a deletion: a pruning
call with only its commit left has nothing too old in sight, as the other task's
inserts are younger.  `Fresh` tells the calls and their rows apart, from which a
transaction's rows are those of its statements so far and a commit brings all of
them.  `Along` says what the tables of the target hold at each place of the tool: those still
to be copied nothing, those copied the whole of the source.

**The daemon.**  `PairsOpenAndClose` speaks of the end; `OpenInv` says what is still
open at each closing stage, and `TasksInv` that the tasks end before the store closes.
`RunsWhatItSaw` says nothing of the moment between the two reads of the file;
`ReadInv` says which of file, digest and configuration are the same then.

**The pages.**  `TablesInv` says of the tables what the SELECTs rely on: they are finite, no row
is of the future, and kicks are in time order.  What is added while a page is read only
makes the later figures larger, and `OverviewInv`, `DevicesInv` and `DeviceInv` say after each
SELECT how what was read compares with what is in the tables *now*, which the daemon's steps keep
(kicks are never pruned, and a sample that was is older than a week).  `DnsInv` says that
a poll's heartbeat is newer than all standings before it, that no standings are
shown before the tables exist, and that until the first heartbeat of a poll those shown are
what was written of the polls before (`AsWritten`).  `PagesAgree` is of the operators alone.  Counting the rows of a finite table by hour, or by spelling,
and adding up counts them all (`SumByGroup`, `CountsByGroup`); both are proved with a smallest
counterexample among the subsets of a finite set.  `QuarantineAt` has to be positive (it is 5): else
a device without any kick would be in quarantine on one page and not on the other.

**The configuration file.**  A save is judged when it is asked for and written later, over a
file that may have changed.  `DraftOK` says what the save in progress was validated as and
that its text is the overlay of that on some document, whichever it was; `PristineOK` that a page nobody has
touched still shows the file as it is, and that a save asked for from such a page is
`Mapping(PageOf(file))` laid over that very file.  From there the properties
are about `Display`, `Coerce`, `Mapping` and `Overlay`: `RoundTrip` composes the four to
no change, key by key, where the page shows what is there; `AskedIsLoaded` says what the daemon
loads of an overlay.  A valid mapping makes an invalid document only where the two differ: each
check of `Accepted` that fails on the overlay held on the mapping, so one of its keys is from
the document (`LeftAlone`).
`FileAssumption` says that a file which does not parse, and no file, are not contents.

**Only model-checked.**

- Liveness (`CycleCompletes`, `EveryTurnComes`, `ChangeReachesDaemon`, `TermEnds`,
  `EveryScannerRuns`): out of this prover's reach, like `ENABLED`.
- What the refuted claims of `Stale_fallback` and `Ui_invalid` show: counterexamples are TLC's.

The provers see nothing of what `SelectSeq`, `FlattenSeq` and the folds over sequences compute.  Where such
an operator stood for a table or a deque, the model has a function or a set with its order
beside it, which says the same of the code.

## 5. Seen while modelling, with no run

The kick path:

- A check drops from the per-AP deque whatever the window in force then has passed (`rate_limit.py:86`), so a reload to a longer window does not bring back what was dropped: the cap that is kept may be of one configuration and the window of another. `PerApCap` says so.
- Where `insert_kick` raises after an accepted kick, the verdict of the next poll is about the kick before that (`actor.py:326`, `:353`). `OutcomeNamesLastKick` excepts it.
- A BTM request that raises leaves no pending entry, so no fallback follows; `unifi.py:291-294` says that one will.
- `insert_kick` can raise after the kick (`actor.py:326`), leaving it without a row, though `actor.py:313` says that only the controller call can raise. The caps then count one too few; no property excludes it.
- The inactivity verdict of a client finds the BTM that its RF verdict has just sent and answers it with a deauth in the same cycle (`scanner.py:100-107`), while `pending.py:10` speaks of "a BTM request sent on a prior cycle".
- Each controller has its own limiter (`pipeline.py:82`), while ADR-0004 speaks of the entire network; `docs/AUDIT-2026-07-14.md` item 11 records it.
- `scanner.window_samples` is not validated (`config.py:1036`): zero switches RF detection off silently (modelled), a negative number makes every cycle raise at its first client (not modelled).

Reboots:

- `scheduler.py:80` says "Allowlist + opt-in are absolute"; they are checked before the registry is awaited (`:103`) and not after, so a reload in between does not stop the reboot. `Justified` is by the configuration at the check.
- The reboot cap and the date last fired are lost on restart, though `cooldown.py:4-5` counts on the cap to bound what a restart loses.
- Two spellings of one MAC in `reboot.eligible` have one cooldown each (`scheduler.py:96`).

DNS:

- A query logged during a fetch, or in the truncated second, is counted by two polls (`dns_thrash.py:93`, `pihole.py:99`); `dns_thrash.py:51` says once. `QueriesCounted` says what holds.
- The merged answers are not in time order, so an old entry behind a young one outlives the window (`dns_thrash.py:113`, `pihole.py:183`).
- One page of at most 10000 queries is asked for and never the next (`pihole.py:35`, `:101`): what an instance recorded beyond it since the last poll is lost, without a trace in its heartbeat. `QueriesCounted` excepts it.
- A reload that removes `detection.dns_thrash` makes every cycle raise at the observation (`dns_thrash.py:69-71`), although `scanner.py` says that the detector must never break the scan loop.

The daemon:

- The digest is seeded after the load (`main.py:42`, `:78`): an edit between the two is never noticed. SIGHUP reloads without updating the seen digest: edit, SIGHUP and revert within one interval leave the daemon on the edited file. `RunsWhatItSaw` excludes both (`apart`).
- `db.close()` is the one unguarded call of the shutdown sequence (`main.py:199`): if it raises, the controllers, DNS sources and notifier are not closed, though `unifi.py:102` says that `Daemon.run()` pairs login and close.
- Ctrl-C during the closes of the finally block cuts them short (`cut` in `Daemon`).

The store:

- `db_mysql.py:320-322` says that the UI never sees half an access-point snapshot, "the same atomicity the SQLite backend gets from its single trailing commit()". On SQLite the reboot scheduler's commit (`db.py:375`), between two statements of the scan loop (`db.py:327`), publishes the half; `MySqlSnapshotsWhole` is about MySQL alone.
- An error upon which SQLite rolls back by itself takes the other task's uncommitted statements along, and that task's call then commits nothing and returns as usual (`undone` in `Store`, excepted from `AcknowledgedKept`).
- A failed prune is not tried again for an hour (`db.py:301`).

The web page:

- A settings form opened before a device toggle writes the old lists back, which is wider than the concurrency ADR-0014 describes ("collide only if both touch the same per-MAC setting").
- Turning DNS detection off in the form while its sources stay leaves the block in the file, so the detector stays on.
- A `dry_run: null` loads as dry run and is shown as an unticked box; the next save writes `false` (`config.py:1012`, `config_io.py:121-122`). A file without `backoff.cooldowns_seconds`, or with a null, loads no ladder and is shown the default one (`settings_schema.py:528`, `config.py:1052`), so a page saved as it was opened switches the ladder on. ADR-0014 says of the round trip that the values are the current effective ones. `UntouchedKeepsRest` excepts both.
- A password written out in the file is shown as nothing and not written back. In a mapping it stays, or its absence gets the save refused; but `dns_sources` is a list and replaced wholesale (`config_io.py:507-514`), so an instance that has a password of its own, under a source with a default, silently loses it, and logs in with the default (`config.py:533`, `dns_sources/__init__.py:37`). `UntouchedKeepsRest` excepts it.
- An input left blank leaves its old key in the file (`config_io.py:230`, `:507-514`), so the saved value is not the default that was validated. If the old one is a null, ill-typed or out of range, or a `per_ap_window_seconds` of 0 beside a cap just given (`config.py:574-579`), or a `window_samples` of 0 beside inactivity detection just switched on (`config.py:743-747`), or an override threshold that the form does not know (`config.py:806`), the save succeeds and the daemon rejects the file. `SettingsSavesValid` lists these. If all inputs of `safety_rails` are blank the whole section goes instead (`config_io.py:498-500`).
- The page for a file that does not parse says that saving will create a fresh one; the save is refused.
- The views count a `deauth_fallback` row as a kick of its own (`views.py:270`), so one attempt can advance the state that the page shows by two, unlike the daemon's policy (`db.py:438-440`). Its cooldowns and quarantine mark are constants of the page, not those of the configuration. `views.py:236-239` calls quarantine forever; the daemon's count of it is in memory and a restart forgets it.
- The heartbeats of a DNS poll are committed before its observations (`scanner.py:166-183`). If those are not written, the DNS page shows no contenders, however many there were: `views.py:746-751` takes a newer heartbeat to mean that "the current poll had zero contenders". If nothing of a poll could be written, the page shows an older one as current. `StandingsCurrent` says so.
- `list_devices` groups by the exact MAC text, `device_summary` without regard to case; `PagesAgree` says how the two add up.
- Two controllers' DNS detectors write one table, and the newer heartbeat of one hides the standings of the other (`views.py:746-751`).
- `/devices` reads the allowlist without the guard that the device page has (`app.py:385`, `:171-173`), so a file that does not parse makes it an error page.

## 6. What is not modelled

- A second controller's scanner beside the first in `ScanLoop`, which would share the ledger and the client table with it (`Daemon` has any number, each cycle one step).
- Running the migration beside a live daemon, which its documentation rules out.
- Pi-hole sessions and re-authentication.
- The UniFi, Home Assistant and Pi-hole HTTP clients and their parsing: input and output, whose outcomes are the nondeterministic choices above.
- The vendor table (`reboot/oui.py`), a constant.
- Of the parser: fields that no modelled code reads, interpolation but for whether a variable is set, the wording of errors. Of the settings page: comments and layout of the YAML, the fields that are handled like one that is there (integers without a range, such as the poll interval, like the criteria), a secret that is no string, and a second DNS source or instance.
- Of the views: access-point figures, noise and utilisation trends, names, sorting, text search, the DNS kick list, the translation of SQL dialects and the templates.

## 7. Plan

1. Done: the kick path (`KickGates`, `Actor`, `ScanLoop`, `Attempts`), `Detectors`,
   `Reboot`, `DnsThrash`, `Store`, `Migrate`, `Daemon`, `ConfigFile`, `Views`, `Pages`;
   the proofs of §4.
2. An abstract audit ledger that `Store` implements.
3. Pi-hole sessions; two scanners over one ledger.
