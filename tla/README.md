# Verification project for mcu-updater

TLA+ modules, TLC configurations and TLAPS proofs kept beside `mcu-updater`, the
firmware manager for multi-MCU Klipper printers. Paths below are relative to the
repository root (`src/mcu_updater/...` is the package).

## 1. Inventory

Two kinds of process run on the printer host and share files and one systemd
unit (Klipper): the **agent** (a daemon, threads inside) and any number of
**CLI** processes (`updatefw.py`).

| Component | Code | State | Operations | Hard behaviour |
| --- | --- | --- | --- | --- |
| Exclusive lock | `lock.py` | kernel flock, `{pid,label,since}` record in the lock file | `acquire` (one retry), `release`, `holder` (probe and clear), kernel release on death | holder record versus lock, probe competing with acquire, kill -9 |
| Klipper guard | `service.py`, `scripts/mcu-updater.service` | Klipper active or not, journal file | `klipper_stopped`, `reconcile`, `ServiceController` back ends, `assert_printer_idle` | crash at any step, a second process reconciling, failing `systemctl` |
| Job runner | `jobs.py` | single slot, `_by_id`, `_recent`, one shared cancel event, job states | `submit`, worker, `cancel`, `wait` | request threads against the worker, thread start failure, lock contention with the CLI |
| Job log and batcher | `jobs.py` (`Job.append`, `log_since`), `agent/events.py` (`LogBatcher`) | ring buffer, sequence numbers, pending batch | `append`, `log_since`, `tail`, `add`, `flush`, tick | eviction, lost batches on reconnect, two producers |
| Events and bus watcher | `agent/events.py` (`EventEmitter`, `BusWatcher`) | last fingerprint, busy/wake events | `emit`, poll loop, `reset`, `poke` | event snapshot taken before it is sent, handler failure after the fingerprint moved |
| JSON-RPC peer | `agent/rpc.py` | pending futures, reader thread, dispatch pool of 4, closed flag | `call`, `notify`, `_read_loop`, `_serve_request`, `close` | every request answered once, calls failed on disconnect, handlers on the reader thread |
| Agent lifecycle | `agent/service.py`, `agent/__main__.py` | current peer, stop flag, back-off | `run_once`, `run_forever`, `request_stop`, `reconcile_startup` | reconnect, work outliving the connection, shutdown against a write |
| Agent API | `agent/methods.py` | none of its own but cached object names | the `fw.*` methods | checks made at submit and used later in the worker |
| Batch flash | `agent/methods.py` (`_do_flash_all`, `update_all`, `flash`), `cli.py` | boards on the bus, progress | stop once, flash each, wait, restart | cancellation between boards only, one board of several failing |
| Board flashing | `flash.py`, `devices.py` | board mode: klipper, katapult, DFU, offline | `flash_katapult`, `flash_dfu_stm32`, `wait_for_device`, `wait_for_new_device` | re-enumeration time-outs, ambiguous DFU boards, `:leave` noise |
| Build pipeline | `build.py` | source Makefiles, `.config`, staged `.bin`, sidecar | `makefile_patches`, `build`, `run_streamed`, cancel | restore after failure, crash between artifact and sidecar |
| Provenance | `build.py` (`staleness`, `FlashLog`), `methods.py` (`flash_state`) | sidecar, flash log | `staleness`, `record`, `entry_for`, `flash_state` | never claim a board is current when it is not |
| Registry | `config.py`, `settings.py`, CLI edits in `cli.py` | `mcu-updater.cfg` | `mutate`, `load`, `save`, `save_settings`, `add_serial`, ... | lost update between two processes |
| Pairings and adoption | `pairings.py`, `methods.py` (`adopt_paired`, `add_mcu_start`) | pairings file | `record`, `type_for`, `forget`, `prune`, adopt on a bus change | unlocked read-modify-write, TTL, a serial tracked twice |
| Config document | `cfgdoc.py` | list of lines | parse, `set`, `remove_option`, `add_section`, `render` | comments survive an edit |
| Kconfig sessions | `kconfig.py`, `methods.py` (`kconfig_*`) | at most 4 sessions, dirty flags | `open`, `get`, `close`, `set`, `save`, `reset` | eviction of unsaved work, two sessions on one target |
| Layout migration | `layout.py` | directories | `migrate_type_dirs` | two processes migrating at once |
| Displays | `displays.py`, `methods.py` (`display_*`) | build sidecar, port to MAC map | `build`, `upload`, `artifact_state`, `firmware_state`, `record_mac` | stale image, moved display |
| CLI and menu | `cli.py`, `tui.py` | none | subcommands, prompts | reconcile on every start |
| Paths, settings parsing, errors | `paths.py`, `settings.py`, `errors.py` | none | pure functions | none |
| Installer, simulators, mutation harness | `install.sh`, `scripts/*` | none | shell and test tooling | not part of the running system |

Interactions: every operation that builds or flashes holds the exclusive lock
(`lock.py`) and, when it writes boards, runs inside `klipper_stopped()`
(`service.py`); in the agent it is the body of a job (`jobs.py`), which a
request that came over the connection (`agent/rpc.py`) submitted through a
method (`agent/methods.py`); what it did is left in the sidecar and in the flash
log (`build.py`), from which the next request decides what is stale.

What each component has to guarantee:

- lock: one operation at a time; `holder()` never calls a held lock free;
  `acquire()` does not invent an operation.
- guard: no write while Klipper is up; Klipper comes back, whoever died, unless
  the user had stopped it.
- jobs: a body runs only with the slot and the lock; a cancel reaches its own
  job and no other; clients see every started job end; a shutdown does not cut a
  write.
- patches: the shared source tree is as it was after every build.
- provenance: "fresh" and "up to date" are never said of the wrong binary, and
  a finished build or flash is not asked for again.
- connection: every call ends once, every request is answered, a lost connection
  and a stop are noticed.
- registry: no edit undoes another; a board is tracked under one type.
- adoption: a board given a bootloader is tracked as what it was given, however late
  it comes back; a pairing acts once.
- config document: an edit changes one option and no comment that still speaks for
  something.
- kconfig sessions: unsaved work is not evicted while anything else can be; a save
  discards nobody's answers and can be undone.
- job log: the panel shows what was written or says what it misses; the end of a job
  comes after its lines; the job shown is the job that runs.

## 2. Modules

| Module | Models | State ↔ code | Actions ↔ code |
| --- | --- | --- | --- |
| `Mutex` | what the lock promises: an owner, and a name that is published and withdrawn | – | – |
| `ExclusiveLock` | `lock.py` | `flock`: the kernel's lock; `record`: the JSON in the file; `pc`, `read`: where each thread is inside a call; `verdict`, `during`: history of a call | one action per system call of `acquire`, `release`, `holder`; `Crash` is kill -9 |
| `KlipperGuard` | `service.py`, the callers' `exclusive` + `klipper_stopped`, the unit's `ExecStopPost` and `Restart` | `klipper`: the unit; `journal`: the journal file; `lock`; `pc`; `stopPost`; `downBy`: history | `reconcile()` (`ReadJournal` … `ForgetEntry`), `klipper_stopped()` (`WasActive` … `ClearJournal`), deaths, systemd, the user |
| `JobRunner` | `jobs.py`, `request_stop()` of `agent/service.py`, the loop over boards of `methods.py` | `current` = `_current`, `thread` = `_thread`, `cancel` = the `Event`, `requested` = `cancel_requested`, `lock`/`cli` = the owner of the host-wide lock, `told` = the last `job` event | `submit` (`Take`, `ClearEvent` … `FailUnstarted`), worker (`WriteBoard` … `AnnounceEnd`), `cancel` (`FindJob` … `SendSnapshot`), shutdown |
| `MakefilePatches` | `makefile_patches()` of `build.py` | `content` of each Makefile, `backups`; `before`, `calm`, `spoiled`: history | append, restore in two steps, kill |
| `Provenance` | `build()`, `staleness`, `FlashLog` of `build.py`, `flash_katapult`, and the deciding and flashing parts of `methods.py` and `cli.py` | `head`, `config`, `staged`, `sidecar`, `log` are the files; `held`, `mode` are the boards; `plan` is what a handler decided before its job began; `Seen`: what a read that may fail gives | build, flash, record; the user's pulls, menuconfigs and cables |
| `AgentConnection` | `agent/rpc.py`, `run_once`, `run_forever`, `stop` of `agent/service.py` | `peer` = `_peer`; `sock`, `closed`, `pool` of each connection; `pending`, `future`; `req` | threads: main, stopper, readers, pool workers, callers; Moonraker and the link as environment |
| `Registry` | `config.py`, `settings.py`, the edits of `methods.py` and `cli.py` | `file`: `mcu-updater.cfg` as its readers see it; `lock`: the registry lock; `pc`, `edit`, `text`: of each editor its step, its edit, the copy it read and changed | `mutate` (`TakeLock` … `Release`), the CLI's load and save (`StartCliEdit`, `Save`), `settings_set` (`StartSettings`, `LoadForSettings`, `Save`) |
| `Adoption` | `Registry` with `pairings.py`, `add_mcu_start`, `adopt_paired`, `BusWatcher` | `bus`, `boot`: the boards; `pairings`: the file; `job`: the worker of `add_mcu`; `watch`: the watcher's thread; `acted`: history | the job (`WriteBootloader`, `WriteBreaksOff` … `JobEnds`), the watcher (`Poll` … `Prune`), boards, time, deaths |
| `KconfigSessions` | `kconfig.py`, `fw.kconfig.*` of `methods.py` | `config`, `bak`, `tmp`: the files; `sess`: the session objects; `store`: `_sessions` in the order of `touched`; `number` = `_next`; `pc`, `call`, `tab`: browser tabs; `wrote`, `given`: history | `open` in three steps, `get` and what follows under the session's lock, `set` with its refusals, of which one of a choice moves the answers all the same (`SetRefused`), `save` as the renames it makes |
| `JobLog` | the log of `jobs.py`, `LogBatcher` and `EventEmitter`, `_on_job_change`, `emit_state`, the reconnect, `fw.job.get`, and a panel that follows the contract of `docs/agent-api.md` | `written` = `_next_seq` (from which ring and `_dropped` follow); `over`: the jobs whose state is terminal; `batch`; `report`: what a thread read and is to send; `wire`; `seen`, `expected`, `omitted`, `ended`, `shows`: the panel | worker (`AppendLine` … `Finish`, `EndJob`, `TellEnd`), `cancel()` in its three steps, tick, reader, reconnect; `See*`: the panel |
| `ConfigMap` | what a configuration is to its readers: sections of options, and what each edit means | – | – |
| `CfgDoc` | `cfgdoc.py` | `lines` = `lines`, by kind of line; `sections` = `sections`; `op`: history | `set`, `remove_option`, `add_section`, `remove_section` |

`MC*` give the constants of an instance; `*Proofs` hold the theorems of the module they
extend; `EditedFilesProofs` those of the three modules that are about files which are
edited and put back (`MakefilePatches`, `KconfigSessions`, `CfgDoc`). Definitions marked
*Wrong variant* are not part of any specification: they are plausible bugs that the
properties are tested against.

How they compose. `ExclusiveLock` is shown to implement `Mutex`. The modules above
it use only what `Mutex` promises: `KlipperGuard` has one variable for the owner,
`JobRunner` the same with the CLI as the other party, and `Provenance` and
`MakefilePatches` run one operation at a time. `JobRunner` and `AgentConnection` meet
in the request: a `req` of the one is what calls `Take` or `FindJob` of the other.
`Adoption` extends `Registry` and adds the boards, so that edits of users and the
watcher's adoptions compete for one file. `CfgDoc` is shown to implement `ConfigMap`,
and `Registry` uses that: its `file` is the map. `JobLog` keeps of `JobRunner` only
the slot and the order in which a job is told; `KconfigSessions` and `Provenance` share
the `.config` and the lock, and each sees the other as a writer or holder of these.

**Disturbances.** Several guarantees hold only in an environment that keeps to some
assumption (nobody starts the tool during a flash, `systemctl` answers). Such an
assumption is not built into the actions. Each module has a variable
`disturbances`, chosen once and never changed (`Steady`), that says what may happen
in this behaviour; a run gives the sets to choose from, and a property names the
disturbances it does not stand as its premise. The younger modules have `scenario`
instead, a record that also says how much there is of everything. Most runs include behaviours
with disturbances the properties do withstand, so these are not hidden.
Where a document of the repository promises the property without the
premise, the table names the place, and section 6 the most important ones; violation
runs show the worst.

What each premise costs (where the code leaves the guarantee):

| Premise | Property | Where |
| --- | --- | --- |
| no two threads probe at one time | `BusyUnlessProbesMeet`: two probes of a leftover record can cover both attempts, and the agent answers requests in four threads | `lock.py:157` |
| no `reconcile_overlap` | `SafeWrite`; also the reconciling process forgets the journal entry of the running one | `service.py:242-244` |
| no `agent_exit` | `SafeWrite`: `ExecStopPost` starts Klipper under a CLI operation | `mcu-updater.service:53` |
| no `probe_fails` | `SafeWrite`: a time-out of `is-active` reads as "not active", before and after the stop | `service.py:276,286` |
| no `slow_stop` | `SafeWrite`: "deactivating" counts as stopped | `service.py:286` |
| no `start_fails` | `NeverForgotten`, `KlipperComesBack`: the entry is cleared after a start that failed | `service.py:312` |
| no `slow_cancel` | `CancelledWasRequestedInTime`, `ToldInOrder`: `cancel()` looks, then sets the one event outside the slot lock; the job may have ended and another begun | `jobs.py:373` |
| no `early_cancel` | `CancelHonouredInTime`: the job is listed before the event is cleared, and `cancel()` takes no slot lock, so that a cancel in between is marked and wiped. A client reaches this only by naming the job: `current()` waits for the slot lock, but ids start at 1 again with each agent | `jobs.py:277-278` |
| no `thread_fails` | `StartedJobsAreSeenToEnd`: the failed job is not announced | `jobs.py:352` |
| no `late_submit` | `ShutdownSparesWritesInTime`: a flash submitted after the look is cut off | `agent/service.py:144` |
| files to which a build added two lines (`SavedTwice`, `spoiled`) are excused | `BytesRestored`, `NoLeak`: backups are written back in the order they were taken, so the second one of a file holds the first line | `build.py:289` |
| `LinesApart` (no line is part of another) | `PatchedOnce`: the shorter line counts as applied | `build.py:268` |
| no `pull_during_build` | `FreshMeansCurrentWhenCalm`, `OperationsSettle`: the commit is read after make | `build.py:591` |
| no `menuconfig_during_build` | the same: the CLI's menuconfig takes no lock, and the answers are hashed after make | `cli.py:205`, `build.py:543` |
| no `dies`, `sidecar_fails` | `FreshMeansCurrentWhenCalm`, `UpToDateMeansSame`: the old note beside a new binary | `build.py:575` |
| no `unreadable` | `FreshMeansCurrentWhenCalm`: a .config that cannot be read or a `git` that fails, at the build or at the question, is not compared, and counts as not stale; `UpToDateMeansSame` and `OperationsSettle` stand it | `build.py:412,416` |
| no `unrecorded` | `UpToDateMeansSame`: a failed record is only reported | `build.py:689` |
| no `stop_meets_connect` | `StopEnds`: `stop()` finds no peer, and nobody looks at `_stop` after connecting | `agent/service.py:163` |
| no `edits_meet` | `EditsSurviveWhenApart`: the CLI (`cli.py:117,126,144,153,300,415`) and `save_settings()` write back what they read before another edit | `config.py:270`, `settings.py:160` |
| no `edit_meets_adoption` | `TrackedOnce`: `adopt_paired()` looks before it has the lock, and `add_serial()` asks one type only; `PairedBoardsAreAdopted`: an adoption that meets a busy lock is not tried again | `methods.py:1538-1567` |
| no `cli_tracks_again` | `TrackedOnce`: add-serial asks only about its own type | `cli.py:121-129` |
| no `pairings_meet` | `PairingsActOnce`, `AdoptsWhatWasWritten`, `PairedBoardsAreAdopted`: `record`, `forget` and `prune` overlap, and a stale copy drops a new pairing or brings an old one back | `pairings.py:57-107` |
| no `early_board` | `AdoptsWhatWasWritten`, `PairedBoardsAreAdopted`, `PairingsActOnce`: the board is back before its pairing is noted | `methods.py:1816` |
| no `board_flickers` | `PairedBoardsAreAdopted`: a board that leaves and returns between two polls leaves the same fingerprint; `AdoptsWhatWasWritten`, `PairingsActOnce`: a board that drops out and is written anew while `adopt_paired()` is at it | `events.py:234`, `methods.py:1552` |
| no `handler_fails` | `PairedBoardsAreAdopted`: the fingerprint is remembered first | `events.py:235` |
| no `download_unreported` | `AdoptsWhatWasWritten`: `dfu-util` fails after a download that did happen; the job ends without noting a pairing, and an older one acts | `flash.py:412-431` |
| a twin that is not among the untracked boards on the bus is excused | `AdoptsWhatWasWritten`: serials are counted among untracked boards only, so that a twin that is away, in DFU mode or tracked does not count | `methods.py:1547` |
| no `cli_install` | `AdoptsWhatWasWritten`: the CLI's install notes no pairing, and an older one acts | `cli.py:394` |
| no `dies` | `AdoptsWhatWasWritten`, `PairingsActOnce`: written and not noted, adopted and not forgotten | `methods.py:1816,1569` |
| `NoTwins` | `PairingsActOnce`: two boards, one DFU serial | `devices.py:224` |
| no `two_tabs`, `force`, `opens_meet` | `SaveDiscardsNothingWhenApart`: two sessions of one target | `kconfig.py:870`, `methods.py:2427` |
| no `menuconfig`, `dies`, `save_fails` | the same: the file changes under the session, session numbers start again at 1, a failed rename leaves no file | `cli.py:205`, `kconfig.py:832,784` |
| no `late_call` | `UnsavedWorkIsKept` and the same: a call has the session in hand while it is dropped | `kconfig.py:853` |
| no `told_early` | `LinesComeBeforeTheEnd`: the state is terminal before the last line is written, and `cancel()` sends the job as it is by then, as does whoever reads the state (run `joblog_told_early`) | `jobs.py:309,375`, `agent/service.py:241` |
| no lost connection | `LinesComeBeforeTheEnd`: lines that are lost come with the answer to the panel's question, which follows the end | `events.py:119` |
| a note behind a single value that holds the other separator is excused | `NotesStay`: the two splits cut into the note; `set()` always writes ":", so a note with "=" behind `key = value` outlives the first edit and not the second | `cfgdoc.py:287` |
| no `tail_lost` | `LogsAreComplete`: a gap shows when a later line comes; `PanelShowsTheJob` stands it | `events.py:119` |
| no `reports_overlap` | `PanelShowsTheJob`: state and job are read, and sent later | `agent/service.py:184-188,239` |
| no `old_python` | `NoLeftovers`: before 3.11 a future's time-out is not the built-in `TimeoutError` | `agent/rpc.py:210` |

## 3. Runs

Sizes are of one full run; every passing run explores its whole state space.

| Run | Instance | States | Shows |
| --- | --- | --- | --- |
| `lock` | two threads of one process that ask, one of which acquires, the CLI in another | 983 k | `holder()` is honest; "busy" means busy, unless both probe at one time; refinement of `Mutex` |
| `guard` | the agent and two CLI processes, 2 deaths, four sets of disturbances | 81 k | safe writes, the journal remembers, a user's stop stands, Klipper comes back |
| `guard_reconcile_overlap` | the same, one disturbance | – | counterexample to `SafeWrite` |
| `jobs` | 2 request threads, 2 jobs, 2 boards, SIGTERM; four sets of disturbances | 467 k | the body owns slot and lock, cancels are honoured and hit their job, events in order, every started job is seen to end, shutdown spares writes |
| `patches` | two types, two Makefiles, one of which gets two lines of one type, 2 accidents | 8 k | bytes restored and no leak in the files a build adds one line to, each line once in every file |
| `provenance` | 1 board, 2 commits, 2 configurations, six sets of disturbances | 4.4 M | fresh means current, up to date means same, builds and flashes settle |
| `connection` | 2 connections, 1 call, 1 request, 1 pool worker | 243 k | futures settle once, nobody waits for the dead, requests answered, loss noticed, stop ends |
| `adoption` | 2 boards, 2 types, 2 request threads, a CLI process, the watcher; nine scenarios | 2.0 M | edits survive, one type per board, pairings act once and for the right board, paired boards are adopted |
| `kconfig` | 2 tabs, 2 targets, 2 answers, a store of 2; five scenarios | 2.1 M | saved answers are kept, saves discard nothing, unsaved work is evicted last |
| `joblog` | 2 jobs of 3 lines, ring and batch of 2, up to 2 lost connections, a canceller; six scenarios | 383 k | the log does not lie, lines before the end, the job shown is the one that runs, logs are complete in the end |
| `joblog_told_early` | one job, cancelled as it ends, no connection lost | – | counterexample: the end is told before the last line |
| `cfgdoc` | every file of up to 4 lines of any shape and of 6 lines of the shapes of a block, each edit; every file of 3 lines, two edits; separators in some of the notes | 661 k | refinement of `ConfigMap`; notes stay |

Why the bounds are enough:

- lock: three threads give each race that involves a holder, a competitor and a
  prober, since the agent's first thread is each in turn and probes beside the second. That
  acquire() never waits (`LOCK_NB`, one bounded sleep) is not stated. Deaths and restarts
  are not bounded.
- guard, `MaxCrashes` = 2: one death leaves a journal entry, a second one hits the
  process that reconciles. Two CLI processes overlap each other as well as the agent.
- jobs, `MaxJobs` = 2: a stale effect needs a job to come from and one to hit. Two
  threads submit and cancel at once. `MaxBoards` = 2 puts a cancellation point
  between two boards. In `FindJob`, a job that is already marked is not asked again.
  Overtaken cancels (`slow_cancel`) make the instance too large for a run; what holds
  under them, `BodyOwnsHost` and `CancelHonouredInTime`, is proved.
- patches, `MaxAccidents` = 2: a kill and then a failed restore, or the reverse;
  leftovers of one type are met by the other and by itself. One type adds two lines to one
  Makefile and one to the other, so that both cases of a restore are in one build.
- provenance: a second commit and a second configuration are what a stale answer
  consists of; boards do not influence one another (there is one `todo` set), and
  the theorems hold for any number of them. Nothing else is bounded.
- connection, `MaxConns` = 2: a call, a close or a stop can be late by one
  connection. One worker with a handler that itself calls is the smallest full pool.
- adoption: a lost update needs two editors, a wrong adoption two boards or two types,
  a double one two installs (`MaxInstalls`) and a board that leaves and returns
  (`MaxMoves` = 4). The nine scenarios spend these bounds where they matter: edits
  alone, edits beside an install, installs of one DFU serial, deaths, overlapping
  updates of the pairings.
- kconfig: `MAX` = 2 of 4 sessions and `MaxOpens` = 3 evict; two sessions of one target,
  or of two targets, are what a save or an eviction confuses.
- joblog: three lines overflow ring and batch; the second connection is lost while what
  the first one lost is asked for.
- cfgdoc: a block with a note above, beside and below its items and a line after it has
  six lines; a second edit starts from what the first one wrote.

Symmetry is used on request threads, types, tabs, commits and configurations, and only in
runs without liveness properties. Deadlock is not checked where the instance may come
to rest: connections, scenarios and edits run out (`connection`, `adoption`, `kconfig`,
`joblog`, `cfgdoc`); every other run checks it.

## 4. Fairness

- Guard: weak fairness for a live process, since every `systemctl` and flashing
  command has a time-out, and for systemd's `ExecStopPost`. Strong fairness for the
  agent's start (`Restart=always`). `KlipperComesBack` has as premise that every
  program is run again from time to time (`Rerun`), since no one restarts a CLI.
- Jobs: weak fairness for request threads, workers and the shutdown thread. No
  request, cancel or SIGTERM has to come.
- Connection: weak fairness for the agent's threads; `call()` waits with a
  time-out. Nothing is asked of Moonraker, the link or signals.

- Job log: weak fairness for workers, for who has read something to send, for the
  batcher's thread, for the reconnect and the answer of `fw.job.get`, and for the panel,
  which handles what it is sent. No job has to be submitted and no connection to be lost.

The other modules have no liveness property and no fairness. That a paired board is
adopted is stated for the states in which the watcher has nothing to do, so that it
needs none.

## 5. Proofs

All theorems are about the specification of the module (`Spec`, `KconfigSpec`, `DocSpec`) for
every value of the constants within the `ASSUME`s of the module, and under every disturbance
the property does not exclude.

- `ExclusiveLockProofs`: `Inv` adds to the type invariant and to `RecordNamesHolder`
  that the threads in a holding state are exactly the one the kernel granted
  (`FlockIsExclusive`); without it a step of the prober could not be told from a
  step of the holder. `HolderHonest` needs more about calls under way: they have
  no verdict yet and a probe only starts with a name to check (`NoVerdictYet`), and
  the present moment is among those noted (`NotesThePresent`), so that an answer of
  "nobody" has its witness in `during`. `BusyIsTrue` is for any number of threads that probe, each
  in less than the delay, and excuses a call only if two of them were at it at one moment of
  it (`crowded`, noted in `during`): a first attempt that fails without an operation has met
  a prober, which by the end of the delay has found the record or cleared it. With none
  beside it, no thread has anything left to check at the second attempt (`ProbeMet`,
  `NothingToCheck`). `Refinement` maps each system call to a step of `Mutex` or to a stutter.
- `KlipperGuardProofs`: `LockMatchesPc` and `StopIsOwn` (an operation that found
  Klipper up is itself who took it down) give `UserStopRespected`. `NeverForgotten` is
  not inductive: `JournalInv` adds at which steps the entry must stand and that
  whoever is about to clear it owes nothing. `WriteInv` is the same for writes.
- `JobRunnerProofs`: slot, lock and body are changed by different steps of two threads, so the
  invariant says for every step of `submit` and of the worker what slot and lock hold
  (`SubmitOccupies`, `WorkerOccupies`), that there is one submitter in that section, and that
  jobs not yet issued have no worker. Three more invariants stand on it: `HInv` on `CInv` (for a
  cancelled job in the slot the event is set, or its canceller is about to set it, `Heard`;
  while the event is still to be cleared nobody has asked, `NobodyAskedYet`; who has not been
  issued was asked for by nobody, `NoneAskedBefore`) for `CancelHonouredInTime` under every
  disturbance but `early_cancel`, `TInv` (without an overtaken cancel, event and mark are of the
  job in the slot, and no canceller is under way when it ends) for `CancelledWasRequestedInTime`
  and `ToldInOrder`, `SInv` (what the shutdown joins is what runs) for
  `ShutdownSparesWritesInTime`.
- `EditedFilesProofs`, Makefiles: `Backed` says that a file that differs from what the build
  found has a backup that is still to be put back, and that a backup is the file as it was then;
  `Clean` that without accidents there is nothing of ours in a file between builds; `Patched`
  that no patch is in a file twice, and that those applied so far are there. Files of two lines
  are excused one by one (`SavedTwice` in the build at hand, `spoiled` in an earlier one), so
  that nothing is assumed of the instance, but for `EveryLineIsPatchedOnce` that no line is part
  of another (`LinesApart`); without these the code does not keep the properties (section 6).
- `EditedFilesProofs`, Kconfig sessions: `SessionsInv` says that the store holds distinct
  sessions, all with numbers already given out, and never more than its limit less the one being
  parsed (`StoreOK`); that there are numbers enough for whoever is opening one (`NumbersOK`);
  and that a call has a session in hand, which need not be in the store any more, and the build
  lock just while it saves (`CallsOK`). On it stand `AnswersOK` (the file is what was last told
  to be saved, or is away and the backup is that) for `SavedAnswersAreKept`; `UnsavedOK` (a
  call's session is still in the store; unsaved answers are in the store or were given up) for
  `UnsavedWorkIsKept`; and `ApartOK` for `SaveDiscardsNothingWhenApart`: a target has one
  session (`Alone`) or one who asks for it (`AskedAlone`), a session has seen what was last
  written (`Seen`), and a file is away only between the two renames of a save (`InPlace`).
- `EditedFilesProofs`, config document: `EditsChangeWhatTheyName` is the refinement of
  `ConfigMap`. `DocInv` says that what the parser made of the lines is what is kept, and that no
  section and no key is there twice (`Unique`). An edit is a splice: a section before or behind
  it keeps its options (`SectionOutside`, by `SectionCopied`), an option outside the replaced
  lines keeps its span (`SpansStay`, `SectionInside`), and what is written is read as the value
  it was written from (`RenderedIs`), whatever notes it takes along. That needs facts about
  `FlattenSeq` for sequences of any length. Such an induction is out of reach as a scheme; it is
  carried out on sets of numbers, each of which has a least element (`LeastOf`, `SeqInduction`),
  which is the library's well-foundedness of `<`. `NotesAreKept` adds to `DocInv` that a
  document that has lines starts with a header (`Headed`), so that every line has a section.
  What a line speaks for follows from two others: the header above it (`IsHolder`) and the line
  it goes on with (`IsBase`, `SubjectIs`). Outside the lines that an edit replaces both move
  along with it (`OutsideStays`); within them, the label or item that `_render()` writes for a
  note is found in the new text, above the same item or below the last one (`LabelsInBlock`,
  `LastLabelsInBlock`, `ItemInBlock`; `NoteKept`), and there it speaks for the same
  (`NewSubject`).
- `ProvenanceProofs`: `NoteOfStaged` (the sidecar describes the binary beside it, save while
  both are replaced), `LogOfHeld` (the log describes the board, save between a write and its
  record), `BuildOfHere` (what a build has put together is of the tree as it is). The first two
  give `UpToDateMeansSame`, the first and third `FreshMeansCurrent`, where git and the files
  give an answer (`AllReadable`): only then is "not stale" the outcome of two comparisons. For
  `OperationsSettle`, `NoteIsOfHere` carries `BuildOfHere` to the end of a build, and
  `WrittenAreDone` says that the boards a batch wrote hold the staged binary and have an entry
  that says so.
- `AgentConnectionProofs`: `TableHasUnsettled` is the heart: a call that still waits is in
  the table or in the hands of the reader; `DeadTable` says what a dead reader's table
  may hold, `DownFirst` why a late sender is refused. `SettledOnce` is an action property
  proved from the same invariant.
- `AdoptionProofs`: `Stage` says for each editor what its step, its edit, its copy and the lock
  have to do with one another. On it stand three strengthenings: `Apart` (an edit outside the
  lock is alone, so that its copy is an edit of the file as it is), `Once` with `Alone` (no copy
  of the file tracks a board twice; while the watcher adopts it is alone with the registry, and
  what it has yet to adopt is tracked nowhere) and `Chain` (from the pairing that the watcher
  acted on to its removal: who has read which copy of the pairings, and which are consumed). For
  `PairedBoardsAreAdopted`, which is about the states in which the watcher rests, `Settled` says
  at each of its steps that nothing is forgotten: the boards of the remembered fingerprint that
  are owed an adoption are still before it (`NoneForgotten`), and nobody keeps it from the
  registry or edits beside it (`OnlyAdoptions`). `Truth` is for `AdoptsWhatWasWritten`: a
  pairing says what some board of its serial holds, or its successor is about to be noted and
  the board is away, or its board holds nothing, since a later write broke off (`Wiped`); what
  the watcher saw stays on the bus, and so is not written, until it is done.
- `JobLogProofs`: whatever is on the wire stays true while the agent writes and the panel learns
  (`Sound`: an event has consecutive lines that were written; an answer leaves out but what the
  panel has or the ring has lost), the batch ends where its job has got to (`BatchIsOfLast`),
  and one answer at a time is under way (`OneAnswer`; with two, an older one could come last).
  This gives `TheLogDoesNotLie`. For `LinesComeBeforeTheEnd` wire and batch are one stream: its
  events are of consecutive lines (`InTurn`, `Awaited`), all that the panel lacks is among them
  (`NoneMissing`), and no line of a job follows its end (`EndComesLast`); that rests on who can
  tell an end at all: no report that was read says so (`NobodyEnds`), and a canceller's job is
  not over while he is at it (`CancellerIsInTime`). For `PanelShowsTheJob`, `SlotInv` ties
  worker, slot and terminal state together and says that what was read is still so
  (`ReportsAreTrue`, where a job that is over is never shown to run), and the wire leads the
  panel to the job in the slot, or to one that somebody is about to tell of (`LastIsDue`).

Only model-checked: the liveness properties (`KlipperComesBack`,
`StartedJobsAreSeenToEnd`, `RequestsAreAnswered`, `LossIsNoticed`, `StopEnds`, `LogsAreComplete`),
which are out of the prover's reach.

## 6. Disagreements found

Two are shown by runs:

1. `guard_reconcile_overlap`: a command started during a flash reconciles: it finds the
   running operation's journal entry, starts Klipper under the write and drops the entry.
2. `joblog_told_early`: a `cancel()` of a job that ends meanwhile sends the end before the
   worker has written the last line ("always flushed *before*", `docs/agent-api.md:683`).

The others are premises of properties, or cases that a property excuses (the table in
section 2); a run without the premise finds each of them at once:

3. `lock.py:157`: two requests to the agent probe a leftover record one after the other, and
   meet both attempts of a command, which is told of an operation nobody runs ("the only
   thing a 50ms wait can lose to is holder()'s momentary probe lock").
4. `build.py:289`: two lines for one Makefile; the backups are restored in the order they
   were taken, so the first line stays ("Restores the original file *bytes*", line 245).
5. `methods.py:1547`: twins are counted among untracked boards only. A board that is tracked
   by hand before its install comes back, and its twin is adopted by the pairing that is left.
6. `cfgdoc.py:265`: `block()` returns before it writes the notes below the last item when
   there is no item left, although the comment (272-274) names this case as the one to keep
   them for (`KeptBySet` excuses it).
7. `cfgdoc.py:287`: a note behind a single value is lost when the other separator is in it
   ("keep a trailing comment it already had", line 284).
8. `jobs.py:373`: `cancel()` of a job that ends meanwhile sets the event of the next job.
9. `jobs.py:277-278`: a `cancel()` that finds a job before `submit()` has cleared the event
   is wiped; the client reads that it was asked for, and the boards are written.
10. `agent/service.py:144`: a flash submitted after `request_stop()` looked is cut off in a
    write ("never in the middle of a write", line 137).
11. `build.py:412,416`: what cannot be compared counts as not stale.
12. `cli.py:205`: the CLI's menuconfig saves during make, and the note then claims
    answers the binary was not built from (`methods.py:2512-2516` takes the lock for this).
13. `config.py:270-276` promises that no edit of the registry is lost; the CLI's edits and
    `save_settings()` ("cannot clobber [mcu ...] sections written in the meantime",
    `settings.py:157`) do not take the lock and can lose one.
14. `kconfig.py:870`: two tabs that open one target at once are not told of each other; a
    restarted agent hands out session numbers that an old tab still has (`kconfig.py:832`), so
    that two tabs then share one session.
15. `methods.py:1552-1575`: an adoption that meets a busy registry lock is given up until
    the bus changes again; a pairing noted while another one is forgotten is dropped.
16. `kconfig.py:665-685`: a refused `set` of a choice member has moved the choice before it is
    refused, and the session is not marked as changed ("the old value must survive a refusal",
    `tests/test_kconfig.py:370`); no property is about it, since a save writes what the
    session holds.
17. `layout.py:70` calls the migration safe from two processes at once. The loser finds the
    source gone only if the winner is done; between the two checks of lines 82 and 86 it finds
    the target there, and raises (read, not modelled).

## 7. What the models leave out

- **Lock**: that a probe is shorter than the 50 ms and a process start longer (`PromptProbes`)
  is an assumption of `BusyUnlessProbesMeet`; Windows, where there is no flock; `OSError` while
  the record is written or withdrawn. What `holder()` names may be out of date by the time it
  returns (`lock.py:107,123`), which no property denies.
- **Guard**: the print check (`assert_printer_idle`), `NullService`, journal I/O errors; a
  Ctrl-C inside the final start counts as `start_fails`; the user does not touch the
  unit during an operation.
- **Jobs**: the log of a job is in `JobLog`; boards are a number. `wait()` on a thread that was
  not started yet raises, and is modelled as raising. The snapshot re-sent after a
  reconnect is not in the model.
- **Patches**: a kill in the middle of the append leaves a part of a line; the runs let
  no line be part of another one (`PartOf` allows it).
- **Provenance**: one MCU type; builds are deterministic; a board is its binary or `Torn`; the 5
  s cache of `git_head`; that git or a file cannot be read is one disturbance for all reads,
  each of which may fail or not; a prefix match of abbreviated commits is equality; nobody
  flashes by hand; Klippy that cannot be asked is `reported` = FALSE; `forget()` has no caller
  (`build.py:692`), so that a board keeps its entry as long as the model runs.
- **Connection**: framing, `notify()`, back-pressure of a full socket; the handshake's own
  calls, of which only the outcome is kept; the back-off wait is part of the loop;
  `_peer` is set together with the connection, since Moonraker sends nothing before the
  handshake; socket and `_closed` go in one step of `close()` and the rest in another,
  taking the table and failing what was in it in one step each (the table is taken under
  its lock); an answer without an entry changes nothing; a handler returns what JSON can
  hold.
- **Registry and adoption**: the temporary file, whose name all writers share
  (`mcu-updater.cfg.tmp`): those without the lock can rename each other's; a `[updater]` section
  that does not parse is read as defaults by `settings()`, which `settings_set` then writes.
  Reads of the registry are one step. A file on disk is what its readers see (`ConfigMap`). The
  wait of `add_mcu` only reports. A `type_remove` that is forced (`purge`) takes the boards of
  its type along. A day of the pairings' TTL passes while no update is under way.
- **Kconfig**: a tree is a set of answers, so that which symbols depend on which, and where
  the user is in the menu, are left out; `want_build` is refused after a save that
  worked when a build began meanwhile; nothing is synced to the disk.
- **Job log**: lines are numbers; the panel is not code of this repository and follows
  `docs/agent-api.md`. The slot is freed and the next job submitted by different threads, as in
  `JobRunner`, of which no more than this is kept. The last line of a job is the one that may
  follow its terminal state, as a failed or cancelled job's does; one canceller at a time.
- **Config document**: text is tokens; a section or a key twice (`Registry.load()` refuses
  the first; of the second, `remove_option()` brings the dead copy to life); an item twice in
  a block, where notes move; the note beside the key of a block, which a rewrite drops, and
  notes above an item that is removed; an item below a blank line inside a block, which is
  not read. The branch of `remove_section()` that takes one blank line is never taken: the
  section ends at the next header.

Not modelled at all: layout migration and displays (see the plan); `run_streamed`; path,
settings and error helpers, which are pure; the installer and the simulators.

## 8. Plan

Done: lock, guard, jobs, patches, provenance, connection, in this order, which is that of
the damage a mistake does; then registry and adoption, kconfig sessions, job log, config
document. Next:

1. `Displays`: the image, its note and a foreign build (`artifact_state`), what a screen runs
   (`firmware_state`), the port to MAC map. "current" is never said of another image.
2. `LayoutMigration`: two processes that start at once.
3. `BoardFlash`: Katapult and DFU entry, re-enumeration with time-outs. Only the board asked
   for is written.
4. `RunStreamed`: pipe, cancel and time-out of a child process. No child outlives its build.

Every safety property that holds is proved; theorems come next with these modules.
Runs: each has to end within five minutes. A module that arrives shares a run with one it
shares state with, and a counterexample run whose lesson is written down here gives way.
