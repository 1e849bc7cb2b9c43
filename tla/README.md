# ProfileDock in TLA+

ProfileDock keeps browser profiles: it stores their metadata, launches a browser
on a profile's data directory, and drives or closes that browser later, from
whatever process the user runs next. Nothing like a server holds it together.
Several short-lived processes (CLI commands) and long-lived ones (the terminal
UI, the MCP server) meet in files: `metadata/profiles.json` under a lock,
`runtime/<id>/running.json` under none, and the operating system's process
table. What is hard about the program is what happens between those processes,
and that is what these modules are about.

Paths below are relative to `src/src/profiledock/` unless they begin with `docs/`.

## 1. Inventory

| Component | State it keeps | Operations | Meets | What makes it correct |
|---|---|---|---|---|
| Metadata document (`models.py`, `validation.py`) | a document: profiles with an engine and a launch preset | parse, migrate, validate, update | storage | no document in force breaks a constraint between its fields |
| Metadata storage (`storage.py`) | `profiles.json`, `.bak`, `.lock` | lock, load, back up, replace, migrate | every command | no update is lost, the file is always valid, the backup is the neighbouring version, the lock comes free |
| Profile manager (`profile_manager.py`) | none between commands; a resolved profile within one | create, delete, rename, set engine / tags / preset, mark launched | storage, runtime state, directories | an update changes what it was asked to change |
| Direct engine (`process/direct.py`) | `running.json`, the spawned browser | start, close | process table, status | one browser per profile, found again by close |
| Process identity (`process/identity.py`) | none | alive, creation time, match, signal, stop | process table | no other process is signalled |
| Status and close (`process/manager.py`) | `running.json`, which status also cleans | get_status, is_running, is_active_for_mutation, close_controller | both engines | a verdict is never acted on after it has become wrong |
| Playwright launcher and closer (`process/playwright.py`) | `running.json`, the controller process, error file | start, close | controller | one controller per profile; a failed launch leaves nothing behind and removes nothing of another's |
| Controller (`process/controller.py`) | a socket, worker threads, a queue, an event, the browser context, the tabs generation | accept, read, queue, execute, shut down | its clients, signals, the browser | commands run one at a time, refused ones never ran, a close ends it, nobody waits for ever |
| Controller clients (`process/ipc.py`) | none | send a command, start a controller if none answers | controller, launcher | a command runs once |
| Tab, page and cookie commands (`process/controller.py`, `process/direct_bridge.py`, `ax_snapshot.py`; clients in `commands/automation.py`, `commands/mcp.py`, `tui/backend.py`) | the tabs generation; in the pages, the snapshot registries | tabs, read, eval, capture, snapshot, interact, cookies | the browser, its user, each other | an index or a ref means what its client saw; a deletion spares partitioned cookies |
| Directories and doctor (`profile_manager.py`, `doctor.py`, `fsops.py`) | profile, quarantine and temporary directories | create, delete, repair | storage, runtime state | metadata and directories agree; a running profile is not moved |
| Restore, backup, migration (`restore.py`, `backup.py`, `migration.py`) | staged and quarantined trees, an archive, a second data root | stage, commit, roll back | storage, runtime state, directories | all or nothing; no archive of a profile in use |
| CLI, TUI, MCP server, metrics, coherence, formats | no shared state of their own | call the above | | |

How they interact. A *command* is a process, or a thread of a long-lived
process, that calls `ProfileManager` (metadata), then an engine (runtime
state), then perhaps the metadata again. Metadata is guarded by a file lock
that is taken twice per command, once to resolve the profile and once to
update; what is computed in between is computed from a snapshot. Runtime state
is guarded only by the exclusive creation of `running.json` and by reading it
again; everyone may remove it when it looks stale. The controller of a
Playwright profile is a process of its own, reached by a loopback socket; only
its main thread may touch the browser.

What is hard: snapshots used after the lock was released or the file was
replaced; pids taken over by other programs; launchers and closers that die
between two steps; disk errors between a backup and a replacement; time-outs
of a lock, a launch, a close, a client; a shutdown that overtakes queued work.
`PROJECT.json` lists these hazards one by one, each at its line.

## 2. What is modelled

### ProfileDoc and ProfileRegistry

`ProfileDoc` is the data: a document is a function from ids to profiles, a
profile has a name (standing for every attribute without a constraint), an
engine, and a preset of an engine, a browser and a "locale" (standing for every
unconstrained setting). Engine and browser are kept apart because
`validate_browser` ties them together and they are changed by different
commands. `Apply` is what the `*_atomic` functions' updaters do.
`ProfileRegistry` is the abstract specification: one document that changes by
one valid update at a time.

### MetadataStore

| In the module | In the code |
|---|---|
| `primary`, `backup`, `lock` | `profiles.json`, `profiles.json.bak`, the flock on `profiles.lock` |
| `pc`, `cmd`, `upd`, `newdoc` | where a process is, its command, the update computed outside the lock, the document to be written |
| `previous` | history: what `primary` held before its last replacement |
| `StartCreate`, `StartOther` | a command of `ProfileManager` begins |
| `AcquireToResolve`, `Resolve`, `MigrateLegacy`, `WriteMigrated` | `ensure_migrated` under its lock, and the computation of the update from the resolved profile |
| `AcquireToUpdate`, `Load`, `BackupMetadata`, `WriteUpdate`, `Unlock` | `atomic_update_metadata` |
| `LockTimeout`, `WriteFails`, `Crash` | the deadline, an `OSError`, the death of the process (the operating system frees the flock) |

Reading, backing up, replacing and unlocking are separate steps, so that other
processes, failures and crashes come between them. The initial file is any
valid one, of the current or an older format, or none.

### DirectEngine

One profile. `file` is `running.json`, `os` the process table: under each pid
nothing, or a process with its creation time, its parent and the signals it was
sent. Starters, pollers and closers run `start_direct_chrome`, `get_status` and
`close_controller` step by step; reading the file, judging it against the
process table, and removing it are three steps, as in the code. A zombie of
another process counts as alive and one's own is reaped by `_alive`, as
`os.waitpid` does. The environment makes browsers exit, lets other programs take
over free pids, and ends ProfileDock processes, whose children are orphaned.

Verification and signal (`_is_matching_process`, then `os.killpg`) are one step:
the gap between two system calls cannot be closed by any program without
process handles and is not this code's to close. Creation times are distinct
ticks, a tick being longer than the two seconds of tolerance, and an existing
process's creation time can be read.

`DirectHistory` has the same steps and three history variables: which processes act
on a `running.json` that has changed since they read it (`outdated`), whether a
state that still counted was removed or replaced (`overruled`), and whether a
launcher died holding a browser (`abandoned`). It restricts nothing; it says
what has to have happened before a profile has two browsers, or one that is
on no record.

### PlaywrightEngine

One profile again, with an engine whose browser belongs to a controller process.

| In the module | In the code |
|---|---|
| `file`, `err` | `running.json` (empty between its creation and its first content); whether `controller.error` exists |
| `ctl`, `browser`, `parent` | of each launch, its controller, the controller's browser and the process that launched it |
| `pc`, `op`, `snap`, `mine`, `sent` | where a ProfileDock process is, its command, the state it read last, the launch it attempts, whether its close was acknowledged |
| `failed` | history: the launches that raised `BrowserLaunchError` |
| `Read`, `Judge`, `Reap`, `UnlinkStale` | `get_status`, which all commands run |
| `Create` ... `LaunchSucceeds`, `GiveUp` ... `UnlinkFailed` | `start_controller`, its loop and its roll-back |
| `Boot` ... `LeaveController` | `_controller`; its request loop is one stage (`serving`) and is `ControllerIpc`'s subject |
| `Precheck`, `Reread`, `MarkClosing` ... `CloseSucceeds` | `close_controller` and `_close_playwright` |
| `Die`, `KillController`, `ReapController`, `BrowserExits` | the environment |

A launch is known by its token. That makes the properties statable (whose state
is in the file?) where the code often does not look: the controller replaces the
file and removes it, and a launch and a close remove it, without asking whose
state it holds. Every deadline may pass at any time (`"timeout"`), a state may
fail to be written (`"write"`), a spawn and a browser launch may fail, Ctrl-C
may interrupt the wait, a controller may be killed, and the user may close the
browser; `Failures` says which of these a run includes.

Left out: reuse of pids (`DirectEngine` is about it), a browser whose pid or
creation time could not be found (`_find_browser_pid` waits for it and then
records 0), and a process that survives a SIGKILL beyond its sender's next look.
That a path exists and what it holds are read in one step. A file that was
unlinked between its creation and the write of its content stays unlinked: the
content goes to the old inode.

### ControllerIpc and RequestService

`_wait_for_close`: the listener thread, one worker per connection, the queue,
the event, and the main thread's loop and clean-up. A connection's state is
also that of its worker, which counts as ended at its last visible step. The
waits with a deadline may end at any time: `accept`, `get`, and the joins of
listener and workers, which therefore block nothing and are not steps. The kernel's backlog is unbounded here; a full one only makes a client's connect
fail. The listener may fail at any `accept`, also while it serves, and when no
thread can be started for a connection (`AcceptFails`, `AdmitFails`). The `should_exit` that `_execute_ipc_command` could return never is true
there, because `serve` handles every close itself. `RequestService` is the
abstract specification: commands run one at a time, are answered after they
ran, and one that is turned away has not run.

### ProfileLibrary and the data root

`DataRoot` is a data root on disk as every command on directories sees it;
`ProfileCommands`, `Restore`, `Backup`, `Doctor` and `Migration` add the commands,
one module each, and `DataRootSystem` composes them.

| In the modules | In the code |
|---|---|
| `doc`, `form`, `bak` | the entries of `profiles.json` and how it is written (current, a bare array, damaged); `profiles.json.bak` |
| `dir` | `profiles/<id>`: absent, without `browser-data` ("bare"), empty, or with data of some lineage |
| `hidden` | `.deleting-*`, `.quarantine_*`, `.temp_restore_*` and `.removing-*` next to them |
| `run` | `runtime/<id>/running.json`: none, of a live browser, or stale |
| `lock`, `pc`, `job` | the metadata lock, where a process is, what its command knows (its selection, the document and the directories it read) |
| `out`; `ddoc`, `ddir`, `staged` | the archive at the chosen place; the other root and its `.m-*` |
| `StartCreate` ... `UndoCreate`, `StartDelete` ... `DiscardDeleted` | `ProfileManager.create` and `.delete` |
| `StartRestore` ... `Cleanup` | `restore_backup_archive`, with its rollback |
| `StartBackup` ... `Publish` | `create_backup_archive` |
| `StartRepair` ... `Reattach` | `repair_environment`; `Report` is what `run_diagnostics` says |
| `StartMigrate` ... `DiscardRemoved` | `migrate_project` and `_remove_source` |
| `ResolveLegacy`, `Launch`, `MarkLaunched`, `Stop` | a launch: it resolves the profile under the lock, starts the browser without it, and takes it again to record the time; a browser's end |
| `Crash`, `Fault` | the death of a process, an `OSError` |

Single updates of the metadata are one step here (`Commit`), which `MetadataStore`
shows them to be; what `DataRoot` adds is that restore holds the lock from its
selection to its clean-up, and that nothing protects the directories, nor a
browser's start: it may come while a restore holds the lock. Data is
known by its lineage, so that the loss of a profile's data, or its
replacement by another's, is visible, and the writes of a browser are not. Two
things in the state are history: `owed` in `hidden` says whose data a
hidden directory is (of several of one profile, the one that was hidden first), and `seen`
which profiles a browser visited while a command read them. A hidden directory is known by
the process and the command that made it, as its random name makes it in the code. The root at the start is any that older versions, users and crashes
leave: legacy or damaged metadata with or without a backup, listed profiles
without a directory, directories nobody lists. Stale runtime states are what browsers
that die leave.

Merged into one step: the two renames of `profiles.json` and its backup in a removal
(`RemoveMetadata`; if the second fails the first is taken back), and a launch's look at
the data directory with the start of its browser (`Launch`; what `running.json` goes
through in between is `DirectEngine`'s and `PlaywrightEngine`'s subject).

`ProfileLibrary` is the abstract specification: the user has a set of profiles,
each an entry and its data, and it changes by whole commands. The refinement
mapping (`lib`, `away`) finds a profile's data in its hidden directory while a
command has it there.

### SessionSystem

`BrowserSession` is a profile's browser as automation sees it: tabs in order, the
controller's generation, the commands sent and what is known of each.
`PageCommands` and `CookieCommands` add what happens inside a tab and to the
cookie jar, `SessionSystem` the clients (command line, MCP tools, terminal
interface), the two executors and the user.

| In the modules | In the code |
|---|---|
| `engine`, `pages`, `generation` | the running session, `context.pages`, `_tabs_generation` |
| `tree`, `refs` | the named elements of a document; the registry `_REGISTRY` in its page |
| `call` | each command: what was asked, how far it is, what it saw |
| `jar`, `want`, `doomed` | the cookies, the keys a call asks for, the dictionary of `_delete_cookies_live` |
| `listed`, `current`, `void` | history: what the last snapshot of a tab lists, which snapshots in progress still have their document, which tab lists an uncounted closing has outdated |
| `Send*`, `Reach` | the clients and `send_controller_command`, which may start a session |
| `Dequeue`, `Connect` | the two executors: a controller runs one command at a time, each client of a Direct session has a connection of its own |
| `Tabs` ... `CloseTab`, `ReadPage` ... `Interact`, `Cookies` ... `DeleteCookie` | `_execute_ipc_command`, `run_direct_cdp_command` and `execute_snapshot_command` |

Where a command asks the browser more than once, each question is a step, since
the user, the page and on a Direct session other clients come in between. A tab may also close or
open without any command: by the user, a page of its own accord, a script that a client
evaluates or a click it makes (`Behaves`), and a command that reports an error may have
closed its tab all the same (`CloseTabFails`). The controller counts none of these. A client
that times out leaves its command queued; a client that repeats its command is
one more call, so that no time-out is needed as a step. The generation starts at 0
in a new controller, so that lists from an earlier session are void; and no
client of ProfileDock sends a generation: only clients of the controller's
protocol do (`SendGuarded`).

## 3. What is checked

| Run | Instance | Properties |
|---|---|---|
| `store_commands` | 2 processes, 1 id, engines None (that is, Direct) and Playwright, 1 browser that only Playwright runs | `TypeOK`, `StoredDocumentValid`, `BackupTrailsPrimary`, `ImplementsRegistry`, `LockComesFree`, `CommandReturns` |
| `store_config_edit` | 2 processes, 1 setting besides the engine | `ConfigEditStoresOneValue`: **violated** |
| `direct_commands` | a process that launches, exits between commands or crashes, one that launches, polls and closes; 2 pids, 2 creations, browsers exit once identified | `TypeOK`, `NoStrangerSignalled`, `LossHasACause`, `ClosedBrowserIsDead`, `SignalledBrowserEnds`, `OnlyOutdatedOverrule` |
| `direct_identity` | a launcher, a closer, 1 pid; browsers exit at any time | `NoStrangerSignalled`: **violated** |
| `direct_duplicate` | a launcher that exits after its command, a poller, 2 pids | `OneBrowser`: **violated** |
| `pw_commands` | a launcher that may be killed at any step, a process that closes and polls; 2 launches, every failure, controllers may be killed | `TypeOK`, `FailedLaunchIsOver`, `ClosedBrowserIsDown`, `StaleStateGoes` |
| `pw_duplicate` | one user, 3 launches; the browser may be closed by hand | `OneBrowser`: **violated** |
| `ipc_commands` | 3 connections, limit 2 | `TypeOK`, `WorkBounded`, `OneLateCommand`, `ImplementsService`, `CloseEndsController`, `EveryConnectionEnds` |
| `root` | 2 profiles; a process that runs any command and may die, one that creates, deletes or repairs; 2 failing file operations, browsers | `TypeOK`, `PublishedUnvisited`, `NothingLeft`, `LosesOnlySwept`, `RepairHeals` |
| `root_sweep` | 1 profile, a restore that dies, a repair | `ImplementsLibrary`: **violated** |
| `session` | 3 tabs, 2 elements, 1 cookie key, 3 calls, 1 act of the user or a page; seven mixes of commands | `TypeOK`, `RefsOfLastSnapshot`, `GuardedIndex` |
| `session_partitioned` | 1 tab, 1 cookie key, 3 calls | `PartitionedRefused`: **violated** |

What they show.

- *The store.* Whatever commands two processes run, wherever they crash and
  whichever write fails, `profiles.json` is a registry that changes by whole,
  valid updates, each applied to what is there. A preset accepted against a
  stale engine never reaches the file, because the document is validated again
  under the lock. The backup is never older than one version. And every command
  ends, however busy the lock is.
- *A finding.* A config edit commits a whole preset computed from its snapshot.
  The registry is intact, but a concurrent edit of *another* setting is undone,
  which is not "Store one launch-preset value for a profile"
  (`commands/config.py:74`).
- *The Direct engine.* Where launchers, browsers and closers come and go as they like, a second
  or a forgotten browser always has a cause: a state that counted was removed or
  replaced, or a launcher died holding its browser. Only those whose view of
  the file has been overtaken remove such a state (or a close of a launch that has no browser
  yet), and no launch does by claiming the profile: exclusive creation keeps racing
  launches apart. A view is overtaken when a launcher, or a browser, exits between
  another process's read of the state and its look at the process table. If browsers never
  exit before they have been identified, closes signal only browsers, however pids
  are recycled.
- *Two findings* are what those conditions leave out. On an overtaken view a status poll can take a
  launch for crashed that has just succeeded and remove its state, after which
  a second launch is accepted. A browser that exits while its launcher waits
  for the DevTools port is recorded without a creation time, and a pid without
  a creation time matches any process.
- *The Playwright engine.* A launch reported as failed is over: its controller
  is gone, and its state is not in the file, although the controller may have
  written it between the two removals. The one exception is a close that had
  read the state before and marks it afterwards; it removes it again. A close
  that succeeds leaves the browser down, also when the state it waits for was
  removed by somebody else. And a crash of a launcher or a controller, wherever
  it happens, is recovered by whoever polls.
- *A finding.* The controller's last act is to remove `running.json`, whatever
  it holds. Its browser being gone already makes its state stale, so that in the
  meantime another launch may have begun and succeeded; with the file of that
  one removed, a third launch is accepted, and two browsers share a profile.
  One user suffices: close the window, launch, launch.
- *The controller.* Admission bounds workers and queued items together to less
  than twice the limit. After a shutdown at most one more command begins, the
  one the main thread was about to take. Refused connections never had their
  command run, also those drained from the queue, so that only the end of the
  controller leaves a client in doubt. An acknowledged close ends the
  controller, and every connection is answered or closed.
- *The data root.* Commands that are not kept apart (below), and that do not die in the
  middle of a restore, change the library by whole commands, although only restore holds the lock throughout: an entry
  and its data come and go together, an overwritten profile is the old or the
  new one, a move to another root empties this one only when everything is
  there. A failing file operation anywhere, including one in a rollback, loses
  no data: what cannot be moved back stays hidden. Without failures nothing is
  left behind, whichever way the commands end. A repair with both options
  that meets no failure and no running browser makes the root healthy in doctor's own
  terms, also one whose metadata was damaged, as long as there is a backup of it. A browser started while a backup reads keeps the archive from being
  published.
- *A finding.* A repair deletes every quarantined directory. When a restore died
  after it had moved an existing profile away and before it committed, that
  directory is the only data of a profile that is still listed, and the document
  calls such a sweep safe (`docs/reference/threat-model.md:155`).
  Nothing else loses data: wherever a restore dies, and whatever fails on its way
  back, the sweep is the only step after which a listed profile's data is gone, and what the
  restore had moved in shows only in listed profiles that had no data. `LosesOnlySwept`, of
  the run `root`, is `ImplementsLibrary` with just these two exceptions.
- *A session.* With a controller, a ref never finds an element of another
  snapshot than its tab's last, whichever snapshots failed half-way and whatever
  the page did. A guarded index acts on the tab its list showed, whatever tabs the
  commands of others opened and closed since, also when the call is repeated. It is
  no protection against a tab that closes uncounted: by the user, a page, a script, a
  click, or a close that raises after the fact.
- *A finding.* "Partitioned-cookie deletion is refused before any deletion"
  (`docs/reference/commands.md:456`) fails where an unpartitioned cookie has the same
  name, domain and path: the check looks at one cookie per key
  (`process/controller.py:126`).

### Commands kept apart

In the data root's runs a repair and a removal of the source (`migrate
--remove-source`) run apart from everything else, and a delete apart from a
restore (`Apart`, `Unmixed`); browsers keep running meanwhile, and none is launched during a
repair or a removal. The
documentation asks for it in part (`docs/reference/threat-model.md:208`: "Close
profiles before backup, restore overwrite, migration, deletion, or repair"). The
restriction is not for the size of the instance; without it
`ImplementsLibrary` fails, in these ways:

- a repair reattaches directories to a document it read before it took the lock,
  and a commit in between is lost (`doctor.py:1058`); it takes a directory that a
  create has not listed yet for an orphan; its sweep removes a directory that a
  delete will want to move back (`doctor.py:825`);
- a removal of the source checks its metadata and then deletes it without its
  lock, and a create in between is lost (`migration.py:548`), as is what a browser that is
  launched after the check writes;
- the rollback of a restore removes the directory at a profile's final place,
  also when it is not its own but one that a failed delete has moved back
  (`restore.py:634`).

### Bounds

Two processes suffice for the store, since only the holder of the lock changes
anything and everyone else is in the place of the second; one id suffices since
updates of different ids commute and validation is per profile (duplicates are
excluded by `Appliable`). The engine may be set to none, which counts as Direct,
so that an engine change can invalidate a preset. For launches two processes are
enough: one that judges stale, and one whose file is removed and that launches again.
`MaxClock` bounds the creations of processes: two allow a browser and a stranger
under its pid, or two browsers. Two pids distinguish a recycled pid from a new one. For the Playwright engine, two launches are one whose
remains are still at work and one that they may harm; the violated run needs a
third, to be accepted wrongly. A start begins only while a launch is left. For the
controller's request handling, a limit of two with three connections makes
`WorkBounded` tight, fills the admission and lets a connection queue behind a
shutdown.

On a data root, two profiles let a command stop half-way through its loops; each
process runs one command (`MaxCommands`), which meets the other's at every step;
two operations fail (`MaxFaults`), so that a rollback may fail, too. Processes die at
`CrashPoints`, one point of each kind: with a directory made, while reading, with a
profile moved aside and the new one not yet in or not yet committed, and on the way
back. `Archives` holds every set of profiles.
`ShortVisits = FALSE` excludes a browser that comes and goes between the two
checks of a backup or a migration.

In a session, three calls are a list, a change and a command made from the list, or two
snapshots and an interaction; `Mixes` says which commands are tried together, each
with those it shares state with. `MaxTabs` counts the tabs opened, `MaxEvents`
the acts of the user and of pages on their own, `Indices` the indices
clients use without having read a list.

`CHECK_DEADLOCK FALSE` appears where the system may stop: the controller's process
ends, and on a data root and in a session the bounds on commands are used up.

### Fairness

The data root and the session have safety properties alone and no fairness.
`DirectHistory!HFairSpec` is that of `DirectEngine`, its history noted along.

- `MetadataStore!FairSpec`: each process goes on with the command it is in
  (`WF(Progress(p))`). Nothing is assumed of the lock: a waiter may lose every
  race and then times out. No command, failure or crash is forced.
- `DirectEngine!FairSpec`: each process goes on with its command, and SIGKILL
  takes effect. A browser need not obey SIGTERM or ever exit by itself.
- `PlaywrightEngine!FairSpec`: each process goes on with its command, each
  controller with its life, and pollers poll for ever, as the terminal UI does.
  No launch, close, kill, restart of a killed process, exit of a browser or
  passing of a deadline is forced.
- `ControllerIpc!FairSpec`: the listener, the main thread and every worker go
  on. It is justified by deadlines in the code where there are some: 0.5 s on accept and
  get, 30 s on a worker's read, 15 s on a start URL, 10 to 20 s on navigations, scripts
  and actions. Other calls into the browser carry none (`page.content()`, `title()`,
  `cookies()`, the accessibility commands, `context.close()`): that those return, be it
  with an error, is an assumption about Playwright, on which `CloseEndsController` and
  `EveryConnectionEnds` rest. Neither the browser's end, nor a signal, nor a client's
  request is forced.

## 4. What is proved

Checked by TLAPS for every value of the constants, under the modules' named
assumptions (which say that the sentinels are no data and no profile, that `Limit` is a
positive number and `Conns` finite, and that archives hold profiles of the ids there are).
A theorem that needs more says so in its `ASSUME`, and the text below says why it does.

**MetadataStore_proofs.** `TypeCorrect`, `MutualExclusion`, `StoredValid`,
`BackupTrails` and `Refinement` (the store implements `ProfileRegistry`), from
one inductive invariant `IInv`. `StoredDocumentValid` is not inductive: when
a document is written its validity must already be known, so `CommitReady` says
of a process about to write that its document is valid and is its update applied
to `primary` *as it stands*. That in turn needs `LockHeld` (who is in a critical
section has the lock, so nobody else can have changed `primary`), and `BackupReady`
says that the backup was made of the version about to be replaced.

**DirectEngine_proofs.** `TypeCorrect`, and `Identity`: *if browsers never exit
while they are being launched* (`"launching" \notin ExitPhases`), no process but
a launched browser is ever signalled. The premise is exactly what the run
`direct_identity` drops. The invariant `IdInv` says of every creation time that
is recorded anywhere (in the file, in a snapshot, in a launcher's hand) that it
claims a process that was a browser: if a process with that pid and that
creation time is in the table, it is a browser (`ClaimsHold`), since creation times only
grow (`BornBefore`). Most steps are *tame*: they make no new claim, and the table
only shrinks. What is left are the creation of a process, whose time is newer than every
claim, and `Identify`, which reads the creation time of a live browser.

`ClosedIsDead` (the action property `ClosedBrowserIsDead`) has no hypothesis: a close
that reports success leaves the browser it was asked to close dead. `CloseInv` says that
the process a close is about to report on is gone (`ClosedGone`), which is only
stable because every creation time that is held anywhere lies in the past (`TimesPast`): a
process that gets the same pid later is born later.

The same module proves `LossNeedsACause` (`LossHasACause`) and `OverrulersAreOutdated`
(`OnlyOutdatedOverrule`) of `DirectHistory`, without hypotheses: any processes may launch, poll,
close, exit and crash, and browsers exit when they like. The first says that the
races are the only danger: `CauseInv` says that as long as nothing that counted was overruled and nobody
died holding a browser, the file is `Undisputed`: a launch that has created `running.json` is
the one it names, so only one process is between creating and recording, and every browser is
recorded or in its launcher's hand. The second says who overrules: by `ViewInv`, what a process
read is still in the file (`Informed`) unless it is noted as outdated, so whoever finds
a reason to remove it with an up-to-date view removes a state that counts for nobody. The run
`direct_duplicate` shows an outdated one at work.

**PlaywrightEngine_proofs.** `TypeCorrect`, and `FailedIsOver`: *if no process
that closes the profile is killed in the middle of it* (`Closers \cap Crashing =
{}`), a failed launch is over (`FailedLaunchIsOver`). The premise is needed: a
close killed between marking a state and removing it leaves the state behind,
which is then stale and goes by `StaleStateGoes`. Types alone are not
inductive: a launch must own the launch it attempts (`OwnLaunch`), a close must
hold a state when it marks one (`CloseHolds`). The controller's half is
`FailedStopped`: a launcher that reports a failure has stopped its controller,
and only the launcher of a launch can start its controller. The file's half is
`OnlyInHand`: what a step puts into the file names the launch it named before,
a fresh one, or that of a state a close marks (`FileGoes`), and a close does
not let go of the state of a launch that is over but by removing it
(`HoldsOn`).

`ClosedIsDown` (the action property `ClosedBrowserIsDown`) has no hypothesis. Its invariant,
`Acknowledged`, says of a close whose request the controller acknowledged that the controller
is ending from then on, which no command takes back (`EndedByProc`), and that past the wait
its browser is down, whether the wait ended by the controller's removal of the state, by its
death, or by the deadline and a signal.

**ControllerIpc_proofs.** `TypeCorrect`; `Bounded` for every limit, by counting
how each step moves a connection between workers and queue; `OneLate`, from
`LateIsLast` (a command that began late is the last: the main thread leaves at
its next check); and `Refinement` (the controller implements `RequestService`),
from `InHand`: what is queued is a pending command, queued once, and at most one
command executes.

**SessionSystem_proofs.** `SessionTypes` and `RefsAreOfLastSnapshot`, for any
number of tabs, elements and calls and any mix of commands. The second is not
inductive: while a snapshot has listed its elements and not yet made its new
registry, the old one is still there. `SnapInv` says of every tab that its registry
is `Synced` with its last list or that such a snapshot is about to replace it, that a
snapshot in progress lists what the last one of its tab lists (so that filling
the registry keeps it synced), and that a snapshot whose document has been replaced
meanwhile faces an empty registry. That no second snapshot of the tab comes in
between is the last conjunct of `SessionTypeOK`: a controller executes one call.
`OffInv` (no session, no executing calls and no registries) is what a new session
starts from. Most actions are *aside*: they move no snapshot, and change a tab's
registry only by discarding its document (`AsideKeeps`).

**SessionGuard_proofs.** `GuardedIndices`, that is `GuardedIndex` for any number of
tabs, calls and clients. A closing that no command accounts for makes the lists before it void
(`ClosesUncounted`), which is where the statement stops. `GuardInv` adds to it what the generation stands for: under a
controller, a list that is not void and whose generation is the current one `Agrees`
with the tabs, that is, its tabs are still the first ones of the browser, and
none of them is a tab that is being opened (`NotOpening`). The second is needed because
opening takes two steps and bumps the generation in the second alone: if the navigation
fails the tab is closed without a bump, which is right only because it stands behind
every list's. That no list is answered in between is again the one executing call
of `SessionTypeOK`. Each step is shown to be `Good`: no list comes or goes and every call that
ends acted on what it was to act on (`CallsFine`), and the tabs of the lists that count
stay or the generation grows (`PagesStep`); answering a list is treated apart
(`TabsKeeps`). On a Direct session nothing is claimed, as the bridge keeps no generation.

**DataRootSystem_proofs.** All rest on `Control` (theorem `Controlled`, for any
processes, profiles, faults and crash points), which says which command each point belongs to,
what a process knows there, that commands kept apart are not under way together and who holds
the lock. `TypeCorrect` follows from it. The others need commands kept apart
(`Considerate`: repairs and removals run alone, and no delete runs during a restore; this is
what threat-model.md asks of users, see "Commands kept apart"), each with its own
invariant and for any number of processes, profiles, faults and crashes:

- `NoVisitedPublished` (`PublishedUnvisited`): `Visited` says that a profile that a browser has
  used since a backup began to read it, and that is still listed, is active; so the
  check at the end of the reading finds it. It needs also that no restore runs next to a
  backup (it may list a deleted profile again) and that no browser comes and goes unseen.
- `NothingIsLeft` (`NothingLeft`): `HiddenOwned` gives every hidden directory, and `StagedOwned` every
  directory at the destination of a migration, a process that is going to move or remove it, unless a
  fault or a death happened (`Faultless`); `PlaceHeld` says that the place to
  move it back to stays free for it, and `NoWayBack` that where no fault happened nobody
  is on the path of a move back that failed. Without `Considerate` it is false: a delete that waits too
  long for the lock of a restore finds the place of its directory taken when it gives up.
- `RepairIsHealing` (the action property `RepairHeals`): `Mending` says at each point of a
  repair what it has put in order so far, and that nothing but browsers has changed
  what it decides from. A repair decides from reads made before it took the lock, so it
  has to run alone.

**Only model-checked:** `LosesOnlySwept`, which needs an invariant on what each command
counts on at each of its points (see the plan), and the liveness properties (`LockComesFree`,
`CommandReturns`, `SignalledBrowserEnds`, `StaleStateGoes`, `CloseEndsController`,
`EveryConnectionEnds`): the latter need reasoning under fairness that is out of the
prover's reach.

## 5. What is not modelled, and why

- Single-field validators, launch arguments, error files, output formats, archive
  formats, encryption, logs: data that no other state depends on.
- `save_metadata` and `load_metadata_with_recovery` (`storage.py`): nothing in the
  program calls them.
- Windows' `taskkill` and process handles: the POSIX branch is modelled.
- Unreadable creation times of living processes (a `ps` that fails on macOS).
- The upgrade of legacy runtime states and the legacy close request: files that older
  releases left, read once.
- Smaller paths of `doctor --repair`: an unreadable encoding of the metadata counts as
  damaged; a stale state that is replaced by a new one between doctor's look and its
  unlink is the race of `direct_duplicate` once more.
- The MCP server's message loop handles one message at a time and keeps nothing
  between two of them; its tools are clients of `SessionSystem`.
- The terminal interface's widgets and screens are rendering. Its background workers call
  the same operations as the command line, and are clients of the models above; that a
  late result does not overwrite a newer one on screen is decided by counters in
  `tui/app.py` that nothing else reads.
- `launch_service.py` computes the plan of one launch from its arguments.
- Metrics, coherence and proxy checks, browser detection and the documentation site: reads
  of the operating system or the network, and no state of their own.

## 6. Plan

The store, both engines, the controller, the data root and the session are modelled.
What is left, in order of importance:

1. A proof of `LosesOnlySwept` for any number of processes and profiles, and what a repair
   may run next to.
2. A finer repair: which of the windows under "Commands kept apart" a lock would close.
3. Direct sessions: "Snapshot refs belong to the most recent snapshot"
   (`docs/reference/commands.md:204`) names no engine, yet two clients of a Direct session have
   connections of their own, and the steps of their snapshots of one tab interleave.
   `RefsOfLastSnapshot` is stated of a controller's session alone; a run that shows
   the disagreement is missing.
4. Pure algorithms against reference definitions: `resolve`, `_find_browser_pid`,
   `_upgrade_legacy_state`, the name assignment of restore.
