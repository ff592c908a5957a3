# dde-application-manager in TLA+

A formal model of dde-application-manager (AM), the session service of the
Deepin desktop that keeps the list of installed applications on D-Bus,
launches them as systemd user units and follows their instances. The modules
are translated from the C++ source; TLC checks them on small instances, and
TLAPS proves the safety properties that matter most for every value of the
constants.

Contents: [1 the system](#1-the-system) · [2 the modules](#2-the-modules) ·
[3 the runs](#3-the-runs) · [4 the proofs](#4-the-proofs) ·
[5 where code and documents disagree](#5-where-code-and-documents-disagree) ·
[6 what is not modelled](#6-what-is-not-modelled-and-the-plan)

Source paths are relative to the repository's root (`AM` stands for
`src/src/dbus/applicationmanager1service.cpp`, `AS` for
`src/src/dbus/applicationservice.cpp`, `S` for
`src/src/applicationmanagerstorage.cpp`, `MM` for
`src/src/dbus/mimemanager1service.cpp`, `MI` for
`src/src/applicationmimeinfo.cpp`). In the text AM also stands for the
program.

## 1 The system

One process, `dde-application-manager`, with a Qt event loop on the main thread
and Qt's global thread pool. It talks to clients over the session bus, to
systemd over the user bus, to `app-launch-helper` (a child process per started
resource) and to the file system. Inventory of its parts:

| part | state it keeps | operations | hard behaviour | correct when | modelled in |
|---|---|---|---|---|---|
| **Job manager** (`jobmanager1service.*`, `jobservice.*`) | `m_jobs`, a `QFuture` per job, objects on the bus | `addJob`, `removeOneJob`; `Cancel`, `Suspend`, `Resume`, `status` on D-Bus | pool threads, D-Bus calls and the posted continuation interleave; the computation starts before the job is registered | a job is exported exactly from JobNew to JobRemoved; JobRemoved is its end; a job is not left behind | `JobManager`, `JobContract` |
| **Instances and launches** (`AS`, `onUnitNew`/`onUnitRemoved` in `AM`, `instanceservice.*`) | `m_Instances`, `orphanedInstances`, `m_pendingLaunchTypes`, `m_splashInstanceIds`, `m_unitResults` | `Launch`, `addOneInstance`, `removeOneInstance`, `detachAllInstance`, the slots for systemd's signals, `scanInstances` | signals are queued while the lists change; worker threads; reloads in the middle of a launch; restart of AM with units still running | lists, bus and systemd agree; the type given to a launch reaches its instance; no splash or instance outlives its unit | `AppInstances` |
| **Application list and reload** (`AM`) | `m_applicationList`, each entry, `m_reloadTimer`, `m_isReloading`, `m_pendingReload`, the watcher | `scanApplications`, `ReloadApplications`, `doReloadApplications`, `updateApplication`, `addApplication`, `removeOneApplication`, `addUserApplication`, `deleteUserApplication` | debounce and nested requests; files that change during the scan; shadowing between XDG directories | after the last change, the list is what the directories say; records go with the application and not before | `AppList`; its effect on instances in `AppInstances` |
| **Autostart** (`AS` 302-377, 974-1131, `AM` 501-573, `dde-autostart`) | `m_autostartSource`, generated entries | `setAutoStart`, `updateAutostartStatus`, `syncGeneratedAutostartEntry` | two sources for one application, writes that truncate first, reload after own write | the property is what the next session will do | `AppList` |
| **Session overrides** (`sessionoverrideconfig.cpp`) | `m_overrides`, `m_loaded`, a DConfig object per application | load, initialise, change | an override that arrives after the scan it should filter | the list obeys the overrides known to AM | `AppList` (TryExec), `LaunchRequest` (Exec) |
| **Storage** (`S`) | `m_data`, `m_batchUpdate`, `m_pendingWrite`, `storage.json`; the values `AS` caches | create, update, read and delete values, batch, deferred commit | any write may fail; crash between change and write; damaged file | what clients read, memory and the file agree | `Storage` |
| **MIME** (`MM`, `MI`, `mimefileparser.cpp`) | `mimeapps.list` content, `m_internalWriteInProgress`, a 50 ms debounce | query, set and unset defaults, reload | own writes and external edits seen through one watcher | an external edit is seen in the end; a write is not lost | `MimeManager`; the text in `EntryFiles` |
| **Launch command** (`AS` 505-660 and 1457-1695, `launchoptions.cpp`, hooks, compatibility) | the captures of the job's lambda, mutable and shared by its threads | split, field codes, options, hooks, overrides | several resources in several threads; positions counted in one place and used in another | the unit runs the command and has the settings that were meant | `ExecLine`, `LaunchRequest` |
| **app-launch-helper** | none | parse, ask systemd, wait for the job | what was appended by position is told apart by position; the job's end races the request's reply | exit code tells the unit's fate | `LaunchRequest` (request), `AppInstances` (its end) |
| **Names** (`global.h`, `cgroupsidentifier.cpp`, `Identify`) | none | `escapeApplicationId`, `processUnitName`, `parseCGroupsPath`, `Identify` | ids that hold separators; process ids that are taken again during the call | parsing inverts building; the answer is about the caller's process | `UnitNames`, `Identify` |
| **Parsers and writers** (`iniParser.h`, `desktopfileparser.cpp`, `mimefileparser.cpp`, `desktopentry.cpp`, `desktopfilegenerator.cpp`) | the line they are at | parse, unescape, generate, `toString` | files of any order of lines | what is read is what the lines say, what is written is read again, reading ends | `EntryFiles`, `ExecLine` (unescaping) |
| **Prelaunch splash helper** | the connection to the compositor | show, close | – | no splash is left | `AppInstances` (which splashes there are) |
| **Event reporter** (`eventreporter.cpp`) | bounded cache of process names | report launches and exits | two threads | – | – |
| **Update notifier, property forwarding, dde-am, app-identifier** | none | relays, clients | – | – | `app-identifier`'s call in `Identify` |

How they interact:

```
 client --Launch--> ApplicationService --addJob--> JobManager --pool--> app-launch-helper
                        |     ^                        |JobNew/JobRemoved      |StartTransientUnit
                        |     |UnitNew/JobNew/UnitRemoved (queued)             v
                        |   SystemdSignalDispatcher <------------------------ systemd
   updateAfterLaunch    v
                     Storage --writeToFile--> storage.json
   watcher/timer/override --> doReloadApplications --> update/add/removeOneApplication, reloadMimeInfos
  autostart directories <-- setAutoStart, sync;  read by dde-autostart at the next login
```

## 2 The modules

| module | models | proofs |
|---|---|---|
| `JobContract` | what the job manager promises to whoever launches something | – (refined by `JobManager`) |
| `JobManager` | the job manager, its jobs and their continuations | `JobManager_proofs` |
| `AppInstances` (+ `MCAppInstances`) | launches, units, signals, instances, reload, restart | `AppInstances_proofs` |
| `AppList` (+ `MCAppList`) | the application list, autostart and overrides of TryExec over the directories | `AppList_proofs` |
| `Storage` (+ `MCStorage`) | the storage, its file and the properties `AS` caches | `Storage_proofs` |
| `MimeManager` (+ `MCMimeManager`) | the user's MIME defaults, their file and its watcher | `MimeManager_proofs` |
| `ExecLine` | the command line of a launch, as functions | `LaunchRequest_proofs` |
| `LaunchRequest` (+ `MCLaunchRequest`) | one call of `Launch`, its job's threads and what systemd is asked for | `LaunchRequest_proofs` |
| `UnitNames` | names of units and control groups, as functions | `Identify_proofs` |
| `Identify` (+ `MCIdentify`) | `Identify` among processes that end and move | `Identify_proofs` |
| `EntryFiles` (+ `MCEntryFiles`) | the parsers and writers of desktop files and MIME lists | `EntryFiles_proofs` |

The `MC` modules only hold what TLC needs: values of constants and symmetry
sets. Definitions marked `\* mutant`, or with a suffix after the name of the
definition they change (`Removed_Unreadable`), are deliberate bugs that no
specification uses; each shows which change of the code a property would catch.
Text is a sequence of atoms: the characters the code takes apart are atoms of
their own, a word that is only carried along is one atom. `Atoms` (in `LaunchRequest`)
and `Strings` (in `EntryFiles`) are the sets they come from; the modules assume
of them that they hold the characters and words the program itself writes.

### JobManager and JobContract

A job is a `QFuture`: `engine` (running, finished), its Canceled bit
(`canceled`), its suspension (`suspend`) and its `items`, one per resource of
the launch. `m_jobs`, `bus`, `announced` (JobNew) and `removals` (the arguments
of every JobRemoved) are the manager's side; `adding` is the job whose `addJob`
the main thread is in. Actions:

* main thread: `addJob` in its two halves (`jobmanager1service.h:54-108`):
  `StartComputation` starts the computation, and then either `Register` exports
  and announces the job and attaches the continuation, or `RegisterFails`
  cancels the future. In between the threads may claim, run and finish any
  number of items, or all of them. `Cancel`, `Suspend`, `Resume`, and the
  continuation `EmitRemove` or `ContinuationSkipped` come when no `addJob` is
  under way (`Serving`);
* pool threads: `ClaimItem`, `ReportSuspended`, `RunItem`, `ItemReturns`,
  `Finish`.

`QFuture` and `QtConcurrent` are external: a suspended future holds its
threads before they call the function, a canceled one hands out no further
items but a claimed item is run, and the function given to `then` is not called
when the future is canceled. `ItemReturns` yields what the launch lambda
returns, an instance path or the enumerator `QDBusError::Failed`.

`JobContract` has none of that: a job begins, and is then accepted and exported
or refused, with some of its items done already in either case; each
item has its value at most once, and an accepted job is removed once, with the
values of all items in their order. `JobManager` implements it (`KeepsContract`)
by the mapping: a job's `phase` from `engine`, `adding`, `announced` and `removals`; its
`values` from the items that returned; `held` from the jobs that are canceled
or suspended, or were refused. Threads, claims, suspension and the posted
continuation are stutters. Its liveness, that an accepted job is removed unless
held, is `UntouchedJobRemoved` at the level of the code.

### AppInstances

`unit` is systemd's view of each unit, `queue` its signals that AM's event
loop has not handled. A unit of a launch is named after the application and the
instance id; a service is an ordinary unit, for which AM draws a random id
whenever it adds an instance. `disk` and `entry` are the desktop file of each
application and what AM has read of it.

* `Launch` is the D-Bus method up to `addJob`; `HelperStartsUnit`,
  `HelperFails` and `HelperReturns` are the mapped function in the pool, with
  the helper's two ways to fail (refused, job failed) and the 30 second limit
  of `waitForFinished`;
* `HandleUnitNew`, `HandleJobNew`, `HandleUnitRemoved` are the slots for
  systemd's signals, with `handleUnitStarted`, `addOneInstance`,
  `removeOneInstance` and `handleUnitRemoved`. `UpdateAfterLaunch` comes before
  the instance is added and records the launch, or the storage refuses it
  (`AS` 1746-1762), up to `MaxRefused` times: the instance is added all the
  same. `counted` is a history variable: how often this run of AM recorded each
  launch, and whether a record was refused;
* `DoReloadApplications` is a whole reload: per application the entry is kept
  (the file does not parse), updated (instances are detached and become
  orphans) or removed;
* `Stop`, `Subscribe` and `Scan` are the crash or end of AM and the two halves
  of its start. Signals sent between `Subscribe` and `Scan` stay queued, as
  the main thread does not return to the event loop in between;
* `UnitMoves` and `DiskChanges` are the environment: units exit, are stopped
  and unloaded, services start, files change.

The orphans AM keeps are out of reach of `onUnitRemoved`: `orphanedInstances`
is declared `static inline` in a header (`instanceservice.h:48`), so the list
the manager searches is not the list `detachAllInstance` fills. The model does
what the program does.

### AppList

`files` holds a desktop file per id in each of four directories (application
and autostart, of the user and of the system), `conf` the override of TryExec
in the session's configuration. AM's side is `list` (each application's entry,
source, autostart source and the copy of its autostart entry), `records`
(who has records in the storage), `known`, `loaded`, `ready`, `overrideSig`
(the overrides), and the scan: `pc`, `left` (`appIds` of
`doReloadApplications`), `seen`, `dirSignal`, `timer`.

* `ScanDir(d)` reads one application directory: listed applications are updated,
  with the synchronisation of their generated autostart entry, others created;
  `FinishScan` removes what no directory had, then reads the autostart
  directories (`updateAutostartStatus`). Others edit between two directories.
  A scan begins by `Start`, `ReloadTimeout`, `ReloadApplications` or
  `OverrideChanged`.
* `SetAutoStart`, `SetAutoStartFails`, `AddUserApplication`,
  `DeleteUserApplication` and `Record` are calls on the bus; `OverrideReady` is
  the end of an asynchronous initialisation.
* `EditApp`, `EditAuto` and `EditOverride` are others. A file that is rewritten
  in place is not noticed (the watcher follows directories), nor is anything in
  the autostart directories.
* `Stop` may come at any point of a scan; a write of an autostart file may be
  torn (it truncates first).

`dirty`, `missed`, `absent` and `wish` are history variables: whether something
the list depends on changed since the scan began, whether nobody told AM so,
which directory was without a file at some time, and the last accepted value of
AutoStart that nobody has touched since. Of an entry only what is compared or
checked is kept: `body`, `hidden`, whether its TryExec is found (`runs`) and
where it was generated from (`gen`).

### Storage

`storage` holds the class's `m_data`, `m_batchUpdate` and `m_pendingWrite`;
`file` is `storage.json` (its data, empty, or garbage). The operations are
functions of the storage and the file (`WriteToFile`, `CreateApplicationValue`,
`UpdateApplicationValue`, `DeleteApplication`, `SetFirstLaunch`,
`EndBatchUpdate`); every write takes a Boolean that says whether it succeeds.
The actions are their callers: `Start` (load and open the batch),
`StartWithoutStorage` (the file or its directory cannot be used),
`ScanApplication` (one of the desktop files that are left `toScan`, with the
constructor of `ApplicationService`, three writes of which any may fail),
`FinishStart` (the end of `initService`: the flag and the batch),
`AddApplication` (of a reload, with the same constructor),
`RemoveOneApplication`, `UpdateAfterLaunch`, `SetEnviron`, `Stop`, and the
environment `DesktopChanges` and `FileDamaged`. AM may crash between any two
applications of the scan. `object` is what the object of
each application caches; `lastWrite`, `allWrites` and `finished` (a start has come
to its end since the file was last lost) are history variables.

Times are abstracted to none (0), some (1) and failed (-1); the count of
launches is a number, because the properties are about it.

### MimeManager

`content` is AM's copy of the user's `mimeapps.list`, `file` the file itself.
AM's writes and everybody's edits are noticed by one `QFileSystemWatcher`,
modelled at the level of inotify: `watch` says which inode is watched (the file's
current one, an older one that a reader still holds, none) and `event` what
is to be reported. `m_internalWriteInProgress` and `m_mimeAppsDebounceTimer` are
the code's.

* `SetDefaultApplication`, `UnsetDefaultApplication` and `SetMimeTypes` are the
  writers; each changes `content` first and then writes all of it, and the
  write may fail. `SetMimeTypes` does not set the flag.
* `OnMimeAppsFileChanged`, `TimeElapses` and `HandleMimeAppsFileDebounced` are the
  notification, the 50 ms and the reload; `DoReloadApplications` reloads, too.
* `ExternalReplace`, `ExternalWrite`, `ExternalRemove` and `FreeInode` are other
  programs; `Start` and `Stop` are AM's, with the creation of a missing file.

A `default` is an application, none, or a list without applications
(`NoApps`, "type=;"), which is read but cannot be written such that it can be
read again. `lastWrite`, `blind` and `missed` are history variables.

### ExecLine and LaunchRequest

`ExecLine` has the functions a command goes through, one after the other:
`UnescapeValue`, `SplitExec` (`splitExecArguments`), `ProcessExec` (field codes,
the resource's place `argNum` and `fieldLocation`), `LoadHooks`, `GetExec` and
`GetEnv` (compatibility), `UnescapeEnvs`, the options with their order (`Before`,
`Sorted`, `GenerateCommand`), and on the helper's side `CmdParse` and `Encode`.

`LaunchRequest` is one call of `Launch` at a time, from a request (`MCRequests`:
Exec lines, quoting, resources, options, overrides) to the `units` systemd is
asked for. `shared` holds what the job's lambda captured: it is `mutable` and Qt
runs one copy in all threads, so `TakeArgument` empties the command for the
others. `TakeOptions` and `AppendExtraArgs` append lists by `operator<<(QList &&)`,
which moves from a list of its own but copies one that is shared; `addJob` gives
Qt its own `func` as an lvalue, so until it returns (`AddJobReturns`,
`job.adding`) the items' lists are shared with it and keep their words, and after
that the first item leaves moved lists behind (`LeftBy`). Each
statement on a capture is a step; `Race` is two threads at the same statement
with the outcomes of each getting what one should, `DataRace` the one in which
the process dies; `Restart` brings it back. `overlap` is a history variable:
whether of the job's items none ran, one, more, or some raced; so is `late`, of
an item and its unit: the options were taken after `addJob` had returned.

What a unit should run (`WantedCommand`, `WantedSettings`) is defined apart from
the functions of the code, by positions in the line as the desktop entry
specification has it, and by the words their author meant before they were
quoted.

### UnitNames and Identify

`UnitNames` has `escapeApplicationId` and its inverse, `processUnitName` and
`parseCGroupsPath`. In `Identify` processes start in units of six kinds (by AM,
by its `executeCommand`, by another launcher, by systemd's autostart generator,
by D-Bus activation, none of an application), end, are moved by systemd, and
their ids are taken again; AM learns of units by signals between calls
(`OnUnitNew`, `OnUnitRemoved`). The call is the code's four reads: `GetPid` (the
pidfd's fdinfo), `ReadCgroup` (by process id), `CheckAlive` (the signal 0 to the
pidfd) and `Lookup`. `call.seen` and `call.steady` are history: the units the
process was in during the call, and whether it neither ended nor moved.

`UnitsAssumption` says what a unit of the model is. `NamesAssumption` says when
names tell units apart, as they do on a real system: units of one application
have different instances, none of them that of an `executeCommand`; an id holds no
"/" and no suffix of a unit right before a ":"; what systemd starts for a D-Bus
name has neither a backslash nor ":" in its name, which does not begin as that of an
application's unit does; and the session is not an application.

### EntryFiles

A file is a sequence of lines (header, broken header, entry, junk, blank); the
state is the parser's: the line it is at, the groups read so far, the group it
is in. `Open`, `AddGroup`, `SkipGroup`, `AddEntry` and `Finish` are the loops of
`Parser`, `DesktopFileParser` and `MimeFileParser`, of which `Reader` says which
one runs. `WriteAutostart`, `WriteList` and `Generate` are the three writers,
each followed by a reading of what they wrote; `kept` is what they meant to
write. What a file means (`TextOf`, `Meaning` of each group) is defined by its
lines and not by the way they are taken.

## 3 The runs

Runs that pass:

| run | module | checks | shows |
|---|---|---|---|
| `JobManager` | `JobManager` | `TypeOK`, `ExportedUntilRemoved`, `RemovedJobIsDone`, `KeepsContract`, `UntouchedJobRemoved` | two jobs of up to two items, every interleaving of calls, threads and continuations from the start of the computation: export and removal of jobs, the contract, and that a job nobody touches is removed in the end |
| `AppLaunches` | `MCAppInstances` | `TypeOK`, `InstanceBacked`, `LaunchTypeKept`, `LaunchCountedOnce` | two concurrent launches of one application with reloads, uninstallation, refused records and restarts |
| `AppServices` | `MCAppInstances` | `BusIsRegistry`, `SplashBacked` | a launch with two helpers for the same unit, next to a service with random ids and the JobNew retry |
| `AppLaunchesLive` | `MCAppInstances` | `GoneUnitForgotten`, `StartedUnitListed` | the lists follow systemd in the end |
| `AppList` | `MCAppList` | `TypeOK`, `ListFollowsFiles`, `AutoStartKept`, `RecordsKept`, `ListCatchesUp` | scans, AutoStart, overrides, edits by others at any moment, a torn write or a stop |
| `Storage` | `MCStorage` | `TypeOK`, `NothingUnsaved`, `PropertiesDurable`, `CountersTogether`, `FirstLaunchKept`, `AddedLaterHasTime` | two applications over starts, crashes within them, failed writes, damaged files, reloads, launches and Environ changes |
| `MimeManager` | `MCMimeManager` | `TypeOK`, `FollowsFile`, `WatchKept`, `EditSeen` | own writes and edits by others through one watcher |
| `LaunchRequest` | `MCLaunchRequest` | `TypeOK`, `UnitIntact`, `OneLateUnit`, `JobEnds` | requests of every kind through two pool threads to systemd, while addJob returns |
| `Identify` | `MCIdentify` | `TypeOK`, `NameIsTargets`, `AnswerIsTrue`, `LaunchedIsIdentified` | processes that end, move and whose ids are reused during the call, for units of all kinds under both layouts of control groups |
| `EntryFiles` | `MCEntryFiles` | `TypeOK`, `ReadsMeaning`, `WrittenReads`, `ReadingEnds` | short files of every order of lines, and what AM writes |

Two more runs, `DocSkippedGroup` and `DocRemoteResource`, find a violation: see
section 5.

The properties:

* `ExportedUntilRemoved`: a job's object is on the bus exactly from its JobNew
  to its JobRemoved, which is emitted at most once.
* `RemovedJobIsDone`: no thread runs, or will run, an item of a removed job,
  and the signal carried every item's value.
* `KeepsContract`: the job manager implements `JobContract`.
* `UntouchedJobRemoved`: a job that nobody cancels or suspends is removed in
  the end. (One that is suspended may wait for its client; one that is canceled
  is not removed, see section 5.)
* `BusIsRegistry`: the objects on the bus are the listed instances and the
  orphans, one per path.
* `InstanceBacked`: a listed instance of a launch has a loaded unit or a
  UnitRemoved on the way; `GoneUnitForgotten` is its liveness side.
* `LaunchTypeKept`: the type given to `Launch` reaches the instance, through
  the race of the worker with systemd's signals.
* `SplashBacked`: a splash does not outlive the unit it was shown for.
* `LaunchCountedOnce`: whichever of UnitNew, JobNew of the start and JobNew of a
  stop AM takes for the start, a launch of one helper adds at most one to the
  stored counter, and its listed instance was counted, unless the storage
  refused the record. (Not if a reload detached the instance: a JobNew of the
  orphan counts again.)
* `StartedUnitListed`: the unit of a launch AM still knows gets listed.
* `ListFollowsFiles`: after a scan that nothing disturbed, the list is what the
  directories and the overrides say. One exception is part of the statement: an
  application whose file is not to be shown any more stays listed.
* `AutoStartKept`: what the user last asked of AutoStart, and nobody changed
  since, is what the property says and what `dde-autostart` does at the next
  login, through reloads, updates of the application, restarts and torn writes
  of other entries.
* `RecordsKept`: a scan deletes the records of an application only if each
  directory was without its file at some time during the scan.
* `ListCatchesUp`: when the edits stop, the list follows the files for good,
  unless the last change was one nobody tells AM of (`missed`).
* `NothingUnsaved`: deferred commits and the batch of the start are always
  followed by a write; a write after a failed one makes up for it.
* `PropertiesDurable`: what clients read is what a restart would bring back,
  if no write has failed.
* `CountersTogether`: whichever writes failed, the stored count of launches is
  the one clients read, or one more.
* `FirstLaunchKept`: until one start has come to its end, wherever earlier ones
  crashed, AM takes every application for one that was there before it. Any
  file with contents ends that, so it rests on the batch holding all writes of
  the start back.
* `AddedLaterHasTime`: an application added after the first start has a time
  of installation.
* `FollowsFile`: AM's copy of `mimeapps.list` is what the file says, or a reload
  is due. The exceptions are named and are all there are: AM's last write
  failed, the edit came while AM waited for its own write's notification or had
  no watch (`blind`), or the content cannot be written.
* `WatchKept`: the file stays watched through every replacement; only a time
  without a file ends the watch.
* `EditSeen`: an edit AM can notice is read in the end, or overwritten.
* `UnitIntact`: what systemd executes, once it has undone the helper's escapes,
  is AM's hooks, the change of user, the terminal, the expanded Exec and the
  extra arguments, each word once and whole however it was quoted
  (`CommandIntact`), and the unit has exactly the settings of the request: no
  word of the command became a setting or the other way round
  (`SettingsIntact`). Both are about the first item of a job, as long as no other
  began: what a later item has depends on what is left in the captures (section 5).
  Excluded are, of `CommandIntact`, local field codes with a resource that is not local
  (`DocRemoteResource`), the word `\;` (section 5) and lines whose meaning is
  open (`OneReading`): `%i` within a longer word, and an override that puts the
  entry's Exec into a word or behind a quote that does not end.
* `OneLateUnit`: all items of a launch carry the same unit name. Of those that
  take the options when `addJob` has returned, at most one asks systemd for the
  unit, unless there was a data race; the helper refuses the others.
* `JobEnds`: whatever the resources and the threads do, the job ends.
* `NameIsTargets`: the group that AM looks up is one the caller's own process
  was in during the call, though it was read by a process id that may have been
  taken again.
* `AnswerIsTrue`: an answer names the application of that unit, and its very
  instance where names of such units have one.
* `LaunchedIsIdentified`: a process that stays in a unit AM launched and lists is
  identified, whatever its application's id consists of (but ":").
* `ReadsMeaning`: what a parser reads is what the lines mean: every line belongs
  to the last header, the first of repeated keys counts (in a list, the last),
  locales stay apart,
  and a file is refused only for the reasons the parsers name.
* `WrittenReads`: what AM writes (an autostart entry, the MIME list, a generated
  desktop file) it reads again, with the same content. Excluded, and named:
  an action listed twice, a type without applications, and of a generated file
  keys and locales that are no such names, keys without a text, and several
  actions that come as one string.
* `ReadingEnds`: reading a file ends.

Bounds, and why they are enough:

* `JobManager`: two jobs of up to two items. Jobs share nothing but the two
  sets and the main thread, so two show what one can do to another (59,492
  states); two items are the least with
  a claimed and an unclaimed item at once and a result that differs from the
  first one's. `MaxItems` is a constant of the model only.
* `AppLaunches`: one application, two launches, two versions of its file, a
  queue of three signals and one refused record (2.3 million states). A launch sends at most two
  signals at once, so three let the signals of two launches mix. Applications
  interact only through the bus's paths, which carry their names.
* `AppServices`: one launch of up to two helpers, one service and four ids
  (1.4 million states): the service can be listed, orphaned and announced
  again, and the bound `UuidsSuffice` stops the environment, never AM, when no
  fresh id is left.
* `AppList`: one id, two contents of application files of which one has a
  TryExec that is not found, a visible and a hidden autostart file, two edits
  by others and one fault (`MaxEdits`, `MaxFaults`). Ids share only the timer
  and the phases of the scan, which edits of one id already exercise; two edits
  are the least for a file that moves between directories during a scan, and
  the system starts with any files of the system's directories.
* `Storage`: two applications (a write of one saves what was left of the
  other), two values of Environ and one launch counted. The second launch
  repeats the first with other numbers: the proofs cover any bound (2 million
  states).
* `MimeManager`: one type and one application, which give twelve contents; that a
  content differs from another, and that one cannot be written, is all the
  properties ask of them. With two applications (560,000 states) they hold too.
* `LaunchRequest`: eleven Exec lines with every field code and its neighbours, the
  empty line and one in which a resource's place lies beyond an argument's end, six
  lists of resources (none, local, plain, remote, invalid and mixtures),
  each kind of quoting, six sets of options, and every source of the command
  (entry, action, compatibility, override); and lines at the edge of what has one
  reading (`Odd`): `%i` within a word, the word `\;`, apostrophes within single
  quotes, tabs and line ends as blanks, overrides within a quote (25,502 states). Two threads are the most that can
  meet at a capture; three items let a thread begin another while one runs.
* `Identify`: two process ids and two processes (the least with an id that is
  taken again), ten units whose names can be confused: ids with "-", a leading
  dot, "@", a literal escape, "/" and ":", other users' units and nested groups.
* `EntryFiles`: seventeen kinds of line of a desktop file in all files of up to
  two lines, and of up to three after a valid beginning; ten kinds of line of a
  list in all files of up to three lines and up to four after a header. The
  parsers keep one line and one group, so what a line does depends on the group,
  on an earlier line of the same key and on the end of the file.

Fairness:

* `JobManager!FairSpec`: weak fairness of the pool's steps and of the event
  loop's continuation for every job. The pool's threads and the event loop run
  as long as the process does, and `app-launch-helper` exits, as the lambda
  waits for it for 30 seconds at most (`AS` 643). No fairness of a D-Bus call is
  assumed: a suspended job may stay suspended.
* `AppInstances!FairSpec`: weak fairness of `HandleSignal`, the event loop.
  Nothing is assumed of systemd, of helpers or of files.
* `AppList!Spec`: weak fairness of a scan's steps (it runs on the main thread to
  its end), of the handling of `directoryChanged` and of changed overrides, and
  of the timer. Nothing is assumed of clients, of others, nor that a stopped AM
  is started again (`ListCatchesUp` speaks of a running one).
* `MimeManager!FairSpec`: weak fairness of the event loop (notification, timer),
  of time, and of the last reader of a replaced file closing it. A debounce that
  is restarted for ever starves, which is why `EditSeen` assumes that the
  notifications stop.
* `LaunchRequest!Spec`: weak fairness of each pool thread and of the end of the
  job.
* `EntryFiles!Spec`: weak fairness of the reader, which is one loop.
* `Storage` and `Identify` have no fairness: what a call does, it does at once.

Deadlock is checked except where the system may stop: `JobManager` (all jobs
of the finite set are over), `AppList` (no edits are left and nothing is due),
`Identify` (no process is left to be born), `EntryFiles` and `DocSkippedGroup`
(the file is read).

## 4 The proofs

`tlapm` checks all of them, for any values of the constants that satisfy the
modules' ASSUMEs: any numbers of jobs, items, applications, launches, services,
ids, signals, edits, processes, threads, requests, files and counted launches.
The assumptions say that names of different kinds differ (a launch is not a
service, no version is `Absent`, ...), that bounds are numbers, that sets of ids
and of threads are finite, that requests and files are well typed and texts may
hold the words the program writes, and, for `Identify`, what makes names of units
tell them apart (section 2).

| theorem | states |
|---|---|
| `JobManager_proofs!TypeCorrect` | `Spec => []TypeOK` |
| `JobManager_proofs!ExportCorrect` | `Spec => []ExportedUntilRemoved` |
| `JobManager_proofs!RemovalIsFinal` | `Spec => []RemovedJobIsDone` |
| `JobManager_proofs!ContractKept` | `Spec => KeepsContract` (refinement) |
| `AppInstances_proofs!TypeCorrect` | `Spec => []TypeOK` |
| `AppInstances_proofs!RegistryCorrect` | `Spec => []BusIsRegistry` |
| `AppInstances_proofs!InstancesBacked` | `Spec => []InstanceBacked` |
| `AppInstances_proofs!LaunchesCountedOnce` | `Spec => []LaunchCountedOnce` |
| `AppInstances_proofs!DetachedByChange` | `Spec => DetachNeedsChange` |
| `AppInstances_proofs!SplashesBacked` | `Spec => []SplashBacked` |
| `AppInstances_proofs!LaunchTypesKept` | `Spec => []LaunchTypeKept` |
| `AppList_proofs!TypeCorrect` | `Spec => []TypeOK` |
| `AppList_proofs!RecordsSafe` | `Spec => RecordsKept` |
| `AppList_proofs!ListFollows` | `Spec => []ListFollowsFiles` |
| `AppList_proofs!AutoStartAsked` | `Spec => []AutoStartKept` |
| `Storage_proofs!TypeCorrect` | `Spec => []TypeOK` |
| `Storage_proofs!EverythingSaved` | `Spec => []NothingUnsaved` |
| `Storage_proofs!CountersStayTogether` | `Spec => []CountersTogether` |
| `Storage_proofs!InterruptedFirstLaunch` | `Spec => []FirstLaunchKept` |
| `Storage_proofs!DurableProperties` | `Spec => []PropertiesDurable` |
| `Storage_proofs!LaterHasTime` | `Spec => AddedLaterHasTime` |
| `MimeManager_proofs!TypeCorrect` | `Spec => []TypeOK` |
| `MimeManager_proofs!FileFollowed` | `Spec => []FollowsFile` |
| `MimeManager_proofs!WatchIsKept` | `Spec => []WatchKept` |
| `MimeManager_proofs!FlagIsSettled` | `Spec => []FlagSettles` |
| `LaunchRequest_proofs!TypeCorrect` | `Spec => []TypeOK` |
| `LaunchRequest_proofs!OneLateUnitPerLaunch` | `Spec => []OneLateUnit` |
| `LaunchRequest_proofs!UnitsIntact` | `Spec => []UnitIntact` |
| `Identify_proofs!TypeCorrect` | `Spec => []TypeOK` |
| `Identify_proofs!NameOfTarget` | `Spec => []NameIsTargets` |
| `Identify_proofs!UnescapeUndoes` | `unescapeApplicationId[escapeApplicationId(id)] = id` for every id without "/" |
| `Identify_proofs!AnswersTrue` | `Spec => []AnswerIsTrue` |
| `Identify_proofs!LaunchedFound` | `Spec => LaunchedIsIdentified` |
| `EntryFiles_proofs!TypeCorrect` | `Spec => []TypeOK` |
| `EntryFiles_proofs!ReadsItsMeaning` | `Spec => []ReadsMeaning` |
| `EntryFiles_proofs!WrittenIsRead` | `Spec => []WrittenReads` |

Three of them state what no run lists. `UnescapeUndoes` is a fact about two
functions; for the others another property covers what they are for:
`DetachNeedsChange` (only a change of its own application's file that AM could
parse, or the removal of the file, detaches an instance) and
`FlagSettles` (the flag of an own write waits for nothing once the file is
watched and nothing is to be reported).

The arguments:

* **Jobs.** `ExportedUntilRemoved` alone is not inductive: nothing in it says
  that the continuation runs once. `IInv` adds that only a finished and
  announced job has its continuation posted (`PostedIsFinished`), that a
  finished job has no item at work (`FinishedIsSettled`), that a job that
  has not started is not announced (`OnlyStartedAnnounced`), and that the job in
  the middle of `addJob` has started and is not announced (`AddingIsNew`).
* **The contract.** Every action maps to an action of `JobContract` or to a
  stutter, from `IInv` and one more fact, that a job that has not begun has no
  items (`UnbegunIsEmpty`): without it a value could appear in a job the
  contract does not know. `StartComputation` maps to `Begin`, `Register` to
  `Accept`, `RegisterFails` to `Refuse`. The continuation is the only step that maps to
  `Remove`, and `FinishedIsSettled` gives its guard.
* **Instances.** `IInv` adds to the three properties that nothing is listed or
  queued while AM is down (`NothingWhileDown`), that the id of a launched
  instance is its unit's (`LaunchIdIsUnit`), and that a queued UnitNew or
  JobNew of a launch comes with a loaded unit or a later UnitRemoved
  (`SignalsBacked`): without it the handler could list a unit that is gone for
  good. `DetachNeedsChange` follows from `BusIsRegistry` step by step.
* **Launches.** `SplashBacked`, `LaunchTypeKept` and `LaunchCountedOnce` speak of a launch on its way
  through its worker, the queue, the lists and a reload, so `LInv`, on top of
  `IInv`, follows it there: while there is a splash, the unit is listed or its
  UnitNew comes before any UnitRemoved (`SplashWaits`); the type waits in
  `m_pendingLaunchTypes`, or the instance has been added, or the unit has come
  and gone (`TypeWaits`); the UnitRemoved of a unit started once is its last
  signal (`RemovalIsLast`), as otherwise a UnitNew that comes late would find
  no type; nothing is counted before the UnitNew of the unit, and once the
  instance is gone nothing of the unit is to be heard (`CountWaits`), so no
  JobNew finds a launch that was counted without an instance. Signals are handled from the queue's head, so each lemma shows how
  positions in the queue shift.
* **Application list.** `RecordsKept` needs that whoever is still in `left` was
  without a file in each directory already read (`ScanInv`). For
  `ListFollowsFiles` and `AutoStartKept`, `FInv` follows each application through
  a scan: what the scan has seen of it is listed as its files are, unless
  something changed since (`SeenIsRead`, `FollowsWhenIdle`); an AutoStart that was
  accepted is what the user's autostart file says, the file it was generated from is
  the one that counts, and the list says so once the scan has passed (`OnKept`,
  `OffKept`). `OverridesRead`, `AutoPaths` and `ListedSeen` tie overrides, autostart
  sources and the scan's bookkeeping to it. Each lemma about an action is about
  one application; the others keep what they had.
* **Storage.** The stored counts are numbers or absent (`Counts`), the objects
  cache numbers (`ObjectCounts`), and when AM is up no batch is open and the
  file is what `m_data` is unless the last write failed (`SavedWhenUp`).
  `CountersTogether` is part of the induction: it says that a listed
  application has a count, so the deferred first update of
  `updateAfterLaunch` is always followed by a second one that writes, which
  is what `NothingUnsaved` needs. For `PropertiesDurable`, `DInv` adds that the
  objects show what `m_data` holds as long as all writes went well
  (`ShowsStored`); it is about memory and so holds through a batch, when the
  file lags behind. `Settles` says of every operation that a failed write shows
  in the history. `LaunchedBefore`, that the first launch is over once AM is up,
  gives `AddedLaterHasTime`; `ScannedOnce` keeps what is left to scan apart from what
  is listed. For `FirstLaunchKept`, `FInv` adds that the batch is open all through a
  start (`Batched`) and that until a start has ended the file has no contents
  (`Unfinished`).
* **MIME.** The three invariants are inductive together with one fact, that a
  file that is missing now has been missed (`AbsentMissed`): without it the
  handler of a notification could drop the path of a file that was there all
  along. All methods that write are covered by one lemma about what a write
  leaves behind (`Wrote`).
* **One late unit.** Of the items that take the options once `addJob` has returned
  at most one can still start a unit: the first. `OneAble` says so of a launch
  without a data race, and that no such unit was started before or while there is
  such an item. It leaves the others a list of
  the same length with nothing in its words, and arguments made of that are refused by
  `CmdParse`, as the fourth of them is no setting (`DoomedRefused`). `TypeCorrect` of
  this module gives the type of every function in `ExecLine` for every request.
* **The unit is the request's.** `UnitsIntact` goes the way of the command. Each
  function of `ExecLine` is first shown to do what the specification, which speaks
  of positions in the line, says of it:
  * *Quoting.* A reader that takes a text atom by atom takes a concatenation part
    by part (`ReadsConcat`); unescaping and splitting are such readers. Each way of
    quoting a word is read as that word (`QuotedRead`), so a line of written words
    splits into these words (`LineIs`), also through an override that inserts the
    entry's Exec (`SplitResolved`).
  * *Field codes.* `processExec` handles a character at a time. After k of them its
    task has the text meant for the places before k, and knows the first resource
    code if it was among them (`ArgumentBegins`, `ArgumentGoesOn`, `ArgumentEnds`);
    after n arguments its command is that of the first n (`LineGoesOn`). With what the
    lambda then does for an item, the argument at `argNum` becomes the words of its
    resources, though the code counts in the command and the specification in the
    line (`LineWords`).
  * *Hooks, options, helper.* The hooks are those of the least directory that has the
    name (`HooksAre`). Inserting the options one by one sorts them (`SortedIs`), which
    puts `--` behind all settings (`CommandsAre`); so `cmdParse` cuts there whatever the
    words are, and each setting is split at its own first "=" (`ParsedIs`,
    `WantedAre`). What systemd makes of an encoded word is the word, unless it is `\;`
    (`DecodedBack`).
  * *The job.* `UnitInv` follows the first item as long as no other has begun
    (`AloneIs`). Until it takes the options, the captures are what `Launch` left
    (`Captured`); from then on its arguments are the settings, `--`, the hooks, and
    as much of the command as it has been through, and the captures hold the rest of
    the command (`ItemIntact`), whether or not `addJob` has returned meanwhile.
* **Reading.** `RInv` says at each place of the parser that what it has read is what
  the lines up to there mean (`ContentTo`) and that none of them is a reason to
  refuse the file (`AcceptedTo`); at the end these are all lines, which is
  `ReadsMeaning`. The parser looks one line ahead and drops blank ones, so the lines
  up to there are told by the line it is at (`LineAt`).
* **Writing.** `AsWritten` says that from the moment AM writes a file until it has
  read it again, the lines are those of what it wrote. `toString` lays a content
  out group by group (`Laid`): each group once, begun by its header, with a line
  for each key and locale, in any order (`DesktopLaid`, `ListReads`; an action
  that is named twice breaks this). What is laid out means what was written
  (`LaidDesktop`, `LaidList`), and by `ReadsMeaning` that is what is read. What AM
  adds marks or an application to was read from a file itself, so its keys,
  locales and texts can be read again (`ReadIsReadable`, `ReadIsFull`).
* **Identify, the process.** The name was read by a process id. `ReadOfTarget` says that as
  long as the caller's process lives, the id is still its own and what was read
  is of a unit it was in; the signal to the pidfd, which comes after the
  reading, then makes it so for good. `SerialsUnique` and `TargetKnown` say that
  processes are told apart.
* **Identify, the names.** An escaped id has none of the characters that separate
  the parts of a unit's name, and unescaping gives it back (`UnescapeUndoes`); so
  what `processUnitName` says is known for each kind of unit, and a name that
  `parseCGroupsPath` cut at a ":" is no unit's name. `AInv` adds that a listed
  instance says what its unit's name says (`ListedAs`), that a call that goes on
  has a name with an application in it (`NameFound`), and that a process nothing
  happens to lives in the one unit its call has seen (`SteadySeen`), which gives
  `LaunchedIsIdentified`.

Only model-checked: the liveness properties (temporal proofs under fairness and
`ENABLED` are beyond the installed prover), and the two violations of section 5,
which are counterexamples. Every invariant of a passing run is a theorem, for all
values of the constants. The prover has no induction over data. What the proofs
need to know of a recursive function, they take from a least counterexample among
the numbers it recurses on (`LeastNumber`, `CountUp`): that covers the types of all
functions, the inverse of the escapes, what flattened sequences consist of, and what
readers do with texts of any length.
No module declares a RECURSIVE operator.

## 5 Where code and documents disagree

Two have a run that finds a behaviour of the model that contradicts a sentence
of the repository:

| run | property | what happens |
|---|---|---|
| `DocRemoteResource` | `RemoteSkipped` | a resource that `%f` or `%F` cannot take is said to be skipped (`AS` 594); the code lowers `argNum`, a position in the command, as if it were one among the resources (`AS` 600), so the field code stays and two characters of another argument are cut: `prog %f` runs `og %f` |
| `DocSkippedGroup` | `SkippedGroupEnds` | a group of associations in a desktop-specific `mimeapps.list` is to be skipped (`mimefileparser.cpp` 63-64); when no group follows it the loop never ends, as `skip()` leaves the line as it is at the end of the file |

Others were met while modelling; the models do what the code does. Where the
properties of section 3 exclude a case, it is one of these.

*Jobs and instances.* `Cancel` is documented to remove the job and emit
JobRemoved; the continuation that would do it is skipped by Qt for a canceled
future, so the job stays exported for ever (`jobmanager1service.h` 104). A
failed launch is documented to give the result `false`; it gives status
"finished" and an integer (`AS` 655). A service that starts while AM starts is
added twice, by the scan and by the queued UnitNew (`AM` 496). After a restart
of AM, launched units are not found by the scan's name patterns (`AM` 485). An
autostart launch without a new session is answered with "has been ignored" and
carried out (`AS` 398). An instance counts as orphaned once its application's
desktop file is merely updated (`AM` 756; `Instance.xml:49-50` speaks of
removal); the `Application` property of an instance keeps its path after that
(`instanceservice.h:22`, `Instance.xml:11-12`). The launch type is "unknown"
when a later helper of the same launch failed (`AS` 654,
`Application.xml:164-167`). The unit of `executeCommand` is taken for an
instance of the application that its name ends with (`AM` 996).

*Storage.* A first Environ whose write fails is answered with "set environ
failed." and set (`AS` 964-966); a refused update of it stays in `m_data`, and
the next write of any application saves it (`AS` 958). Records of an
application that is uninstalled while AM is down are kept (`AM` 672).

*Application list.* A listed application whose file becomes hidden, or whose
TryExec fails, stays listed. Applications that only an autostart file lists are
removed with their records and added again by each reload. Overrides that are
initialised after the scan that asked for them trigger no other. The autostart
directories, subdirectories, and files rewritten in place are not watched.
`m_isReloading` and `m_pendingReload` guard against a nesting that cannot happen,
as a scan does not return to the event loop. `addUserApplication` removes a
file that was there before when the application it added cannot be listed. The
watch on the compatibility file is lost when the file is replaced.

*Launch command.* An action that is not supported is run with the entry's own
Exec even if the compatibility file has another. The user of the option `uid`
is looked up with `getpwuid`, whose null result is used (`launchoptions.cpp`
83). The whole property Environ is passed as one word (`AS` 122-125), though
`Application.xml:79-85` speaks of several. `docs/execBehavior.md` (30 and 71)
promises a copy of the program for each file of a `%f` launch. The items of the
job have one unit name and empty one command: items that come when `addJob` has
returned find the options moved away and are refused by the helper; those that
take the options before (Qt copies them then, as `addJob` still holds its own
lambda, `jobmanager1service.h` 60) ask systemd for the same unit, with what the
others left of the command, and systemd has room for one of that name at a time.
`%i` within an argument
leaves an empty argument. A helper without a command asks systemd with an
empty one. The helper encodes ";" as `\;` and leaves the word `\;` as it is
(`app-launch-helper/src/main.cpp` 29), so systemd reads both as ";". One word
that `wordexp` refuses leaves all environment variables unexpanded. The entry's Exec is not unescaped before it is split, an action's
is (`docs/execBehavior.md` 17).

*Identify.* The path of a control group is cut at ":", so units of ids that hold
one are not identified, nor are processes in groups below their unit; "/" in an
id becomes "-", which is not undone; under the hybrid layout the line `0::/`
hides systemd's own. A unit name without an instance is answered with the only
instance listed, of whatever unit.

*Files.* An action named twice in Actions is written twice, and the file cannot
be read again; groups of actions that Actions does not name are dropped when
an entry is written. A type without applications ("type=;") is written as
"type=", which the parser refuses, so one own write makes such a list
unreadable (`MI` 23, `mimefileparser.cpp` 115). The generator does not escape
values; it writes keys and locales that the parser takes for none and ignores,
and a string of several actions, such as "a;b", is one action to it, while the
file then has two, without groups (`desktopfilegenerator.cpp` 209). A header "[]" passes as first group. The value of a key without locales
may come from a line with a locale. A default whose write failed "will be reset
after re-login" (`MM` 137), but it stays in memory and the next successful write
saves it. The list is said to be watched (`MM` 22), but is not if AM itself
created it (27). Removing a type from `MimeTypes` has no effect, as `queryTypes`
never reports a removed association (`MI` 171). A write of AM saves all of its
copy, over edits by others it has not read yet (`MI` 195).

## 6 What is not modelled, and the plan

Limits of the modules above:

* D-Bus errors other than a refused registration; the wording of replies.
* `AppInstances`: the start-up scan and a reload are one step each (they run on
  the main thread without returning to the event loop; `AppList` has the reload
  in the steps in which files may change); the data race on
  `m_pendingLaunchTypes` between the worker threads and the main thread is
  modelled as atomic operations in any order; use of an application object
  after a reload destroyed it (`AS` 558) is modelled as a launch that is lost;
  the results of failed units (`m_unitResults`, `AS` 1341) are left out.
* `AppList`: OnlyShowIn and NotShowIn refuse an entry as Hidden does and are left
  out; a directory is read at one moment.
* `LaunchRequest`: one call at a time; `wordexp` is expansion or refusal; words
  that are only carried along are not taken apart; the settings of a unit are a
  set, so their order is not compared.
* `Identify`: zombies; object paths, whose escapes are one to one.
* `EntryFiles`: characters within keys, locales and names of groups are valid
  or not.
* `MimeManager`: the lists and caches of other directories are never written, nor
  watched, and the queries over them change nothing. An edit by others between
  AM's write and its notification is swallowed with it (`MM` 131); this is the
  exception `blind` of `FollowsFile`.

Not modelled: the event reporter (optional telemetry, compiled with
`HAVE_DDE_API_EVENTLOGGER`, which nothing of AM reads back; its cache is shared
by the main thread, `AS` 532, and the pool's threads, `AS` 649, without a
lock), the update notifier and property forwarding (relays without state), the
Wayland protocol of the splash helper, `dde-am` (a D-Bus client), the build
system and translations.

What comes next, by what matters most:

1. **Unit results.** `addUnitResult` and its asynchronous reads against
   `handleUnitRemoved`: a result is reported for its own run.
2. **Composition.** The launches of `AppInstances` over `JobContract`, and
   `AppList`'s reloads in place of `DoReloadApplications`.
3. **MIME lists of other directories**, and their order.
4. **Theorems.** The refinement of `JobContract` by the launches, once they are
   composed.
