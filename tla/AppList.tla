------------------------------ MODULE AppList ------------------------------
(***************************************************************************)
(* The list of applications and their autostart state: the scans of the    *)
(* application and autostart directories (applicationmanager1service.cpp), *)
(* the reload timer, addUserApplication and deleteUserApplication, AutoStart *)
(* and the generated autostart entries (applicationservice.cpp), and the   *)
(* session overrides of TryExec (sessionoverrideconfig.cpp).  Other        *)
(* programs edit the same directories at any moment, also during a scan.   *)
(*                                                                         *)
(* The content of a desktop file is abstracted to what the checks read:    *)
(* body is everything that is only compared, hidden the key Hidden (the    *)
(* keys OnlyShowIn and NotShowIn refuse an entry in the same way and are   *)
(* left out), runs that its TryExec is found, gen the key                  *)
(* X-Deepin-GenerateSource.                                                *)
(***************************************************************************)
EXTENDS Naturals, FiniteSets

CONSTANTS
  Ids,          \* desktop ids
  Bodies,       \* contents of an entry that the program only compares
  AppFiles,     \* what others write into an application directory
  AutoFiles,    \* what others write into an autostart directory
  NoFile, BadFile,              \* no file; a file the parser refuses
  NoSource, NoEntry, NotListed,
  MaxEdits,     \* bound: edits of files and overrides by others
  MaxFaults     \* bound: torn writes and stops of the program

Dirs == {"user", "sys"}                  \* XDG_DATA_HOME before XDG_DATA_DIRS
Source == {"app", "auto"} \X Dirs        \* a path, for a given id
AppDir(d) == <<"app", d>>
AutoDir(d) == <<"auto", d>>
UserAuto == AutoDir("user")

Entry == [body : Bodies, hidden : BOOLEAN, runs : BOOLEAN, gen : Source \cup {NoSource}]
Content == Entry \cup {BadFile}
App == [entry : Entry, src : Source, auto : Source \cup {NoSource}, autoEntry : Entry \cup {NoEntry}]
Override == {"none", "runs", "fails"}    \* what an override of TryExec leads to

ASSUME IdsAssumption == IsFiniteSet(Ids)
ASSUME FilesAssumption ==
  /\ AppFiles \subseteq {e \in Entry : e.gen = NoSource}
  /\ AutoFiles \subseteq {e \in Entry : e.gen = NoSource}
ASSUME ValuesAssumption ==
  /\ NoFile \notin Content /\ BadFile \notin Entry
  /\ NoSource \notin Source /\ NoEntry \notin Entry /\ NotListed \notin App
ASSUME BoundsAssumption == MaxEdits \in Nat /\ MaxFaults \in Nat

VARIABLES
  files,        \* files[s][id]: the file of id at path s
  conf,         \* conf[id]: the TryExec override in DConfig
  list,         \* list[id]: m_applicationList
  records,      \* ids with a group of properties in the storage
  known,        \* known[id]: the override the program has read (m_overrides)
  loaded,       \* ids a DConfig object was created for (m_loaded, m_configs)
  ready,        \* ids whose DConfig object is initialised
  overrideSig,  \* ids with a queued valueChanged
  pc,           \* where the main thread is: down, idle, or in a scan
  left,         \* appIds of doReloadApplications
  seen,         \* seenDesktopIds of the scan
  dirSignal,    \* a directoryChanged is queued
  timer         \* m_reloadTimer is active

(* What happened, for the properties. *)
VARIABLES
  edits, faults,
  dirty,        \* something the list depends on changed since the scan began
  missed,       \* ... and nobody tells the program
  absent,       \* {<<d, id>>}: since the scan began, d had no file of id at some time
  wish          \* wish[id]: the last accepted value of AutoStart, if nobody touched its files since

am   == <<list, records, known, loaded, ready, overrideSig, pc, left, seen, dirSignal, timer>>
hist == <<edits, faults, dirty, missed, absent, wish>>
vars == <<files, conf, am, hist>>

Listed == {id \in Ids : list[id] # NotListed}
Exists(s, id) == s # NoSource /\ files[s][id] # NoFile

(* The path of id in the first directory that has a file of it: the later  *)
(* ones are hidden by seenDesktopIds and seenFileNames, whatever the first *)
(* one contains.                                                           *)
Winner(kind, id) ==
  IF Exists(<<kind, "user">>, id) THEN <<kind, "user">>
  ELSE IF Exists(<<kind, "sys">>, id) THEN <<kind, "sys">> ELSE NoSource

(* ApplicationFilter: an override of TryExec replaces the entry's own.     *)
TryExecRefuses(id, e) == IF known[id] = "none" THEN ~e.runs ELSE known[id] = "fails"
Shown(id, e) == ~e.hidden /\ ~TryExecRefuses(id, e)

(***************************************************************************)
(* One application.                                                        *)
(***************************************************************************)

(* createApplicationService for the file at s. *)
Created_Unfiltered(id, s) == [entry |-> files[s][id], src |-> s, auto |-> NoSource, autoEntry |-> NoEntry]
Created(id, s) ==
  IF files[s][id] \in Entry /\ Shown(id, files[s][id])
  THEN [entry |-> files[s][id], src |-> s, auto |-> NoSource, autoEntry |-> NoEntry]
  ELSE NotListed

(* isAutoStart: the file must be there, but it is the copy that is read. *)
IsAutoStart(id, a) ==
  /\ Exists(a.auto, id)
  /\ ~(IF a.autoEntry = NoEntry THEN a.entry ELSE a.autoEntry).hidden

Generated(e) == e \in Entry /\ e.gen # NoSource

(* syncGeneratedAutostartEntry rewrites the file it generated from the     *)
(* application's entry and keeps its Hidden; any other file is left alone. *)
NeedsSync(id, a) == a.auto # NoSource /\ Generated(files[a.auto][id])
SyncedEntry_HiddenFromApp(id, a) == [a.entry EXCEPT !.gen = a.src]


SyncedEntry(id, a) == [a.entry EXCEPT !.gen = a.src, !.hidden = files[a.auto][id].hidden]

(* What follows of the application a and of the files when a is synced;    *)
(* a write that fails leaves a truncated file and the old copy.            *)
SyncedApp(id, a, torn) ==
  IF NeedsSync(id, a) /\ id \notin torn THEN [a EXCEPT !.autoEntry = SyncedEntry(id, a)] ELSE a
SyncedFile(id, a, torn) ==
  IF id \in torn THEN BadFile ELSE SyncedEntry(id, a)

Updated_EntryKept(id, a, s) ==
  IF IsAutoStart(id, a) THEN [a EXCEPT !.src = s] ELSE a

(* updateApplication: an entry that cannot be parsed changes nothing; the  *)
(* source only moves for an application that starts automatically.         *)
Updated(id, a, s) ==
  LET b == [a EXCEPT !.entry = files[s][id]]
  IN IF IsAutoStart(id, b) THEN [b EXCEPT !.src = s] ELSE b

(* updateAutostartStatus: the winning autostart file of id is readable,    *)
(* may be shown, and the file it was generated from is still there.        *)
Starts(id) ==
  LET w == Winner("auto", id)
      e == files[w][id]
  IN /\ w # NoSource /\ e # BadFile
     /\ Shown(id, e)
     /\ Generated(e) => Exists(e.gen, id)

(* dde-autostart's scan at login: overrides and the source are not looked at. *)
LaunchedAtLogin(id) ==
  LET w == Winner("auto", id)
  IN w # NoSource /\ files[w][id] # BadFile /\ ~files[w][id].hidden /\ files[w][id].runs

(* Which application it is attached to: the listed one, the one created    *)
(* from the generated file's source, or one of its own.                    *)
Attached(id, a) ==
  LET w == Winner("auto", id)
      e == files[w][id]
      owner == IF a = NotListed /\ Generated(e) THEN Created(id, e.gen) ELSE a
  IN IF owner # NotListed THEN [owner EXCEPT !.auto = w, !.autoEntry = e]
     ELSE IF Generated(e) THEN NotListed
     ELSE [entry |-> e, src |-> w, auto |-> w, autoEntry |-> NoEntry]

(* The files after the applications apps[id], id \in ids, were synced.     *)
SyncedFiles(ids, apps, torn) ==
  [s \in Source |-> [id \in Ids |->
    IF id \in ids /\ apps[id].auto = s /\ NeedsSync(id, apps[id])
    THEN SyncedFile(id, apps[id], torn) ELSE files[s][id]]]

(* Writes that may fail while the applications apps[id], id \in ids, are   *)
(* synced.                                                                 *)
TornWrites(ids, apps) ==
  {t \in SUBSET {id \in ids : NeedsSync(id, apps[id])} : faults + Cardinality(t) <= MaxFaults}

-----------------------------------------------------------------------------
(***************************************************************************)
(* The scans.  A file is read when its directory is listed; each directory *)
(* is one step, and others edit files between two of them.                 *)
(***************************************************************************)
NoFiles == {x \in Dirs \X Ids : files[AppDir(x[1])][x[2]] = NoFile}

BeginScan ==
  /\ pc' = "user"
  /\ left' = Listed
  /\ seen' = {}
  /\ dirty' = FALSE /\ missed' = FALSE
  /\ absent' = NoFiles

ScanDir(d) ==
  LET here    == {id \in Ids : Exists(AppDir(d), id)} \ seen
      updates == {id \in here \cap left : files[AppDir(d)][id] # BadFile}
      apps    == [id \in Ids |->
                   IF id \in updates THEN Updated(id, list[id], AppDir(d))
                   ELSE IF id \in here \ left THEN Created(id, AppDir(d))
                   ELSE list[id]]
  IN /\ pc = d
     /\ pc' = IF d = "user" THEN "sys" ELSE "auto"
     /\ seen' = seen \cup here
     /\ left' = left \ here
     /\ loaded' = loaded \cup {id \in here \ left : files[AppDir(d)][id] # BadFile /\ ~files[AppDir(d)][id].hidden}
     /\ \E torn \in TornWrites(updates, apps) :
          /\ list' = [id \in Ids |-> IF id \in updates THEN SyncedApp(id, apps[id], torn) ELSE apps[id]]
          /\ files' = SyncedFiles(updates, apps, torn)
          /\ faults' = faults + Cardinality(torn)
          /\ dirty' = (dirty \/ torn # {}) /\ missed' = (missed \/ torn # {})
          /\ wish' = [id \in Ids |-> IF id \in torn THEN "none" ELSE wish[id]]
     /\ UNCHANGED <<conf, records, known, ready, overrideSig, dirSignal, timer, edits, absent>>

(* The applications no directory had a file of, whatever is in the file.   *)
Removed_Unreadable ==
  {id \in Listed : Winner("app", id) = NoSource \/ files[Winner("app", id)][id] = BadFile}
Removed == left

(* After the last directory: the applications without a file are removed   *)
(* with their records, then the autostart files are read.                  *)
FinishScan ==
  LET kept    == [id \in Ids |-> IF id \in Removed THEN NotListed ELSE list[id]]
      starts  == {id \in Ids : Starts(id)}
      apps    == [id \in Ids |-> IF id \in starts THEN Attached(id, kept[id]) ELSE kept[id]]
      updates == {id \in starts : apps[id] # NotListed}
  IN /\ pc = "auto"
     /\ pc' = "idle"
     /\ left' = {}
     /\ records' = records \ Removed
     /\ loaded' = loaded \cup {id \in Ids : Winner("auto", id) # NoSource /\ files[Winner("auto", id)][id] # BadFile}
     /\ \E torn \in TornWrites(updates, apps) :
          /\ list' = [id \in Ids |-> IF id \in updates THEN SyncedApp(id, apps[id], torn) ELSE apps[id]]
          /\ files' = SyncedFiles(updates, apps, torn)
          /\ faults' = faults + Cardinality(torn)
          /\ dirty' = (dirty \/ torn # {}) /\ missed' = (missed \/ torn # {})
          /\ wish' = [id \in Ids |-> IF id \in torn THEN "none" ELSE wish[id]]
     /\ UNCHANGED <<conf, known, ready, overrideSig, seen, dirSignal, timer, edits, absent>>

(* What makes a scan begin: the timer that directoryChanged starts, a call *)
(* of ReloadApplications, a changed override.                              *)
DirectoryChanged_NoTimer ==
  /\ pc = "idle" /\ dirSignal
  /\ dirSignal' = FALSE
  /\ UNCHANGED <<files, conf, list, records, known, loaded, ready, overrideSig, pc, left, seen, timer, hist>>

DirectoryChanged ==
  /\ pc = "idle" /\ dirSignal
  /\ dirSignal' = FALSE
  /\ timer' = TRUE
  /\ UNCHANGED <<files, conf, list, records, known, loaded, ready, overrideSig, pc, left, seen, hist>>

ReloadTimeout ==
  /\ pc = "idle" /\ timer
  /\ timer' = FALSE
  /\ BeginScan
  /\ UNCHANGED <<files, conf, list, records, known, loaded, ready, overrideSig, dirSignal, edits, faults, wish>>

ReloadApplications ==                   \* with the timer active it is only restarted
  /\ pc = "idle" /\ ~timer
  /\ BeginScan
  /\ UNCHANGED <<files, conf, list, records, known, loaded, ready, overrideSig, dirSignal, timer, edits, faults, wish>>

OverrideChanged(id) ==
  /\ pc = "idle" /\ id \in overrideSig
  /\ overrideSig' = overrideSig \ {id}
  /\ known' = [known EXCEPT ![id] = conf[id]]
  /\ wish' = [wish EXCEPT ![id] = "none"]
  /\ BeginScan
  /\ UNCHANGED <<files, conf, list, records, loaded, ready, dirSignal, timer, edits, faults>>

(* A DConfig object finishes its initialisation: its values are read, but  *)
(* nothing is scanned again.                                               *)
OverrideReady(id) ==
  /\ pc = "idle" /\ id \in loaded \ ready
  /\ ready' = ready \cup {id}
  /\ known' = [known EXCEPT ![id] = conf[id]]
  /\ missed' = (missed \/ conf[id] # "none")
  /\ dirty' = (dirty \/ conf[id] # "none")
  /\ wish' = [wish EXCEPT ![id] = IF conf[id] = "none" THEN @ ELSE "none"]
  /\ UNCHANGED <<files, conf, list, records, loaded, overrideSig, pc, left, seen, dirSignal, timer, edits, faults, absent>>

-----------------------------------------------------------------------------
(***************************************************************************)
(* Calls on the bus.                                                       *)
(***************************************************************************)

(* The file at s of id becomes c; who says so to the program. *)
Put(s, id, c) == files' = [files EXCEPT ![s][id] = c]
Changes(s, id, told) ==
  /\ dirty' = TRUE
  /\ missed' = (missed \/ ~told)
  /\ dirSignal' = (dirSignal \/ told)
  /\ wish' = [wish EXCEPT ![id] = "none"]
  /\ absent' = IF s[1] = "app" /\ files'[s][id] = NoFile THEN absent \cup {<<s[2], id>>} ELSE absent

(* setAutoStart: an entry of the autostart directories is reused, else the *)
(* application's own is written.  The file is truncated before it is       *)
(* written: a failing write, or a stop, leaves it empty.                   *)
NewAutoEntry(id, a, on) ==
  LET reuse == Exists(a.auto, id) /\ a.autoEntry # NoEntry /\ ~Generated(a.autoEntry)
  IN [(IF reuse THEN a.autoEntry ELSE a.entry)
        EXCEPT !.gen = IF reuse THEN a.auto ELSE a.src, !.hidden = ~on]

Plain(e) == e \in Entry /\ ~e.hidden /\ e.runs
Startable(id, e) ==
  LET w == Winner("app", id)
  IN Exists(e.gen, id) /\ Plain(e) /\ w # NoSource /\ Plain(files[w][id])

SetAutoStart(id, on) ==
  LET e == NewAutoEntry(id, list[id], on)
  IN /\ pc = "idle" /\ id \in Listed
     /\ IsAutoStart(id, list[id]) # on
     /\ Put(UserAuto, id, e)
     /\ list' = [list EXCEPT ![id].auto = UserAuto, ![id].autoEntry = e]
     /\ wish' = [wish EXCEPT ![id] = IF ~on THEN "off" ELSE IF Startable(id, e) THEN "on" ELSE "none"]
     /\ dirty' = TRUE /\ missed' = TRUE
     /\ UNCHANGED <<conf, records, known, loaded, ready, overrideSig, pc, left, seen, dirSignal, timer, edits, faults, absent>>

SetAutoStartFails(id) ==
  /\ pc = "idle" /\ id \in Listed
  /\ faults < MaxFaults /\ faults' = faults + 1
  /\ Put(UserAuto, id, BadFile)
  /\ wish' = [wish EXCEPT ![id] = "none"]
  /\ dirty' = TRUE /\ missed' = TRUE
  /\ UNCHANGED <<conf, am, edits, absent>>

(* addUserApplication: the file is created or overwritten, and removed if  *)
(* the application cannot be listed; a listed application stays as it is.  *)
AddUserApplication(id, e) ==
  LET s   == AppDir("user")
      new == IF Shown(id, e) THEN [entry |-> e, src |-> s, auto |-> NoSource, autoEntry |-> NoEntry] ELSE NotListed
  IN /\ pc = "idle"
     /\ edits < MaxEdits /\ edits' = edits + 1
     /\ IF id \in Listed THEN Put(s, id, e) /\ UNCHANGED list
        ELSE /\ Put(s, id, IF new = NotListed THEN NoFile ELSE e)
             /\ list' = [list EXCEPT ![id] = new]
     /\ loaded' = IF id \in Listed \/ e.hidden THEN loaded ELSE loaded \cup {id}
     /\ Changes(s, id, files[s][id] = NoFile \/ files'[s][id] = NoFile)
     /\ UNCHANGED <<conf, records, known, ready, overrideSig, pc, left, seen, timer, faults>>

DeleteUserApplication(id) ==
  LET s == AppDir("user")
  IN /\ pc = "idle" /\ Exists(s, id)
     /\ edits < MaxEdits /\ edits' = edits + 1
     /\ Put(s, id, NoFile)
     /\ Changes(s, id, TRUE)
     /\ UNCHANGED <<conf, list, records, known, loaded, ready, overrideSig, pc, left, seen, timer, faults>>

(* A launch stores the counters of a listed application.                   *)
Record(id) ==
  /\ pc = "idle" /\ id \in Listed \ records
  /\ records' = records \cup {id}
  /\ UNCHANGED <<files, conf, list, known, loaded, ready, overrideSig, pc, left, seen, dirSignal, timer, hist>>

-----------------------------------------------------------------------------
(***************************************************************************)
(* Others.  The watcher tells of files that appear, disappear or are       *)
(* replaced in an application directory; it does not tell of a file        *)
(* rewritten in place, and the autostart directories are not watched.      *)
(***************************************************************************)
EditApp(d, id, c, inPlace) ==
  /\ edits < MaxEdits /\ edits' = edits + 1
  /\ c # files[AppDir(d)][id]
  /\ inPlace => c # NoFile /\ Exists(AppDir(d), id)
  /\ Put(AppDir(d), id, c)
  /\ Changes(AppDir(d), id, pc # "down" /\ ~inPlace)
  /\ UNCHANGED <<conf, list, records, known, loaded, ready, overrideSig, pc, left, seen, timer, faults>>

EditAuto(d, id, c) ==
  /\ edits < MaxEdits /\ edits' = edits + 1
  /\ c # files[AutoDir(d)][id]
  /\ Put(AutoDir(d), id, c)
  /\ Changes(AutoDir(d), id, FALSE)
  /\ UNCHANGED <<conf, list, records, known, loaded, ready, overrideSig, pc, left, seen, timer, faults>>

EditOverride(id, o) ==
  /\ edits < MaxEdits /\ edits' = edits + 1
  /\ o # conf[id]
  /\ conf' = [conf EXCEPT ![id] = o]
  /\ overrideSig' = IF id \in ready THEN overrideSig \cup {id} ELSE overrideSig
  /\ UNCHANGED <<files, list, records, known, loaded, ready, pc, left, seen, dirSignal, timer, faults, dirty, missed, absent, wish>>

(* The program stops, at any point, and starts with an empty list.  Signals *)
(* and the timer are lost with it.                                         *)
Stop ==
  /\ pc # "down"
  /\ faults < MaxFaults /\ faults' = faults + 1
  /\ pc' = "down"
  /\ list' = [id \in Ids |-> NotListed]
  /\ known' = [id \in Ids |-> "none"]
  /\ loaded' = {} /\ ready' = {} /\ overrideSig' = {}
  /\ left' = {} /\ seen' = {}
  /\ dirSignal' = FALSE /\ timer' = FALSE
  /\ UNCHANGED <<files, conf, records, edits, dirty, missed, absent, wish>>

Start ==
  /\ pc = "down"
  /\ BeginScan
  /\ UNCHANGED <<files, conf, list, records, known, loaded, ready, overrideSig, dirSignal, timer, edits, faults, wish>>

Init ==
  /\ files \in [Source -> [Ids -> AppFiles \cup AutoFiles \cup {NoFile}]]
  /\ \A id \in Ids : /\ files[AppDir("sys")][id] \in AppFiles \cup {NoFile}
                     /\ files[AutoDir("sys")][id] \in AutoFiles \cup {NoFile}
                     /\ files[AppDir("user")][id] = NoFile /\ files[UserAuto][id] = NoFile
  /\ conf = [id \in Ids |-> "none"]
  /\ list = [id \in Ids |-> NotListed]
  /\ records = {}
  /\ known = [id \in Ids |-> "none"]
  /\ loaded = {} /\ ready = {} /\ overrideSig = {}
  /\ pc = "down"
  /\ left = {} /\ seen = {}
  /\ dirSignal = FALSE /\ timer = FALSE
  /\ edits = 0 /\ faults = 0
  /\ dirty = FALSE /\ missed = FALSE
  /\ absent = {}
  /\ wish = [id \in Ids |-> "none"]

Scan == (\E d \in Dirs : ScanDir(d)) \/ FinishScan

Next ==
  \/ Start \/ Scan
  \/ DirectoryChanged \/ ReloadTimeout \/ ReloadApplications
  \/ \E id \in Ids :
       \/ OverrideChanged(id) \/ OverrideReady(id)
       \/ \E on \in BOOLEAN : SetAutoStart(id, on)
       \/ SetAutoStartFails(id)
       \/ \E e \in AppFiles : AddUserApplication(id, e)
       \/ DeleteUserApplication(id)
       \/ Record(id)
       \/ \E d \in Dirs, c \in AppFiles \cup {NoFile, BadFile}, inPlace \in BOOLEAN : EditApp(d, id, c, inPlace)
       \/ \E d \in Dirs, c \in AutoFiles \cup {NoFile, BadFile} : EditAuto(d, id, c)
       \/ \E o \in Override : EditOverride(id, o)
  \/ Stop

(* The event loop delivers signals and timeouts and runs a scan to its end. *)
Fairness ==
  /\ WF_vars(Scan) /\ WF_vars(DirectoryChanged) /\ WF_vars(ReloadTimeout)
  /\ \A id \in Ids : WF_vars(OverrideChanged(id))

Spec == Init /\ [][Next]_vars /\ Fairness

-----------------------------------------------------------------------------
(***************************************************************************)
(* Properties.                                                             *)
(***************************************************************************)
TypeOK ==
  /\ files \in [Source -> [Ids -> Content \cup {NoFile}]]
  /\ conf \in [Ids -> Override]
  /\ list \in [Ids -> App \cup {NotListed}]
  /\ records \subseteq Ids
  /\ known \in [Ids -> Override]
  /\ loaded \subseteq Ids /\ ready \subseteq Ids /\ overrideSig \subseteq Ids
  /\ pc \in {"down", "idle", "user", "sys", "auto"}
  /\ left \subseteq Ids /\ seen \subseteq Ids
  /\ dirSignal \in BOOLEAN /\ timer \in BOOLEAN
  /\ edits \in 0..MaxEdits /\ faults \in 0..MaxFaults
  /\ dirty \in BOOLEAN /\ missed \in BOOLEAN
  /\ absent \subseteq Dirs \X Ids
  /\ wish \in [Ids -> {"none", "on", "off"}]

(* An application the autostart directories alone list. *)
StartedAlone(id) ==
  LET e == files[Winner("auto", id)][id]
  IN Starts(id) /\ (Generated(e) => Created(id, e.gen) # NotListed)

(* After a scan that nothing disturbed, the list is what the directories   *)
(* say: a file that may be shown is listed with its content, whatever was  *)
(* listed before and whichever file it was read from; without a file, only *)
(* what starts automatically is listed.  (A file that is not to be shown   *)
(* any more stays listed, with its new content: see the README.)           *)
FollowsFiles ==
  \A id \in Ids :
    LET w == Winner("app", id)
    IN IF w = NoSource THEN id \in Listed <=> StartedAlone(id)
       ELSE files[w][id] # BadFile /\ Shown(id, files[w][id]) =>
              id \in Listed /\ list[id].entry = files[w][id]
ListFollowsFiles == pc = "idle" /\ ~dirty => FollowsFiles

(* Stored records are deleted only if each directory was without a file of *)
(* the application at some time since the scan began: an application that  *)
(* is replaced, hidden by another file or becomes unreadable keeps them.   *)
RecordsKept ==
  [][\A id \in records \ records' : \A d \in Dirs : <<d, id>> \in absent]_vars

(* What the user asked of AutoStart last, and nobody changed since, holds   *)
(* after any reload and any restart, and at login.  "On" is asked of an    *)
(* application whose file is visible and whose recorded source is still    *)
(* there: SetAutoStart writes that source into the entry, and the entry is *)
(* void without it.                                                        *)
AutoStartKept ==
  \A id \in Ids :
    LET starts == id \in Listed /\ IsAutoStart(id, list[id])
    IN /\ wish[id] = "on" => LaunchedAtLogin(id) /\ (pc = "idle" => starts)
       /\ wish[id] = "off" => ~LaunchedAtLogin(id) /\ (pc = "idle" => ~starts)

(* When the edits stop, the list follows the files for good, unless the    *)
(* last change was one that nobody tells the program.                      *)
ListCatchesUp == <>[](pc = "idle" => missed \/ FollowsFiles)

=============================================================================
