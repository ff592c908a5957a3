----------------------------- MODULE MimeManager -----------------------------
(***************************************************************************)
(* The MIME manager of dde-application-manager and the user's mimeapps.list*)
(* (mimemanager1service.cpp, applicationmimeinfo.cpp): AM holds what it    *)
(* read of the file, changes it for clients and writes all of it back, and *)
(* watches the file for changes by others.  Its own writes are noticed by  *)
(* the same watcher; m_internalWriteInProgress is to tell them apart.      *)
(*                                                                         *)
(* Writers that interleave: clients of AM's D-Bus methods, other programs  *)
(* that edit the file, and AM's reloads.  The watcher is Qt's on Linux: an *)
(* inotify watch follows the file's inode, not its name, and Qt drops a    *)
(* path when the inode is freed, which may be long after its replacement   *)
(* if a reader holds it open.                                              *)
(***************************************************************************)
EXTENDS FiniteSets

CONSTANTS
  Types,      \* MIME types
  Apps,       \* application ids
  CacheTypes, \* the types each application has by mimeinfo.cache
  None,       \* no default application
  NoApps,     \* a list of default applications without any: "type=;"
  Absent,     \* no file
  Garbage,    \* a file that does not parse
  NoConfig    \* AM has no user configuration in memory

Contents == [default : [Types -> Apps \cup {None, NoApps}],
             added   : SUBSET (Types \X Apps),
             removed : SUBSET (Types \X Apps)]

ASSUME CacheAssumption == CacheTypes \in [Apps -> SUBSET Types]
ASSUME NamesAssumption ==
  /\ None \notin Apps /\ NoApps \notin Apps /\ None # NoApps
  /\ Absent \notin Contents /\ Garbage \notin Contents /\ NoConfig \notin Contents
  /\ Absent # Garbage

VARIABLES
  up,       \* AM runs
  file,     \* mimeapps.list in the user's configuration directory
  content,  \* what AM holds of it: the MimeApps of the first MimeInfo
  watch,    \* the inode watched: the "current" one, an "old" one, or "none"
  event,    \* what inotify has to report: "none", "changed" or "removed"
  m_internalWriteInProgress,
  m_mimeAppsDebounceTimer, \* "off", "running" or "due"
  lastWrite, \* history: AM's last write went well (or it read the file since)
  blind,     \* history: a change by others since was one AM cannot notice
  missed     \* history: the file was missing at some time since AM's start

watcher == <<watch, event>>
history == <<lastWrite, blind, missed>>
vars == <<up, file, content, watcher, m_internalWriteInProgress,
          m_mimeAppsDebounceTimer, history>>

Init ==
  /\ up = FALSE
  /\ file \in Contents \cup {Absent, Garbage}
  /\ content = NoConfig
  /\ watch = "none" /\ event = "none"
  /\ m_internalWriteInProgress = FALSE
  /\ m_mimeAppsDebounceTimer = "off"
  /\ lastWrite = TRUE /\ blind = FALSE /\ missed = FALSE

-----------------------------------------------------------------------------
(* loadFromFile: what AM makes of a file.                                  *)
LoadedUnparsed(f) == f  \* mutant

Loaded(f) == IF f \in Contents THEN f ELSE NoConfig

(* toString: a list without applications is written as "type=", which the  *)
(* parser refuses, and the whole file with it.                             *)
Serializable(c) == \A t \in Types : c.default[t] # NoApps

ToString(c) == IF Serializable(c) THEN c ELSE Garbage

EmptyContent == [default |-> [t \in Types |-> None], added |-> {}, removed |-> {}]

(* inotify: the watched file is written in place, or its inode loses its   *)
(* name to another file or to nobody.                                      *)
Written  == IF watch = "current" /\ event = "none" THEN "changed" ELSE event

Unlinked == /\ event' = Written
            /\ watch' = IF watch = "current" THEN "old" ELSE watch

(* createMimeInfo of the user's directory: the file is created if it is    *)
(* missing (and can be), then read.                                        *)
Load(ok) ==
  /\ file' = IF file = Absent /\ ok THEN EmptyContent ELSE file
  /\ content' = Loaded(file')
  /\ lastWrite' = TRUE /\ blind' = FALSE

-----------------------------------------------------------------------------
(* Others: they replace the file, write it in place or remove it.  AM gets *)
(* to know unless it takes the change for its own write, or has no watch.  *)
Unnoticed ==
  /\ m_mimeAppsDebounceTimer = "off"
  /\ m_internalWriteInProgress \/ watch = "none"

ExternalChange ==
  /\ blind' = (up /\ Unnoticed)
  /\ UNCHANGED <<up, content, m_internalWriteInProgress, m_mimeAppsDebounceTimer, lastWrite>>

ExternalReplace ==
  /\ file' \in (Contents \cup {Garbage}) \ {file}
  /\ Unlinked
  /\ ExternalChange
  /\ UNCHANGED missed

ExternalWrite ==
  /\ file # Absent
  /\ file' \in (Contents \cup {Garbage}) \ {file}
  /\ event' = Written
  /\ ExternalChange
  /\ UNCHANGED <<watch, missed>>

ExternalRemove ==
  /\ file # Absent
  /\ file' = Absent
  /\ Unlinked
  /\ ExternalChange
  /\ missed' = up

(* The last reader of an unlinked inode closes it.                         *)
FreeInode ==
  /\ watch = "old"
  /\ event # "removed"
  /\ event' = "removed"
  /\ UNCHANGED <<up, file, content, watch, m_internalWriteInProgress,
                 m_mimeAppsDebounceTimer, history>>

-----------------------------------------------------------------------------
(* The constructor adds the path to the watcher only if the file exists;   *)
(* scanMimeInfos, later in initService, creates a missing one.             *)
Start(ok) ==
  /\ ~ up
  /\ up' = TRUE
  /\ watch' = IF file = Absent THEN "none" ELSE "current"
  /\ event' = "none"
  /\ m_internalWriteInProgress' = FALSE
  /\ m_mimeAppsDebounceTimer' = "off"
  /\ Load(ok)
  /\ missed' = (file = Absent)

Stop ==
  /\ up
  /\ up' = FALSE
  /\ content' = NoConfig
  /\ watch' = "none" /\ event' = "none"
  /\ m_internalWriteInProgress' = FALSE
  /\ m_mimeAppsDebounceTimer' = "off"
  /\ lastWrite' = TRUE /\ blind' = FALSE /\ missed' = FALSE
  /\ UNCHANGED file

(* Qt reads inotify's events and emits fileChanged; a path whose inode is  *)
(* freed is no longer among the watcher's files.                           *)
OnMimeAppsFileChangedSwallowsFirst ==  \* mutant
  /\ up
  /\ event # "none"
  /\ event' = "none"
  /\ watch' = IF event # "removed" THEN watch
              ELSE IF file # Absent /\ ~ m_internalWriteInProgress THEN "current" ELSE "none"
  /\ m_internalWriteInProgress' = FALSE
  /\ m_mimeAppsDebounceTimer' =
       IF m_internalWriteInProgress THEN m_mimeAppsDebounceTimer ELSE "running"
  /\ UNCHANGED <<up, file, content, history>>

OnMimeAppsFileChanged ==
  /\ up
  /\ event # "none"
  /\ event' = "none"
  /\ watch' = IF event # "removed" THEN watch ELSE IF file # Absent THEN "current" ELSE "none"
  /\ m_internalWriteInProgress' = FALSE
  /\ m_mimeAppsDebounceTimer' =
       IF m_internalWriteInProgress THEN m_mimeAppsDebounceTimer ELSE "running"
  /\ UNCHANGED <<up, file, content, history>>

(* 50 ms pass; the event loop reaches the timer, unless it was restarted.  *)
TimeElapses ==
  /\ m_mimeAppsDebounceTimer = "running"
  /\ m_mimeAppsDebounceTimer' = "due"
  /\ UNCHANGED <<up, file, content, watcher, m_internalWriteInProgress, history>>

(* reloadMimeInfos.                                                        *)
ReloadMimeInfos(ok) ==
  /\ Load(ok)
  /\ UNCHANGED <<up, watcher, m_internalWriteInProgress, missed>>

HandleMimeAppsFileDebouncedLate(ok) ==  \* mutant
  /\ m_mimeAppsDebounceTimer = "due"
  /\ m_mimeAppsDebounceTimer' = "off"
  /\ ~ m_internalWriteInProgress
  /\ ReloadMimeInfos(ok)

HandleMimeAppsFileDebouncedIgnored(ok) ==  \* mutant
  /\ m_mimeAppsDebounceTimer = "due"
  /\ m_mimeAppsDebounceTimer' = "off"
  /\ IF m_internalWriteInProgress
     THEN UNCHANGED <<up, file, content, watcher, m_internalWriteInProgress, history>>
     ELSE ReloadMimeInfos(ok)

HandleMimeAppsFileDebounced(ok) ==
  /\ m_mimeAppsDebounceTimer = "due"
  /\ m_mimeAppsDebounceTimer' = "off"
  /\ ReloadMimeInfos(ok)

(* doReloadApplications reloads the MIME infos, too.                       *)
DoReloadApplications(ok) ==
  /\ up
  /\ ReloadMimeInfos(ok)
  /\ UNCHANGED m_mimeAppsDebounceTimer

-----------------------------------------------------------------------------
(* writeToFile, with QSaveFile: the new file replaces the old one.         *)
WriteToFile(c, ok) ==
  /\ lastWrite' = ok
  /\ IF ok THEN file' = ToString(c) /\ Unlinked /\ blind' = FALSE
     ELSE UNCHANGED <<file, watcher, blind>>

(* setDefaultApplication and unsetDefaultApplication of the manager: the   *)
(* change is made in memory first and stays there if the write fails.      *)
SetDefaults(default, ok) ==
  /\ up /\ content # NoConfig
  /\ content' = [content EXCEPT !.default = default]
  /\ WriteToFile(content', ok)
  /\ m_internalWriteInProgress' = ok
  /\ UNCHANGED <<up, m_mimeAppsDebounceTimer, missed>>

SetDefaultApplicationFlagged(t, a, ok) ==  \* mutant
  /\ up /\ content # NoConfig
  /\ content' = [content EXCEPT !.default[t] = a]
  /\ WriteToFile(content', ok)
  /\ m_internalWriteInProgress' = TRUE
  /\ UNCHANGED <<up, m_mimeAppsDebounceTimer, missed>>

SetDefaultApplication(t, a, ok) ==
  SetDefaults([content.default EXCEPT ![t] = a], ok)

UnsetDefaultApplication(t, ok) ==
  SetDefaults([content.default EXCEPT ![t] = None], ok)

(* ApplicationService::mimeTypes.  MimeApps::queryTypes never reports a    *)
(* removed association: it removes the type from the empty list of removed *)
(* ones, where it should append it.                                        *)
AddedTypes(a)   == {t \in Types : <<t, a>> \in content.added}
RemovedTypes(a) == {}
MimeTypes(a)    == (CacheTypes[a] \cup AddedTypes(a)) \ RemovedTypes(a)

(* setMimeTypes writes the same file, but does not set the flag.           *)
SetMimeTypes(a, value, ok) ==
  /\ up /\ content # NoConfig
  /\ content' = [content EXCEPT
       !.added   = @ \cup ((value \ MimeTypes(a)) \X {a}),
       !.removed = @ \cup ((MimeTypes(a) \ value) \X {a})]
  /\ WriteToFile(content', ok)
  /\ UNCHANGED <<up, m_internalWriteInProgress, m_mimeAppsDebounceTimer, missed>>

-----------------------------------------------------------------------------
Next ==
  \/ ExternalReplace
  \/ ExternalWrite
  \/ ExternalRemove
  \/ FreeInode
  \/ Stop
  \/ OnMimeAppsFileChanged
  \/ TimeElapses
  \/ \E ok \in BOOLEAN :
       \/ Start(ok)
       \/ HandleMimeAppsFileDebounced(ok)
       \/ DoReloadApplications(ok)
       \/ \E t \in Types, a \in Apps : SetDefaultApplication(t, a, ok)
       \/ \E t \in Types : UnsetDefaultApplication(t, ok)
       \/ \E a \in Apps, value \in SUBSET Types : SetMimeTypes(a, value, ok)

Spec == Init /\ [][Next]_vars

(* Readers close the file, time passes and AM's event loop turns.          *)
Fairness ==
  /\ WF_vars(FreeInode)
  /\ WF_vars(OnMimeAppsFileChanged)
  /\ WF_vars(TimeElapses)
  /\ WF_vars(\E ok \in BOOLEAN : HandleMimeAppsFileDebounced(ok))

FairSpec == Spec /\ Fairness

-----------------------------------------------------------------------------
(* Types of the variables.                                                 *)
TypeOK ==
  /\ up \in BOOLEAN
  /\ file \in Contents \cup {Absent, Garbage}
  /\ content \in Contents \cup {NoConfig}
  /\ watch \in {"none", "current", "old"}
  /\ event \in {"none", "changed", "removed"}
  /\ m_internalWriteInProgress \in BOOLEAN
  /\ m_mimeAppsDebounceTimer \in {"off", "running", "due"}
  /\ lastWrite \in BOOLEAN /\ blind \in BOOLEAN /\ missed \in BOOLEAN

(* A reload is on its way.                                                 *)
ReloadDue ==
  \/ m_mimeAppsDebounceTimer # "off"
  \/ ~ m_internalWriteInProgress /\ (event # "none" \/ watch = "old")

(* What AM tells clients is what the file says, or AM will read the file   *)
(* again: own writes, edits by others, notifications in any order and      *)
(* spurious ones never leave AM with an old picture of the file.  It holds *)
(* unless AM's last write failed, others changed the file while AM waited  *)
(* for the notification of its own write or had no watch, or the content   *)
(* cannot be written.                                                      *)
FollowsFile ==
  (/\ up /\ content # Loaded(file)
   /\ lastWrite /\ ~ blind
   /\ content # NoConfig => Serializable(content)) => ReloadDue

(* The file stays watched through every replacement, by AM or others; only *)
(* a time without a file ends the watch (onMimeAppsFileChanged adds the    *)
(* path again).                                                            *)
WatchKept == (up /\ watch = "none") => missed

(* The flag of an own write is cleared by that write's notification and    *)
(* not left for a later one: when the file is watched and nothing is to be *)
(* reported, AM does not wait for a notification (a failed write, too,     *)
(* clears the flag).                                                       *)
FlagSettles ==
  (up /\ watch = "current" /\ m_internalWriteInProgress) => event # "none"

(* An edit that AM can notice is read in the end or overwritten, if the    *)
(* notifications stop (every one restarts the debounce).                   *)
Stale == up /\ content # Loaded(file) /\ ReloadDue

EditSeen == <>[](event = "none") => (Stale ~> ~ Stale)

=============================================================================
