------------------------------- MODULE Storage -------------------------------
(***************************************************************************)
(* What AM remembers of every application: storage.json, the object that   *)
(* holds its contents (ApplicationManager1Storage), and the properties     *)
(* InstalledTime, LastLaunchedTime, LaunchedTimes and Environ that the     *)
(* application objects cache and change (applicationmanagerstorage.cpp,    *)
(* applicationservice.cpp, initService and removeOneApplication of         *)
(* applicationmanager1service.cpp).                                        *)
(*                                                                         *)
(* Every write of the file may fail (QSaveFile leaves the old contents     *)
(* then), and AM may crash at any time, also between the applications that *)
(* its start scans.  A crash in the middle of a call leaves the file as if *)
(* the call's later writes had failed.                                     *)
(***************************************************************************)
EXTENDS Integers

CONSTANTS
  Apps,           \* desktop file ids
  Environs,       \* values of Environ
  NoEnviron,      \* the empty one
  MaxLaunches,    \* bound on the launches that are counted
  Null,           \* no value in the storage
  Empty, Garbage  \* storage.json is empty or missing, or not JSON

Numbers == {"InstalledTime", "LastLaunchedTime", "LaunchedTimes"}
Keys    == Numbers \cup {"Environ"}
Now     == 1  \* any time; 0 stands for none

Values == [Apps -> [Keys -> Int \cup Environs \cup {Null}]]
Data   == [firstLaunch : BOOLEAN, values : Values]

ASSUME EnvironsAssumption == NoEnviron \in Environs /\ Environs \cap Int = {}
ASSUME NullAssumption == Null \notin Int \cup Environs
ASSUME FilesAssumption == Empty \notin Data /\ Garbage \notin Data
ASSUME BoundAssumption == MaxLaunches \in Nat

VARIABLES
  am,        \* "down", "starting" (initService's batch is open) or "up"
  desktop,   \* the desktop file of every application
  file,      \* the contents of storage.json
  m_storage, \* the storage could be opened
  storage,   \* its members m_data, m_batchUpdate and m_pendingWrite
  toScan,    \* the desktop files that scanApplications has yet to visit
  listed,    \* m_applicationList
  object,    \* the properties the object of each listed application caches
  lastWrite, \* history: the last write went well
  allWrites, \* history: all writes since AM started went well
  finished   \* history: a start has ended since storage.json was last lost

disk    == <<desktop, file>>
memory  == <<m_storage, storage, listed, object>>
history == <<lastWrite, allWrites>>
vars    == <<am, disk, memory, toScan, history, finished>>

NoValues  == [a \in Apps |-> [k \in Keys |-> Null]]
NoStorage == [m_data |-> [firstLaunch |-> TRUE, values |-> NoValues],
              m_batchUpdate |-> FALSE, m_pendingWrite |-> FALSE]
NoObject  == [k \in Keys |-> IF k = "Environ" THEN NoEnviron ELSE 0]

Init ==
  /\ am = "down"
  /\ desktop \in [Apps -> {"absent", "shown", "hidden"}]
  /\ file = Empty
  /\ m_storage = FALSE
  /\ storage = NoStorage
  /\ toScan = {}
  /\ listed = {}
  /\ object = [a \in Apps |-> NoObject]
  /\ lastWrite = TRUE /\ allWrites = TRUE /\ finished = FALSE

-----------------------------------------------------------------------------
(* The storage's operations, as functions of the storage and the file: they *)
(* take and return s = [mem, file, last, all], and ok says whether the     *)
(* write they may come to succeeds.                                        *)
State == [mem |-> storage, file |-> file, last |-> lastWrite, all |-> allWrites]

Becomes(s) ==
  /\ storage' = s.mem /\ file' = s.file
  /\ lastWrite' = s.last /\ allWrites' = s.all

Has(s, a, k) == s.mem.m_data.values[a][k] # Null

Put(s, a, k, v) == [s EXCEPT !.mem.m_data.values[a][k] = v]

WriteToFile(s, ok) ==
  IF s.mem.m_batchUpdate THEN [s EXCEPT !.mem.m_pendingWrite = TRUE]
  ELSE IF ok THEN [s EXCEPT !.file = s.mem.m_data, !.mem.m_pendingWrite = FALSE, !.last = TRUE]
  ELSE [s EXCEPT !.last = FALSE, !.all = FALSE]

(* What writeToFile returns.                                               *)
Written(s, ok) == s.mem.m_batchUpdate \/ ok

CreateApplicationValue(s, a, k, v, ok) ==
  IF Has(s, a, k) THEN s ELSE WriteToFile(Put(s, a, k, v), ok)

UpdateApplicationValue(s, a, k, v, ok) ==
  IF Has(s, a, k) THEN WriteToFile(Put(s, a, k, v), ok) ELSE s

DeleteApplication(s, a, ok) ==
  WriteToFile([s EXCEPT !.mem.m_data.values[a] = [k \in Keys |-> Null]], ok)

SetFirstLaunchUnset(s, first, ok) == WriteToFile(s, ok)  \* mutant

SetFirstLaunch(s, first, ok) ==
  WriteToFile([s EXCEPT !.mem.m_data.firstLaunch = first], ok)

EndBatchUpdateWithoutWrite(s, ok) == [s EXCEPT !.mem.m_batchUpdate = FALSE]  \* mutant

EndBatchUpdate(s, ok) ==
  LET ended == [s EXCEPT !.mem.m_batchUpdate = FALSE]
  IN  IF s.mem.m_pendingWrite THEN WriteToFile(ended, ok) ELSE ended

-----------------------------------------------------------------------------
(* ApplicationService's constructor: it creates the values the storage     *)
(* lacks and caches the others; a value that could not be written is       *)
(* cached as -1.  At AM's first launch InstalledTime becomes 0.            *)
Cached(s, a, k, v, ok) ==
  IF Has(s, a, k) THEN s.mem.m_data.values[a][k]
  ELSE IF Written(s, ok) THEN v ELSE -1

NewInstalled(s, a, ok) ==
  IF s.mem.m_data.firstLaunch THEN WriteToFile(Put(s, a, "InstalledTime", 0), ok)
  ELSE CreateApplicationValue(s, a, "InstalledTime", Now, ok)

NewState(s, a, ok) ==
  LET s1 == NewInstalled(s, a, ok["InstalledTime"])
      s2 == CreateApplicationValue(s1, a, "LastLaunchedTime", 0, ok["LastLaunchedTime"])
  IN  CreateApplicationValue(s2, a, "LaunchedTimes", 0, ok["LaunchedTimes"])

NewEnvironUnchecked(s, a) == s.mem.m_data.values[a]["Environ"]  \* mutant

NewEnviron(s, a) ==
  IF Has(s, a, "Environ") THEN s.mem.m_data.values[a]["Environ"] ELSE NoEnviron

NewProperty(s, a, k, ok) ==
  CASE k = "InstalledTime" ->
         IF s.mem.m_data.firstLaunch
         THEN IF Written(s, ok[k]) THEN 0 ELSE -1
         ELSE Cached(s, a, k, Now, ok[k])
    [] k \in {"LastLaunchedTime", "LaunchedTimes"} -> Cached(s, a, k, 0, ok[k])
    [] k = "Environ" -> NewEnviron(s, a)

NewObject(s, a, ok) == [k \in Keys |-> NewProperty(s, a, k, ok)]

(* Without a storage the constructor sets m_lastLaunch only.               *)
UnstoredObject == [NoObject EXCEPT !["LastLaunchedTime"] = -1]

-----------------------------------------------------------------------------
(* Desktop files come, go, and are hidden by their contents.               *)
DesktopChanges(a) ==
  /\ \E d \in {"absent", "shown", "hidden"} :
        desktop[a] # d /\ desktop' = [desktop EXCEPT ![a] = d]
  /\ UNCHANGED <<am, file, memory, toScan, history, finished>>

(* While AM is down its file may be lost or damaged.                       *)
FileDamaged ==
  /\ am = "down"
  /\ file' \in {Empty, Garbage} \ {file}
  /\ finished' = FALSE
  /\ UNCHANGED <<am, desktop, memory, toScan, history>>

(* createApplicationManager1Storage: what it makes of the file.            *)
Loaded ==
  IF file \in {Empty, Garbage}
  THEN [firstLaunch |-> TRUE, values |-> NoValues]
  ELSE [firstLaunch |-> FALSE, values |-> file.values]

(* A file that does not parse is emptied.                                  *)
FileLoaded == IF file = Garbage THEN Empty ELSE file

(* What initService starts with: the storage as loaded, its batch open.    *)
LoadedUnbatched ==  \* mutant
  [m_data |-> Loaded, m_batchUpdate |-> FALSE, m_pendingWrite |-> FALSE]

LoadedStorage == [m_data |-> Loaded, m_batchUpdate |-> TRUE, m_pendingWrite |-> FALSE]

Starts ==
  /\ am = "down"
  /\ am' = "starting"
  /\ toScan' = {a \in Apps : desktop[a] # "absent"}
  /\ lastWrite' = TRUE /\ allWrites' = TRUE
  /\ UNCHANGED <<desktop, listed, object, finished>>

Start ==
  /\ Starts
  /\ file' = FileLoaded
  /\ m_storage' = TRUE
  /\ storage' = LoadedStorage

(* The directory or the file cannot be opened or read: AM runs without.    *)
StartWithoutStorage ==
  /\ Starts
  /\ m_storage' = FALSE
  /\ storage' = NoStorage
  /\ UNCHANGED file

(* addApplication: the values of a hidden application are created as well, *)
(* but its object is dropped, as one is that the bus does not take.        *)
NewApplication(a, ok) ==
  /\ desktop[a] # "absent"
  /\ IF m_storage THEN Becomes(NewState(State, a, ok))
     ELSE UNCHANGED <<storage, file, history>>
  /\ \/ /\ desktop[a] = "shown"
        /\ listed' = listed \cup {a}
        /\ object' = [object EXCEPT ![a] =
             IF m_storage THEN NewObject(State, a, ok) ELSE UnstoredObject]
     \/ UNCHANGED <<listed, object>>

(* One desktop file of scanApplications; it may be gone by now.            *)
ScanApplication(a, ok) ==
  /\ am = "starting"
  /\ a \in toScan
  /\ toScan' = toScan \ {a}
  /\ \/ NewApplication(a, ok)
     \/ desktop[a] = "absent" /\ UNCHANGED <<storage, file, history, listed, object>>
  /\ UNCHANGED <<am, desktop, m_storage, finished>>

(* The end of initService: setFirstLaunch(false) and endBatchUpdate.       *)
FinishStart(ok) ==
  /\ am = "starting"
  /\ toScan = {}
  /\ am' = "up"
  /\ finished' = (finished \/ m_storage)
  /\ IF m_storage THEN Becomes(EndBatchUpdate(SetFirstLaunch(State, FALSE, ok), ok))
     ELSE UNCHANGED <<storage, file, history>>
  /\ UNCHANGED <<desktop, m_storage, toScan, listed, object>>

(* AM stops or crashes: nothing is written.                                *)
Stop ==
  /\ am # "down"
  /\ am' = "down"
  /\ m_storage' = FALSE
  /\ storage' = NoStorage
  /\ toScan' = {}
  /\ listed' = {}
  /\ object' = [a \in Apps |-> NoObject]
  /\ UNCHANGED <<disk, history, finished>>

-----------------------------------------------------------------------------
(* addApplication of a reload.                                             *)
AddApplication(a, ok) ==
  /\ am = "up"
  /\ a \notin listed
  /\ NewApplication(a, ok)
  /\ UNCHANGED <<am, desktop, m_storage, toScan, finished>>

(* removeOneApplication.                                                   *)
RemoveOneApplication(a, ok) ==
  /\ am = "up"
  /\ a \in listed
  /\ desktop[a] = "absent"
  /\ IF m_storage THEN Becomes(DeleteApplication(State, a, ok))
     ELSE UNCHANGED <<storage, file, history>>
  /\ listed' = listed \ {a}
  /\ object' = [object EXCEPT ![a] = NoObject]
  /\ UNCHANGED <<am, desktop, m_storage, toScan, finished>>

(* updateAfterLaunch: the first update is deferred, the second one writes  *)
(* both; the object follows only if that write succeeds.                   *)
Launched(s, a, times, ok) ==
  IF Has(s, a, "LastLaunchedTime")
  THEN UpdateApplicationValue(Put(s, a, "LastLaunchedTime", Now), a, "LaunchedTimes", times, ok)
  ELSE s

UpdateAfterLaunchFromStorage(a, ok) ==  \* mutant
  /\ am = "up" /\ m_storage
  /\ a \in listed
  /\ object[a]["LaunchedTimes"] < MaxLaunches
  /\ Becomes(Launched(State, a, storage.m_data.values[a]["LaunchedTimes"] + 1, ok))
  /\ object' = IF ok
       THEN [object EXCEPT ![a]["LastLaunchedTime"] = Now, ![a]["LaunchedTimes"] = @ + 1]
       ELSE object
  /\ UNCHANGED <<am, desktop, m_storage, toScan, listed, finished>>

UpdateAfterLaunch(a, ok) ==
  /\ am = "up" /\ m_storage
  /\ a \in listed
  /\ object[a]["LaunchedTimes"] < MaxLaunches
  /\ Becomes(Launched(State, a, object[a]["LaunchedTimes"] + 1, ok))
  /\ object' =
       IF Has(State, a, "LastLaunchedTime") /\ Has(State, a, "LaunchedTimes") /\ ok
       THEN [object EXCEPT ![a]["LastLaunchedTime"] = Now, ![a]["LaunchedTimes"] = @ + 1]
       ELSE object
  /\ UNCHANGED <<am, desktop, m_storage, toScan, listed, finished>>

(* The setter of Environ: the first value is created, later ones update    *)
(* it.  A failed update leaves the object alone; a failed creation gets    *)
(* the same error reply, but the object takes the value.                   *)
SetEnvironUncached(a, v, ok) ==  \* mutant
  /\ am = "up" /\ m_storage
  /\ a \in listed
  /\ object[a]["Environ"] # v
  /\ Becomes(IF Has(State, a, "Environ") THEN UpdateApplicationValue(State, a, "Environ", v, ok)
             ELSE CreateApplicationValue(State, a, "Environ", v, ok))
  /\ UNCHANGED <<am, desktop, m_storage, toScan, listed, object, finished>>

SetEnviron(a, v, ok) ==
  /\ am = "up" /\ m_storage
  /\ a \in listed
  /\ object[a]["Environ"] # v
  /\ \/ /\ Has(State, a, "Environ")
        /\ Becomes(UpdateApplicationValue(State, a, "Environ", v, ok))
        /\ object' = IF ok THEN [object EXCEPT ![a]["Environ"] = v] ELSE object
     \/ /\ ~ Has(State, a, "Environ")
        /\ Becomes(CreateApplicationValue(State, a, "Environ", v, ok))
        /\ object' = [object EXCEPT ![a]["Environ"] = v]
  /\ UNCHANGED <<am, desktop, m_storage, toScan, listed, finished>>

-----------------------------------------------------------------------------
Next ==
  \/ \E a \in Apps : DesktopChanges(a)
  \/ FileDamaged
  \/ Start
  \/ StartWithoutStorage
  \/ \E a \in Apps, ok \in [Numbers -> BOOLEAN] : ScanApplication(a, ok)
  \/ \E ok \in BOOLEAN : FinishStart(ok)
  \/ Stop
  \/ \E a \in Apps, ok \in [Numbers -> BOOLEAN] : AddApplication(a, ok)
  \/ \E a \in Apps, ok \in BOOLEAN : RemoveOneApplication(a, ok)
  \/ \E a \in Apps, ok \in BOOLEAN : UpdateAfterLaunch(a, ok)
  \/ \E a \in Apps, v \in Environs, ok \in BOOLEAN : SetEnviron(a, v, ok)

Spec == Init /\ [][Next]_vars

-----------------------------------------------------------------------------
(* Types of the variables.                                                 *)
TypeOK ==
  /\ am \in {"down", "starting", "up"}
  /\ desktop \in [Apps -> {"absent", "shown", "hidden"}]
  /\ file \in Data \cup {Empty, Garbage}
  /\ m_storage \in BOOLEAN
  /\ storage \in [m_data : Data, m_batchUpdate : BOOLEAN, m_pendingWrite : BOOLEAN]
  /\ listed \subseteq Apps
  /\ object \in [Apps -> [Keys -> Int \cup Environs]]
  /\ toScan \subseteq Apps
  /\ lastWrite \in BOOLEAN /\ allWrites \in BOOLEAN /\ finished \in BOOLEAN

(* No update stays in memory only: once AM is up, the file holds what      *)
(* m_data holds, unless the last write failed (deferred commits and the    *)
(* batch of the start are always followed by a write, and a write after a  *)
(* failed one makes up for it).                                            *)
NothingUnsaved ==
  (am = "up" /\ m_storage /\ lastWrite) => file = storage.m_data

(* What clients read of an application is what a crash and a restart would *)
(* bring back, if no write failed since AM started: the properties the     *)
(* objects cache never run ahead of, or behind, the file.                  *)
PropertiesDurable ==
  (am = "up" /\ m_storage /\ allWrites) =>
    \A a \in listed : \A k \in Keys :
       object[a][k] = IF k = "Environ" /\ file.values[a][k] = Null
                      THEN NoEnviron ELSE file.values[a][k]

(* The count of launches a client sees and the one that would be saved     *)
(* never drift: whichever writes failed, the storage is behind by nothing  *)
(* and ahead by one launch at most.                                        *)
CountersTogether ==
  m_storage => \A a \in listed :
    storage.m_data.values[a]["LaunchedTimes"]
      \in {object[a]["LaunchedTimes"], object[a]["LaunchedTimes"] + 1}

(* A first launch that is interrupted is a first launch again: until one   *)
(* start has come to its end, wherever earlier ones crashed, AM takes every *)
(* application it finds for one that was there before it, with no time of  *)
(* installation (the batch of initService holds all writes back, and any   *)
(* file with contents counts as one of an earlier launch).                 *)
FirstLaunchKept ==
  (m_storage /\ ~ finished) =>
    /\ storage.m_data.firstLaunch
    /\ \A a \in listed : object[a]["InstalledTime"] = 0

(* Only applications found by AM's first launch have no time of            *)
(* installation: one that is added later, and that the storage does not    *)
(* know, gets one.                                                         *)
AddedLaterHasTime ==
  [][\A a \in Apps :
       (/\ am = "up" /\ am' = "up" /\ m_storage
        /\ a \in listed' \ listed
        /\ storage.m_data.values[a]["InstalledTime"] = Null)
       => object'[a]["InstalledTime"] # 0]_vars

=============================================================================
