----------------------------- MODULE AppInstances -----------------------------
(***************************************************************************)
(* How the application manager (AM) keeps, for every application, the list *)
(* of its running instances: the D-Bus method Launch and the worker that   *)
(* runs app-launch-helper, systemd's units and the UnitNew, JobNew and     *)
(* UnitRemoved signals AM gets about them, the reload of the desktop       *)
(* files, which detaches instances, and the crash or restart of AM with    *)
(* its scan for running units                                              *)
(* (applicationservice.cpp, applicationmanager1service.cpp).               *)
(*                                                                         *)
(* Two kinds of units exist.  A launch starts a transient unit named after *)
(* the application and the instance id that Launch drew; a service is an   *)
(* ordinary unit such as dde-file-manager.service, for which AM draws a    *)
(* random instance id each time it adds an instance.                       *)
(***************************************************************************)
EXTENDS Naturals, Sequences, FiniteSets

CONSTANTS
  Apps,         \* application ids
  Singletons,   \* the applications with X-Deepin-Singleton=true
  Launches,     \* instance ids drawn by Launch; each names its unit
  Services,     \* units not started by AM that match the scan's patterns
  Uuids,        \* instance ids drawn for services
  UnitApp,      \* the application a unit's name denotes (processUnitName)
  LaunchTypes,  \* values of _launch_type callers specify
  Versions,     \* contents of a desktop file
  MaxResources, \* bound on the helpers one launch runs
  MaxQueue,     \* bound on the signals AM has not handled
  MaxRefused    \* bound on the launches whose record the storage refuses

Units == Launches \cup Services

ASSUME UnitsAssumption ==
  /\ Launches \cap Services = {}
  /\ Launches \cap Uuids = {}
  /\ UnitApp \in [Units -> Apps]
ASSUME BoundsAssumption ==
  MaxResources \in Nat \ {0} /\ MaxQueue \in Nat /\ MaxRefused \in Nat

Autostart == "autostart"  \* the launch type of an autostart launch
Unknown   == "unknown"    \* the launch type nobody specified
Absent    == "absent"     \* no desktop file, or no application
Broken    == "broken"     \* a desktop file that does not parse

ASSUME NamesAssumption ==
  /\ Unknown \notin LaunchTypes
  /\ Absent \notin Versions /\ Broken \notin Versions /\ Absent # Broken

Types == LaunchTypes \cup {Autostart, Unknown}
Ids   == Launches \cup Uuids

VARIABLES
  am,                   \* "down", "scanning" (subscribed to systemd) or "up"
  sessionFlag,          \* the file that says AM already ran in this session
  isNewSession,         \* ApplicationManager1Service::m_isNewSession
  disk,                 \* the desktop file of every application id
  entry,                \* m_applicationList and the m_entry of each application
  unit,                 \* systemd's view of every unit
  queue,                \* systemd's signals AM's event loop has not handled
  launch,               \* every launch: its type and its worker
  m_Instances,          \* the instances of all applications
  orphanedInstances,    \* the list that detachAllInstance fills
  bus,                  \* instance objects registered on D-Bus, by path
  m_pendingLaunchTypes, \* launches whose type waits for the unit
  m_splashInstanceIds,  \* launches whose splash screen is shown
  counted               \* history: how often this run of AM recorded each
                        \* launch, and whether a record of it was refused

startupVars  == <<am, sessionFlag, isNewSession>>
registryVars == <<m_Instances, orphanedInstances, bus>>
launchVars   == <<launch, m_pendingLaunchTypes, m_splashInstanceIds>>
vars == <<startupVars, disk, entry, unit, queue, registryVars, launchVars, counted>>

Instance == [app : Apps, id : Ids, unit : Units, type : Types]
Path(i)  == <<i.app, i.id>>
Paths(S) == {Path(i) : i \in S}

Signal == [sig : {"UnitNew", "JobNew", "UnitRemoved"}, unit : Units]

(* A launch is "running" while its worker's success and its type count;    *)
(* "failed" once a helper failed; "lost" once AM or the application object *)
(* that started it is gone (the helper may still be at work).              *)
Launch0 == [phase |-> "none", type |-> Unknown, resources |-> 0, left |-> 0,
            started |-> FALSE, waiting |-> FALSE]

Count0 == [times |-> 0, refused |-> FALSE]

Init ==
  /\ am = "down" /\ sessionFlag = FALSE /\ isNewSession = FALSE
  /\ disk \in [Apps -> Versions \cup {Absent}]
  /\ entry = [a \in Apps |-> Absent]
  /\ unit = [u \in Units |-> "unloaded"]
  /\ queue = <<>>
  /\ launch = [l \in Launches |-> Launch0]
  /\ m_Instances = {} /\ orphanedInstances = {} /\ bus = {}
  /\ m_pendingLaunchTypes = {} /\ m_splashInstanceIds = {}
  /\ counted = [l \in Launches |-> Count0]

Listed(a) == entry[a] # Absent
InstancesOf(a) == {i \in m_Instances : i.app = a}

-----------------------------------------------------------------------------
(* systemd.  A signal reaches AM only if AM is subscribed when it is sent. *)

Emit(u, sigs) ==
  /\ Len(queue) + Len(sigs) <= MaxQueue
  /\ queue' = IF am = "down" THEN queue
              ELSE queue \o [k \in DOMAIN sigs |-> [sig |-> sigs[k], unit |-> u]]

Move(u, from, to, sigs) ==
  /\ unit[u] = from
  /\ unit' = [unit EXCEPT ![u] = to]
  /\ Emit(u, sigs)

(* The model's bound on random ids: each queued signal of a service, the   *)
(* one to be sent and the scan find an unused id.                          *)
UuidsSuffice ==
  Cardinality({p \in bus : p[2] \in Uuids}) + Cardinality(Services)
    + Cardinality({k \in DOMAIN queue : queue[k].unit \in Services}) < Cardinality(Uuids)

UnitMoves(u) ==
  /\ u \in Launches \/ UuidsSuffice
  /\ \/ u \in Services /\ Move(u, "unloaded", "inactive", <<"UnitNew">>)
     \/ u \in Services /\ Move(u, "inactive", "active", <<"JobNew">>)
     \/ Move(u, "active", "inactive", <<>>)          \* the processes exit
     \/ Move(u, "active", "inactive", <<"JobNew">>)  \* a stop job
     \/ Move(u, "inactive", "unloaded", <<"UnitRemoved">>)
  /\ UNCHANGED <<startupVars, disk, entry, registryVars, launchVars, counted>>

DiskChanges(a) ==
  /\ \E v \in Versions \cup {Absent, Broken} : disk[a] # v /\ disk' = [disk EXCEPT ![a] = v]
  /\ UNCHANGED <<startupVars, entry, unit, queue, registryVars, launchVars, counted>>

-----------------------------------------------------------------------------
(* ApplicationService::addOneInstance: registering the object fails when   *)
(* an object is registered at its path.                                    *)
AddOneInstanceUnregistered(a, id, u, type) ==  \* mutant
  /\ m_Instances' = m_Instances \cup {[app |-> a, id |-> id, unit |-> u, type |-> type]}
  /\ bus' = bus \cup {<<a, id>>}

AddOneInstance(a, id, u, type) ==
  IF <<a, id>> \in bus
  THEN UNCHANGED <<m_Instances, bus>>
  ELSE /\ m_Instances' = m_Instances \cup {[app |-> a, id |-> id, unit |-> u, type |-> type]}
       /\ bus' = bus \cup {<<a, id>>}

(* updateAfterLaunch, of which only the launches AM started are kept here: *)
(* it adds one to the application's counter, unless the storage is gone or *)
(* refuses one of the two values.                                          *)
UpdateAfterLaunch(id) ==
  IF id \in Launches
  THEN \/ counted' = [counted EXCEPT ![id].times = @ + 1]
       \/ /\ Cardinality({l \in Launches : counted[l].refused}) < MaxRefused
          /\ counted' = [counted EXCEPT ![id].refused = TRUE]
  ELSE UNCHANGED counted

(* handleUnitStarted for a signal: a launch's type is taken from           *)
(* m_pendingLaunchTypes; it is gone if a helper failed meanwhile.  The     *)
(* instance is added even if the launch could not be recorded, and the     *)
(* launch is recorded even if the instance is there already.               *)
HandleUnitStarted(a, id, u) ==
  /\ UpdateAfterLaunch(id)
  /\ m_pendingLaunchTypes' = m_pendingLaunchTypes \ {id}
  /\ AddOneInstance(a, id, u,
       IF id \in m_pendingLaunchTypes THEN launch[id].type ELSE Unknown)

(* onUnitNew: a unit whose name carries no instance id gets a random one.  *)
FreeUuids == Uuids \ {p[2] : p \in bus}

InstanceIds(u) == IF u \in Launches THEN {u} ELSE FreeUuids

OnUnitNewOnce(u) ==  \* mutant
  IF Listed(UnitApp[u]) /\ InstancesOf(UnitApp[u]) = {}
  THEN \E id \in InstanceIds(u) : HandleUnitStarted(UnitApp[u], id, u)
  ELSE UNCHANGED <<m_Instances, bus, m_pendingLaunchTypes, counted>>

OnUnitNew(u) ==
  IF Listed(UnitApp[u])
  THEN \E id \in InstanceIds(u) : HandleUnitStarted(UnitApp[u], id, u)
  ELSE UNCHANGED <<m_Instances, bus, m_pendingLaunchTypes, counted>>

Handle(sig, u) ==
  /\ am = "up"
  /\ queue # <<>>
  /\ Head(queue) = [sig |-> sig, unit |-> u]
  /\ queue' = Tail(queue)
  /\ UNCHANGED <<startupVars, disk, entry, unit, launch, orphanedInstances>>

HandleUnitNew(u) ==
  /\ Handle("UnitNew", u)
  /\ OnUnitNew(u)
  /\ UNCHANGED m_splashInstanceIds

HandleJobNewAlways(u) ==  \* mutant
  /\ Handle("JobNew", u)
  /\ OnUnitNew(u)
  /\ UNCHANGED m_splashInstanceIds

(* The slot of SystemdJobNew: any job, of any type, on a unit of a listed  *)
(* application that has no instance counts as the start of one.            *)
HandleJobNew(u) ==
  /\ Handle("JobNew", u)
  /\ IF Listed(UnitApp[u]) /\ InstancesOf(UnitApp[u]) = {}
     THEN OnUnitNew(u)
     ELSE UNCHANGED <<m_Instances, bus, m_pendingLaunchTypes, counted>>
  /\ UNCHANGED m_splashInstanceIds

RemoveOneInstanceKeepsSplash(i) ==  \* mutant
  /\ m_Instances' = m_Instances \ {i}
  /\ bus' = bus \ {Path(i)}
  /\ UNCHANGED m_splashInstanceIds

(* removeOneInstance, which closes the splash of the instance.             *)
RemoveOneInstance(i) ==
  /\ m_Instances' = m_Instances \ {i}
  /\ bus' = bus \ {Path(i)}
  /\ m_splashInstanceIds' = m_splashInstanceIds \ {i.id}

HandleUnitRemovedIfAlone(u) ==  \* mutant
  /\ Handle("UnitRemoved", u)
  /\ IF \E i \in m_Instances : InstancesOf(UnitApp[u]) = {i} /\ i.unit = u
     THEN \E i \in InstancesOf(UnitApp[u]) : RemoveOneInstance(i)
     ELSE UNCHANGED <<m_Instances, bus, m_splashInstanceIds>>
  /\ UNCHANGED <<m_pendingLaunchTypes, counted>>

(* onUnitRemoved and handleUnitRemoved: one instance with the unit's path  *)
(* is removed, if the application is listed and has one.  The orphans are  *)
(* out of reach: orphanedInstances is `static inline` in a header, so the  *)
(* list onUnitRemoved searches is not the list detachAllInstance fills.    *)
HandleUnitRemoved(u) ==
  /\ Handle("UnitRemoved", u)
  /\ LET matching == {i \in InstancesOf(UnitApp[u]) : i.unit = u}
     IN  IF Listed(UnitApp[u]) /\ matching # {}
         THEN \E i \in matching : RemoveOneInstance(i)
         ELSE UNCHANGED <<m_Instances, bus, m_splashInstanceIds>>
  /\ UNCHANGED <<m_pendingLaunchTypes, counted>>

HandleSignal ==
  \E u \in Units : HandleUnitNew(u) \/ HandleJobNew(u) \/ HandleUnitRemoved(u)

-----------------------------------------------------------------------------
(* ApplicationService::Launch: one helper per resource, at least one.      *)
(* Without a new session an autostart launch gets an error reply, but is   *)
(* carried out.  An autostart launch and a launch of a singleton that has  *)
(* an instance show no splash.                                             *)
ShowsSplash(a, type) ==
  type # Autostart /\ ~ (a \in Singletons /\ InstancesOf(a) # {})

LaunchForgetsType(l, type, n) ==  \* mutant
  /\ am = "up"
  /\ Listed(UnitApp[l])
  /\ launch[l].phase = "none"
  /\ launch' = [launch EXCEPT ![l] =
       [phase |-> "running", type |-> type, resources |-> n, left |-> n,
        started |-> FALSE, waiting |-> FALSE]]
  /\ m_splashInstanceIds' =
       IF ShowsSplash(UnitApp[l], type) THEN m_splashInstanceIds \cup {l} ELSE m_splashInstanceIds
  /\ UNCHANGED <<startupVars, disk, entry, unit, queue, registryVars, counted,
                 m_pendingLaunchTypes>>

Launch(l, type, n) ==
  /\ am = "up"
  /\ Listed(UnitApp[l])
  /\ launch[l].phase = "none"
  /\ launch' = [launch EXCEPT ![l] =
       [phase |-> "running", type |-> type, resources |-> n, left |-> n,
        started |-> FALSE, waiting |-> FALSE]]
  /\ m_pendingLaunchTypes' = m_pendingLaunchTypes \cup {l}
  /\ m_splashInstanceIds' =
       IF ShowsSplash(UnitApp[l], type) THEN m_splashInstanceIds \cup {l} ELSE m_splashInstanceIds
  /\ UNCHANGED <<startupVars, disk, entry, unit, queue, registryVars, counted>>

(* The worker runs app-launch-helper, which asks systemd for the transient *)
(* unit and waits for its start job.  All helpers of a launch name the     *)
(* same unit, so systemd refuses the later ones while it is loaded.        *)
HelperStartsUnitAgain(l) ==  \* mutant
  /\ launch[l].phase # "none"
  /\ launch' = [launch EXCEPT ![l].left = @ - 1, ![l].started = TRUE,
                                   ![l].waiting = TRUE]
  /\ Move(l, "unloaded", "active", <<"UnitNew", "JobNew">>)
  /\ UNCHANGED <<startupVars, disk, entry, registryVars, m_pendingLaunchTypes,
                 m_splashInstanceIds, counted>>

HelperStartsUnit(l) ==
  /\ launch[l].left > 0
  /\ launch' = [launch EXCEPT ![l].left = @ - 1, ![l].started = TRUE,
                                   ![l].waiting = TRUE]
  /\ Move(l, "unloaded", "active", <<"UnitNew", "JobNew">>)
  /\ UNCHANGED <<startupVars, disk, entry, registryVars, m_pendingLaunchTypes,
                 m_splashInstanceIds, counted>>

(* The branch of the worker for a helper that exits with an error: systemd *)
(* refused the unit, or its start job failed.  The splash stays.           *)
HelperFails(l) ==
  /\ \/ launch[l].left > 0 /\ launch' = [launch EXCEPT ![l].left = @ - 1,
          ![l].phase = IF @ = "running" THEN "failed" ELSE @]
     \/ launch[l].waiting /\ launch' = [launch EXCEPT ![l].waiting = FALSE,
          ![l].phase = IF @ = "running" THEN "failed" ELSE @]
  /\ m_pendingLaunchTypes' = m_pendingLaunchTypes \ {l}
  /\ UNCHANGED <<startupVars, disk, entry, unit, queue, registryVars, m_splashInstanceIds,
                 counted>>

(* A helper that exits with 0, or that waitForFinished gave up on after    *)
(* its 30 seconds (its exit code then reads 0 and the helper is killed).   *)
HelperReturns(l) ==
  /\ \/ launch[l].left > 0 /\ launch' = [launch EXCEPT ![l].left = @ - 1]
     \/ launch[l].waiting /\ launch' = [launch EXCEPT ![l].waiting = FALSE]
  /\ UNCHANGED <<startupVars, disk, entry, unit, queue, registryVars, m_pendingLaunchTypes,
                 m_splashInstanceIds, counted>>

-----------------------------------------------------------------------------
(* detachAllInstance for a set of applications: their instances become     *)
(* orphans and stay on the bus, their splashes are closed.                 *)
OfApps(S) == {l \in Launches : UnitApp[l] \in S}

DetachAllInstance(S) ==
  /\ orphanedInstances' = orphanedInstances \cup {i \in m_Instances : i.app \in S}
  /\ m_Instances' = {i \in m_Instances : i.app \notin S}
  /\ m_splashInstanceIds' = m_splashInstanceIds \ OfApps(S)
  /\ UNCHANGED bus

(* doReloadApplications.  updateApplication keeps the entry when the file  *)
(* does not parse, and detaches when the entry differs; removeOneApplica-  *)
(* tion destroys the application object, with what it knows of launches.   *)
ReloadedUnparsed(a) == IF disk[a] = Broken THEN Absent ELSE disk[a]  \* mutant

Reloaded(a) == IF disk[a] = Broken THEN entry[a] ELSE disk[a]

DoReloadApplications ==
  LET detached == {a \in Apps : Listed(a) /\ Reloaded(a) # entry[a]}
      removed  == {a \in detached : Reloaded(a) = Absent}
  IN  /\ am = "up"
      /\ entry' = [a \in Apps |-> Reloaded(a)]
      /\ DetachAllInstance(detached)
      /\ m_pendingLaunchTypes' = m_pendingLaunchTypes \ OfApps(removed)
      /\ launch' = [l \in Launches |->
           IF l \in OfApps(removed) /\ launch[l].phase # "none"
           THEN [launch[l] EXCEPT !.phase = "lost"] ELSE launch[l]]
      /\ UNCHANGED <<startupVars, disk, unit, queue, counted>>

-----------------------------------------------------------------------------
(* AM stops or crashes; its helpers die with it, the units do not.         *)
Stop ==
  /\ am # "down"
  /\ am' = "down"
  /\ queue' = <<>>
  /\ entry' = [a \in Apps |-> Absent]
  /\ m_Instances' = {} /\ orphanedInstances' = {} /\ bus' = {}
  /\ m_pendingLaunchTypes' = {} /\ m_splashInstanceIds' = {}
  /\ launch' = [l \in Launches |->
       IF launch[l].phase = "none" THEN launch[l]
       ELSE [launch[l] EXCEPT !.phase = "lost", !.left = 0, !.waiting = FALSE]]
  /\ counted' = [l \in Launches |-> Count0]
  /\ UNCHANGED <<sessionFlag, isNewSession, disk, unit>>

(* initService, first part: subscribe to systemd's signals.                *)
Subscribe ==
  /\ am = "down"
  /\ am' = "scanning"
  /\ UNCHANGED <<sessionFlag, isNewSession, disk, entry, unit, queue, registryVars, launchVars,
                 counted>>

(* initService, the rest, on the main thread: scanApplications reads the   *)
(* desktop files, scanInstances adds an instance for each active service   *)
(* of a listed application, and the session's flag file is written.        *)
ScanInstances(found) ==
  \E id \in [found -> Uuids] :
     /\ \A s, t \in found : s # t => id[s] # id[t]
     /\ m_Instances' = {[app |-> UnitApp[s], id |-> id[s], unit |-> s, type |-> Unknown]
                          : s \in found}
     /\ bus' = {<<UnitApp[s], id[s]>> : s \in found}

Scan ==
  /\ am = "scanning"
  /\ am' = "up"
  /\ entry' = [a \in Apps |-> IF disk[a] = Broken THEN Absent ELSE disk[a]]
  /\ ScanInstances({s \in Services : unit[s] = "active" /\ disk[UnitApp[s]] \in Versions})
  /\ isNewSession' = ~ sessionFlag
  /\ sessionFlag' = TRUE
  /\ UNCHANGED <<disk, unit, queue, orphanedInstances, launchVars, counted>>

-----------------------------------------------------------------------------
Next ==
  \/ \E u \in Units : UnitMoves(u)
  \/ \E a \in Apps : DiskChanges(a)
  \/ \E u \in Units : HandleUnitNew(u)
  \/ \E u \in Units : HandleJobNew(u)
  \/ \E u \in Units : HandleUnitRemoved(u)
  \/ \E l \in Launches, type \in Types, n \in 1..MaxResources : Launch(l, type, n)
  \/ \E l \in Launches : HelperStartsUnit(l)
  \/ \E l \in Launches : HelperFails(l)
  \/ \E l \in Launches : HelperReturns(l)
  \/ DoReloadApplications
  \/ Stop
  \/ Subscribe
  \/ Scan

Spec == Init /\ [][Next]_vars

(* AM's event loop turns: a queued signal is handled while AM is up.       *)
FairSpec == Spec /\ WF_vars(HandleSignal)

-----------------------------------------------------------------------------
(* Types of the variables.                                                 *)
TypeOK ==
  /\ am \in {"down", "scanning", "up"}
  /\ sessionFlag \in BOOLEAN /\ isNewSession \in BOOLEAN
  /\ disk \in [Apps -> Versions \cup {Absent, Broken}]
  /\ entry \in [Apps -> Versions \cup {Absent}]
  /\ unit \in [Units -> {"unloaded", "inactive", "active"}]
  /\ queue \in Seq(Signal)
  /\ launch \in [Launches -> [phase : {"none", "running", "failed", "lost"}, type : Types,
                              resources : Nat, left : Nat, started : BOOLEAN, waiting : BOOLEAN]]
  /\ m_Instances \subseteq Instance /\ orphanedInstances \subseteq Instance
  /\ bus \subseteq Apps \X Ids
  /\ m_pendingLaunchTypes \subseteq Launches /\ m_splashInstanceIds \subseteq Launches
  /\ counted \in [Launches -> [times : Nat, refused : BOOLEAN]]

(* The objects on the bus are exactly the listed instances and the         *)
(* orphans, one object per path, whatever reloads, repeated UnitNew and    *)
(* JobNew retries did (addOneInstance, removeOneInstance, detachAllInstance*)
(* agree), and a listed instance belongs to a listed application.          *)
BusIsRegistry ==
  LET known == m_Instances \cup orphanedInstances
  IN  /\ bus = Paths(known)
      /\ \A i, j \in known : Path(i) = Path(j) => i = j
      /\ m_Instances \cap orphanedInstances = {}
      /\ \A i \in m_Instances : Listed(i.app) /\ i.app = UnitApp[i.unit]

(* A listed instance of a launch is backed by its unit: the unit is loaded *)
(* or its UnitRemoved is on the way, whatever the order of launches,       *)
(* retries, reloads and restarts.  (Of services this is not true: one that *)
(* starts while AM starts is added twice, and removed once.)               *)
InstanceBacked ==
  \A i \in m_Instances : i.unit \in Launches =>
     \/ unit[i.unit] # "unloaded"
     \/ \E k \in DOMAIN queue : queue[k] = [sig |-> "UnitRemoved", unit |-> i.unit]

(* The type given to Launch reaches the instance, although the worker, the *)
(* signals and reloads race: unless a helper of the launch failed, the     *)
(* application object was replaced or the launch started several helpers.  *)
LaunchTypeKept ==
  \A i \in m_Instances :
     (/\ i.unit \in Launches
      /\ launch[i.unit].phase = "running"
      /\ launch[i.unit].resources = 1) => i.type = launch[i.unit].type

(* No splash outlives the unit it was shown for: once a launch's unit has  *)
(* come and gone, and the signals about it are handled, the splash is      *)
(* closed.  Only a launch whose unit never existed keeps its splash.       *)
SplashBacked ==
  \A l \in m_splashInstanceIds :
     \/ unit[l] # "unloaded"
     \/ \E k \in DOMAIN queue : queue[k].unit = l
     \/ ~ launch[l].started

(* A launch counts once.  systemd reports a start twice, by UnitNew and by *)
(* JobNew, and a stop by another JobNew; whichever of them AM takes for    *)
(* the start, while the file comes and goes, a launch of one helper adds   *)
(* at most one to the stored launch counter, and exactly one when its      *)
(* instance is listed, unless the storage refused.  (Not if a reload       *)
(* detached the instance: the JobNew of the orphan then counts again.)     *)
LaunchCountedOnce ==
  \A l \in Launches :
     (launch[l].resources = 1 /\ \A i \in orphanedInstances : i.unit # l) =>
        /\ counted[l].times <= 1
        /\ (\E i \in m_Instances : i.unit = l) =>
              counted[l].times = 1 \/ counted[l].refused

(* An instance loses its application only to a change of the application's *)
(* own desktop file that AM could parse, or to its removal: neither a file *)
(* caught half-written nor another application's update detaches it.       *)
DetachNeedsChange ==
  [][\A i \in m_Instances :
       i \in orphanedInstances' => disk[i.app] \notin {entry[i.app], Broken}]_vars

(* A unit that is gone does not stay listed.                               *)
GoneUnitForgotten ==
  \A l \in Launches :
     (unit[l] = "unloaded" /\ \E i \in m_Instances : i.unit = l)
       ~> (unit[l] # "unloaded" \/ \A i \in m_Instances : i.unit # l)

(* The unit of a launch that AM still knows gets listed (or is detached by *)
(* a change of the desktop file, or goes away first).                      *)
StartedUnitListed ==
  \A l \in Launches :
     (am = "up" /\ launch[l].phase = "running" /\ unit[l] = "active")
       ~> (\/ \E i \in m_Instances \cup orphanedInstances : i.unit = l
           \/ am # "up" \/ launch[l].phase # "running" \/ unit[l] # "active")
=============================================================================
