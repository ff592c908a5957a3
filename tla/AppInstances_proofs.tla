-------------------------- MODULE AppInstances_proofs --------------------------
(***************************************************************************)
(* Proofs about the instance lists: type correctness, the agreement of the *)
(* lists with the objects on the bus, that a listed instance of a launch   *)
(* is backed by its unit, that a splash does not outlive its unit, that    *)
(* the type given to Launch reaches the instance, and that a launch counts *)
(* once -- for any applications, launches and services, and any bounds on  *)
(* the queue of signals and on refused records.                            *)
(***************************************************************************)
EXTENDS AppInstances, TLAPS

LaunchState == [phase : {"none", "running", "failed", "lost"}, type : Types,
                resources : Nat, left : Nat, started : BOOLEAN, waiting : BOOLEAN]

SigNames == {"UnitNew", "JobNew", "UnitRemoved"}

(* A unit denotes an application; a launch's id is no service's random id. *)
LEMMA UnitAppType == \A u \in Units : UnitApp[u] \in Apps
  BY UnitsAssumption

(* The signals of a unit's move join the end of the queue, unless AM is    *)
(* not subscribed.                                                         *)
LEMMA EmitQueue ==
  ASSUME queue \in Seq(Signal), NEW u \in Units, NEW sigs \in Seq(SigNames), Emit(u, sigs)
  PROVE  /\ queue' \in Seq(Signal)
         /\ am = "down" => queue' = queue
         /\ am # "down" =>
              /\ Len(queue') = Len(queue) + Len(sigs)
              /\ \A k \in 1..Len(queue) : queue'[k] = queue[k]
              /\ \A k \in 1..Len(sigs) :
                    queue'[Len(queue) + k] = [sig |-> sigs[k], unit |-> u]
<1>. DEFINE new == [k \in DOMAIN sigs |-> [sig |-> sigs[k], unit |-> u]]
<1>1. \A k \in DOMAIN sigs : [sig |-> sigs[k], unit |-> u] \in Signal
  BY DEF Signal, SigNames
<1>2. new \in Seq(Signal) /\ Len(new) = Len(sigs)
      /\ \A k \in 1..Len(sigs) : new[k] = [sig |-> sigs[k], unit |-> u]
  BY <1>1
<1>. HIDE DEF new
<1>3. CASE am = "down"
  BY <1>3 DEF Emit
<1>4. CASE am # "down"
  <2>1. queue' = queue \o new
    BY <1>4 DEF Emit, new
  <2>2. queue \o new \in Seq(Signal) /\ Len(queue \o new) = Len(queue) + Len(new)
    BY <1>2
  <2>3. \A k \in 1..Len(queue) : (queue \o new)[k] = queue[k]
    BY <1>2
  <2>4. \A k \in 1..Len(new) : (queue \o new)[Len(queue) + k] = new[k]
    BY <1>2
  <2>. QED  BY <1>2, <1>4, <2>1, <2>2, <2>3, <2>4
<1>. QED  BY <1>3, <1>4

(* The signals that the moves of a unit emit.                              *)
LEMMA SigSeqs ==
  /\ <<>> \in Seq(SigNames) /\ <<"UnitNew">> \in Seq(SigNames)
  /\ <<"JobNew">> \in Seq(SigNames) /\ <<"UnitRemoved">> \in Seq(SigNames)
  /\ <<"UnitNew", "JobNew">> \in Seq(SigNames)
BY DEF SigNames

(* Handling a signal takes the first one off the queue.                    *)
LEMMA HandleQueue ==
  ASSUME queue \in Seq(Signal), NEW sig, NEW u, Handle(sig, u)
  PROVE  /\ queue' \in Seq(Signal)
         /\ Len(queue') = Len(queue) - 1 /\ Len(queue) > 0
         /\ queue[1] = [sig |-> sig, unit |-> u]
         /\ \A k \in 1..Len(queue') : queue'[k] = queue[k + 1]
BY DEF Handle

-----------------------------------------------------------------------------
(* addOneInstance keeps the types of the lists.                            *)
LEMMA AddOneInstanceType ==
  ASSUME TypeOK, NEW u \in Units, NEW id \in Ids, NEW t \in Types,
         AddOneInstance(UnitApp[u], id, u, t)
  PROVE  m_Instances' \subseteq Instance /\ bus' \subseteq Apps \X Ids
BY UnitAppType DEF AddOneInstance, TypeOK, Instance

(* The type handleUnitStarted gives an instance is a launch type.          *)
LEMMA StartedType ==
  ASSUME TypeOK, NEW id \in Ids
  PROVE  (IF id \in m_pendingLaunchTypes THEN launch[id].type ELSE Unknown) \in Types
BY DEF TypeOK, Types

(* updateAfterLaunch adds one to the launch's count, or says that it was   *)
(* refused.                                                                *)
CountState == [times : Nat, refused : BOOLEAN]

LEMMA UpdateType ==
  ASSUME TypeOK, NEW id, UpdateAfterLaunch(id)
  PROVE  /\ counted' \in [Launches -> CountState]
         /\ \A l \in Launches : l # id => counted'[l] = counted[l]
         /\ id \in Launches =>
              \/ counted'[id].times = counted[id].times + 1
              \/ counted'[id].times = counted[id].times /\ counted'[id].refused
<1>1. counted \in [Launches -> CountState]
  BY DEF TypeOK, CountState
<1>2. CASE id \in Launches /\ counted' = [counted EXCEPT ![id].times = @ + 1]
  <2>1. /\ counted[id] \in CountState
        /\ counted'[id] = [counted[id] EXCEPT !.times = @ + 1]
        /\ counted' = [counted EXCEPT ![id] = counted'[id]]
    BY <1>1, <1>2
  <2>2. counted'[id] \in CountState /\ counted'[id].times = counted[id].times + 1
    BY <2>1 DEF CountState
  <2>. QED  BY <1>1, <2>1, <2>2
<1>3. CASE id \in Launches /\ counted' = [counted EXCEPT ![id].refused = TRUE]
  <2>1. /\ counted[id] \in CountState
        /\ counted'[id] = [counted[id] EXCEPT !.refused = TRUE]
        /\ counted' = [counted EXCEPT ![id] = counted'[id]]
    BY <1>1, <1>3
  <2>2. /\ counted'[id] \in CountState
        /\ counted'[id].times = counted[id].times /\ counted'[id].refused
    BY <2>1 DEF CountState
  <2>. QED  BY <1>1, <2>1, <2>2
<1>4. CASE id \notin Launches
  BY <1>1, <1>4 DEF UpdateAfterLaunch
<1>. QED  BY <1>2, <1>3, <1>4 DEF UpdateAfterLaunch

LEMMA OnUnitNewType ==
  ASSUME TypeOK, NEW u \in Units, OnUnitNew(u)
  PROVE  /\ m_Instances' \subseteq Instance /\ bus' \subseteq Apps \X Ids
         /\ m_pendingLaunchTypes' \subseteq Launches /\ counted' \in [Launches -> CountState]
<1>1. CASE Listed(UnitApp[u])
  <2>1. PICK id \in InstanceIds(u) : HandleUnitStarted(UnitApp[u], id, u)
    BY <1>1 DEF OnUnitNew
  <2>2. id \in Ids
    BY DEF InstanceIds, FreeUuids, Ids
  <2>3. m_Instances' \subseteq Instance /\ bus' \subseteq Apps \X Ids
    BY <2>1, <2>2, StartedType, AddOneInstanceType DEF HandleUnitStarted
  <2>4. counted' \in [Launches -> CountState]
    BY <2>1, UpdateType DEF HandleUnitStarted
  <2>. QED  BY <2>1, <2>3, <2>4 DEF HandleUnitStarted, TypeOK
<1>2. CASE ~ Listed(UnitApp[u])
  BY <1>2 DEF OnUnitNew, TypeOK, CountState
<1>. QED  BY <1>1, <1>2

(* What the worker does to the record of a launch keeps the record's type. *)
LEMMA LaunchStep ==
  ASSUME TypeOK, NEW l \in Launches,
         HelperStartsUnit(l) \/ HelperFails(l) \/ HelperReturns(l)
  PROVE  launch' \in [Launches -> LaunchState]
<1>. DEFINE r == launch[l]
<1>1. r \in LaunchState /\ launch \in [Launches -> LaunchState]
  BY DEF TypeOK, LaunchState
<1>2. (IF r.phase = "running" THEN "failed" ELSE r.phase)
        \in {"none", "running", "failed", "lost"}
  BY <1>1 DEF LaunchState
<1>3. r.left > 0 => r.left - 1 \in Nat
  BY <1>1 DEF LaunchState
<1>4. CASE HelperStartsUnit(l)
  <2>1. [r EXCEPT !.left = @ - 1, !.started = TRUE, !.waiting = TRUE] \in LaunchState
    BY <1>1, <1>3, <1>4 DEF HelperStartsUnit, LaunchState
  <2>2. launch' = [launch EXCEPT ![l] =
          [r EXCEPT !.left = @ - 1, !.started = TRUE, !.waiting = TRUE]]
    BY <1>1, <1>4 DEF HelperStartsUnit, LaunchState
  <2>. QED  BY <1>1, <2>1, <2>2
<1>5. CASE HelperFails(l)
  <2>. DEFINE phase == IF r.phase = "running" THEN "failed" ELSE r.phase
  <2>1. r.left > 0 => [r EXCEPT !.left = @ - 1, !.phase = phase] \in LaunchState
    BY <1>1, <1>2, <1>3 DEF LaunchState
  <2>2. [r EXCEPT !.waiting = FALSE, !.phase = phase] \in LaunchState
    BY <1>1, <1>2 DEF LaunchState
  <2>3. \/ /\ r.left > 0
           /\ launch' = [launch EXCEPT ![l] = [r EXCEPT !.left = @ - 1, !.phase = phase]]
        \/ launch' = [launch EXCEPT ![l] = [r EXCEPT !.waiting = FALSE, !.phase = phase]]
    BY <1>1, <1>5 DEF HelperFails, LaunchState
  <2>. QED  BY <1>1, <2>1, <2>2, <2>3
<1>6. CASE HelperReturns(l)
  <2>1. r.left > 0 => [r EXCEPT !.left = @ - 1] \in LaunchState
    BY <1>1, <1>3 DEF LaunchState
  <2>2. [r EXCEPT !.waiting = FALSE] \in LaunchState
    BY <1>1 DEF LaunchState
  <2>3. \/ r.left > 0 /\ launch' = [launch EXCEPT ![l] = [r EXCEPT !.left = @ - 1]]
        \/ launch' = [launch EXCEPT ![l] = [r EXCEPT !.waiting = FALSE]]
    BY <1>1, <1>6 DEF HelperReturns, LaunchState
  <2>. QED  BY <1>1, <2>1, <2>2, <2>3
<1>. QED  BY <1>4, <1>5, <1>6

(* The variables have their types initially.                               *)
LEMMA InitTypeOK == Init => TypeOK
<1>. SUFFICES ASSUME Init PROVE TypeOK
  OBVIOUS
<1>1. Launch0 \in LaunchState
  BY DEF Launch0, LaunchState, Types
<1>2. launch \in [Launches -> LaunchState]
  BY <1>1 DEF Init
<1>3. disk \in [Apps -> Versions \cup {Absent, Broken}]
  BY DEF Init
<1>4. queue \in Seq(Signal)
  BY DEF Init
<1>5. counted \in [Launches -> CountState]
  BY DEF Init, Count0, CountState
<1>. QED  BY <1>2, <1>3, <1>4, <1>5 DEF Init, TypeOK, LaunchState, CountState

(* Every step of AM, systemd and the launch workers keeps the types.       *)
LEMMA NextTypeOK == TypeOK /\ [Next]_vars => TypeOK'
<1>. SUFFICES ASSUME TypeOK, [Next]_vars PROVE TypeOK'
  OBVIOUS
<1>1. ASSUME NEW u \in Units, UnitMoves(u) PROVE TypeOK'
  <2>1. PICK from \in {"unloaded", "inactive", "active"},
             to \in {"unloaded", "inactive", "active"},
             sigs \in Seq(SigNames) : Move(u, from, to, sigs)
    BY <1>1, SigSeqs DEF UnitMoves
  <2>2. queue' \in Seq(Signal)
    BY <2>1, EmitQueue DEF Move, TypeOK
  <2>. QED  BY <1>1, <2>1, <2>2
       DEF UnitMoves, Move, TypeOK, startupVars, registryVars, launchVars
<1>2. ASSUME NEW a \in Apps, DiskChanges(a) PROVE TypeOK'
  BY <1>2 DEF DiskChanges, TypeOK, startupVars, registryVars, launchVars
<1>3. ASSUME NEW u \in Units, HandleUnitNew(u) PROVE TypeOK'
  BY <1>3, HandleQueue, OnUnitNewType
     DEF HandleUnitNew, Handle, TypeOK, CountState, startupVars
<1>4. ASSUME NEW u \in Units, HandleJobNew(u) PROVE TypeOK'
  BY <1>4, HandleQueue, OnUnitNewType
     DEF HandleJobNew, Handle, TypeOK, CountState, startupVars
<1>5. ASSUME NEW u \in Units, HandleUnitRemoved(u) PROVE TypeOK'
  <2>1. /\ m_Instances' \subseteq m_Instances /\ bus' \subseteq bus
        /\ m_splashInstanceIds' \subseteq m_splashInstanceIds
    BY <1>5 DEF HandleUnitRemoved, RemoveOneInstance
  <2>. QED  BY <1>5, <2>1, HandleQueue DEF HandleUnitRemoved, Handle, TypeOK, startupVars
<1>6. ASSUME NEW l \in Launches, NEW t \in Types, NEW n \in 1..MaxResources, Launch(l, t, n)
      PROVE  TypeOK'
  <2>1. launch' \in [Launches -> LaunchState]
    <3>1. [phase |-> "running", type |-> t, resources |-> n, left |-> n,
           started |-> FALSE, waiting |-> FALSE] \in LaunchState
      BY BoundsAssumption DEF LaunchState
    <3>. QED  BY <1>6, <3>1 DEF Launch, TypeOK, LaunchState
  <2>. QED  BY <1>6, <2>1 DEF Launch, TypeOK, LaunchState, startupVars, registryVars
<1>7. ASSUME NEW l \in Launches, HelperStartsUnit(l) PROVE TypeOK'
  <2>1. queue' \in Seq(Signal)
    BY <1>7, EmitQueue, SigSeqs DEF HelperStartsUnit, Move, TypeOK, Units
  <2>2. launch' \in [Launches -> LaunchState]
    BY <1>7, LaunchStep
  <2>3. unit' \in [Units -> {"unloaded", "inactive", "active"}]
    BY <1>7 DEF HelperStartsUnit, Move, TypeOK
  <2>. QED  BY <1>7, <2>1, <2>2, <2>3
       DEF HelperStartsUnit, TypeOK, LaunchState, startupVars, registryVars
<1>8. ASSUME NEW l \in Launches, HelperFails(l) PROVE TypeOK'
  <2>1. launch' \in [Launches -> LaunchState]
    BY <1>8, LaunchStep
  <2>. QED  BY <1>8, <2>1 DEF HelperFails, TypeOK, LaunchState, startupVars, registryVars
<1>9. ASSUME NEW l \in Launches, HelperReturns(l) PROVE TypeOK'
  <2>1. launch' \in [Launches -> LaunchState]
    BY <1>9, LaunchStep
  <2>. QED  BY <1>9, <2>1 DEF HelperReturns, TypeOK, LaunchState, startupVars, registryVars
<1>10. CASE DoReloadApplications
  <2>1. \A a \in Apps : Reloaded(a) \in Versions \cup {Absent}
    BY DEF TypeOK, Reloaded
  <2>2. \A l \in Launches : launch'[l] \in LaunchState
    <3>0. \A l \in Launches : launch[l] \in LaunchState
      BY DEF TypeOK, LaunchState
    <3>1. \A l \in Launches : launch[l] \in LaunchState
                             /\ [launch[l] EXCEPT !.phase = "lost"] \in LaunchState
      BY <3>0 DEF LaunchState
    <3>. QED  BY <1>10, <3>1 DEF DoReloadApplications
  <2>3. launch' \in [Launches -> LaunchState]
    <3>1. launch' = [l \in Launches |-> launch'[l]]
      BY <1>10 DEF DoReloadApplications
    <3>. QED  BY <2>2, <3>1
  <2>4. entry' \in [Apps -> Versions \cup {Absent}]
    BY <1>10, <2>1 DEF DoReloadApplications
  <2>. QED  BY <1>10, <2>3, <2>4
       DEF DoReloadApplications, DetachAllInstance, TypeOK, LaunchState, startupVars
<1>11. CASE Stop
  <2>1. \A l \in Launches : launch'[l] \in LaunchState
    <3>0. \A l \in Launches : launch[l] \in LaunchState
      BY DEF TypeOK, LaunchState
    <3>1. \A l \in Launches :
            /\ launch[l] \in LaunchState
            /\ [launch[l] EXCEPT !.phase = "lost", !.left = 0, !.waiting = FALSE]
                 \in LaunchState
      BY <3>0 DEF LaunchState
    <3>. QED  BY <1>11, <3>1 DEF Stop
  <2>2. launch' \in [Launches -> LaunchState]
    <3>1. launch' = [l \in Launches |-> launch'[l]]
      BY <1>11 DEF Stop
    <3>. QED  BY <2>1, <3>1
  <2>3. entry' \in [Apps -> Versions \cup {Absent}]
    BY <1>11 DEF Stop
  <2>4. queue' \in Seq(Signal)
    <3>1. queue' = <<>>
      BY <1>11 DEF Stop
    <3>. QED  BY <3>1
  <2>5. counted' \in [Launches -> CountState]
    BY <1>11 DEF Stop, Count0, CountState
  <2>. QED  BY <1>11, <2>2, <2>3, <2>4, <2>5 DEF Stop, TypeOK, LaunchState, CountState
<1>12. CASE Subscribe
  BY <1>12 DEF Subscribe, TypeOK, registryVars, launchVars
<1>13. CASE Scan
  <2>. DEFINE found == {s \in Services : unit[s] = "active" /\ disk[UnitApp[s]] \in Versions}
  <2>1. PICK id \in [found -> Uuids] :
          /\ m_Instances' = {[app |-> UnitApp[s], id |-> id[s], unit |-> s, type |-> Unknown]
                               : s \in found}
          /\ bus' = {<<UnitApp[s], id[s]>> : s \in found}
    BY <1>13 DEF Scan, ScanInstances
  <2>2. \A s \in found : UnitApp[s] \in Apps /\ id[s] \in Ids /\ s \in Units
    BY UnitAppType DEF Units, Ids
  <2>3. m_Instances' \subseteq Instance /\ bus' \subseteq Apps \X Ids
    BY <2>1, <2>2 DEF Instance, Types
  <2>. QED  BY <1>13, <2>3 DEF Scan, TypeOK, launchVars
<1>14. CASE UNCHANGED vars
  BY <1>14 DEF vars, startupVars, registryVars, launchVars, TypeOK
<1>. QED  BY <1>1, <1>2, <1>3, <1>4, <1>5, <1>6, <1>7, <1>8, <1>9, <1>10, <1>11, <1>12,
             <1>13, <1>14 DEF Next

(* The variables always have their types, whatever the constants.          *)
THEOREM TypeCorrect == Spec => []TypeOK
  BY InitTypeOK, NextTypeOK, PTL DEF Spec

-----------------------------------------------------------------------------
(* The registry.  Adding refuses a path in use, removing takes the only    *)
(* instance at its path, detaching moves instances from one list to the    *)
(* other.                                                                  *)
LEMMA AddRegistry ==
  ASSUME BusIsRegistry, NEW u \in Units, NEW id, NEW t, Listed(UnitApp[u]),
         AddOneInstance(UnitApp[u], id, u, t), UNCHANGED <<orphanedInstances, entry>>
  PROVE  BusIsRegistry'
<1>. DEFINE new == [app |-> UnitApp[u], id |-> id, unit |-> u, type |-> t]
<1>1. CASE <<UnitApp[u], id>> \in bus
  BY <1>1 DEF AddOneInstance, BusIsRegistry, Listed
<1>2. CASE <<UnitApp[u], id>> \notin bus
  <2>1. m_Instances' = m_Instances \cup {new} /\ bus' = bus \cup {Path(new)}
    BY <1>2 DEF AddOneInstance, Path
  <2>2. \A i \in m_Instances \cup orphanedInstances : Path(i) # Path(new)
    BY <1>2 DEF BusIsRegistry, Paths, Path
  <2>3. bus' = Paths(m_Instances' \cup orphanedInstances')
    BY <2>1 DEF BusIsRegistry, Paths
  <2>4. \A i, j \in m_Instances' \cup orphanedInstances' : Path(i) = Path(j) => i = j
    BY <2>1, <2>2 DEF BusIsRegistry
  <2>5. m_Instances' \cap orphanedInstances' = {}
    BY <2>1, <2>2 DEF BusIsRegistry
  <2>6. \A i \in m_Instances' : Listed(i.app)' /\ i.app = UnitApp[i.unit]
    BY <2>1 DEF BusIsRegistry, Listed
  <2>. QED  BY <2>3, <2>4, <2>5, <2>6 DEF BusIsRegistry, Paths, Path
<1>. QED  BY <1>1, <1>2

LEMMA RemoveRegistry ==
  ASSUME BusIsRegistry, NEW i \in m_Instances, RemoveOneInstance(i),
         UNCHANGED <<orphanedInstances, entry>>
  PROVE  BusIsRegistry'
<1>1. m_Instances' = m_Instances \ {i} /\ bus' = bus \ {Path(i)}
  BY DEF RemoveOneInstance
<1>2. m_Instances' \cup orphanedInstances' = (m_Instances \cup orphanedInstances) \ {i}
  BY <1>1 DEF BusIsRegistry
<1>3. bus' = Paths(m_Instances' \cup orphanedInstances')
  BY <1>1, <1>2 DEF BusIsRegistry, Paths
<1>. QED  BY <1>1, <1>2, <1>3 DEF BusIsRegistry, Paths, Path, Listed

LEMMA DetachRegistry ==
  ASSUME BusIsRegistry, NEW S, DetachAllInstance(S),
         \A a \in Apps \ S : Listed(a) => Listed(a)', m_Instances \subseteq Instance
  PROVE  BusIsRegistry'
<1>1. /\ m_Instances' = {i \in m_Instances : i.app \notin S}
      /\ orphanedInstances' = orphanedInstances \cup {i \in m_Instances : i.app \in S}
      /\ bus' = bus
  BY DEF DetachAllInstance
<1>2. m_Instances' \cup orphanedInstances' = m_Instances \cup orphanedInstances
  BY <1>1
<1>3. bus' = Paths(m_Instances' \cup orphanedInstances')
  BY <1>1, <1>2 DEF BusIsRegistry
<1>4. m_Instances' \cap orphanedInstances' = {}
  BY <1>1 DEF BusIsRegistry
<1>5. \A i \in m_Instances' : Listed(i.app)' /\ i.app = UnitApp[i.unit]
  BY <1>1 DEF BusIsRegistry, Instance
<1>. QED  BY <1>2, <1>3, <1>4, <1>5 DEF BusIsRegistry, Paths, Path

-----------------------------------------------------------------------------
(* The inductive invariant.  Before AM is up there is nothing to list, and *)
(* while it is not subscribed no signal is queued.                         *)
NothingWhileDown ==
  /\ am # "up" => m_Instances = {} /\ orphanedInstances = {} /\ bus = {}
  /\ am = "down" => queue = <<>>

(* An instance of a launch carries the launch's id, so that no other       *)
(* instance of its application has its unit.                               *)
LaunchIdIsUnit == \A i \in m_Instances : i.unit \in Launches => i.id = i.unit

Removal(u) == [sig |-> "UnitRemoved", unit |-> u]

(* A signal that starts an instance never comes after the last word on its *)
(* unit: the unit is loaded, or its UnitRemoved is further back.           *)
SignalsBacked ==
  \A k \in DOMAIN queue : queue[k].sig # "UnitRemoved" =>
     \/ unit[queue[k].unit] # "unloaded"
     \/ \E r \in DOMAIN queue : r > k /\ queue[r] = Removal(queue[k].unit)

IInv == /\ TypeOK
        /\ BusIsRegistry
        /\ NothingWhileDown
        /\ LaunchIdIsUnit
        /\ SignalsBacked
        /\ InstanceBacked

(* Nothing exists initially.                                               *)
LEMMA InitIInv == Init => IInv
<1>. SUFFICES ASSUME Init PROVE IInv
  OBVIOUS
<1>1. TypeOK
  BY InitTypeOK
<1>2. BusIsRegistry
  BY DEF Init, BusIsRegistry, Paths
<1>. QED  BY <1>1, <1>2 DEF Init, IInv, NothingWhileDown, LaunchIdIsUnit, SignalsBacked,
                           InstanceBacked

-----------------------------------------------------------------------------
(* A move of a unit: what has been promised about signals and instances    *)
(* stands, because a unit is unloaded with its UnitRemoved and every other *)
(* signal is sent for a unit that stays loaded.                            *)
LEMMA MoveBacked ==
  ASSUME IInv, NEW u \in Units, NEW from, NEW to, NEW sigs \in Seq(SigNames),
         Move(u, from, to, sigs), UNCHANGED m_Instances,
         to = "unloaded" => sigs = <<"UnitRemoved">>
  PROVE  SignalsBacked' /\ InstanceBacked'
<1>1. /\ queue \in Seq(Signal) /\ queue' \in Seq(Signal)
      /\ unit' = [unit EXCEPT ![u] = to] /\ unit \in [Units -> {"unloaded", "inactive", "active"}]
      /\ m_Instances \subseteq Instance
  BY EmitQueue DEF Move, IInv, TypeOK
<1>2. CASE am = "down"
  <2>1. queue = <<>> /\ m_Instances = {}
    BY <1>2 DEF IInv, NothingWhileDown
  <2>2. queue' = <<>>
    BY <1>1, <1>2, <2>1, EmitQueue DEF Move
  <2>. QED  BY <2>1, <2>2 DEF SignalsBacked, InstanceBacked
<1>3. CASE am # "down"
  <2>1. /\ Len(queue') = Len(queue) + Len(sigs)
        /\ \A k \in 1..Len(queue) : queue'[k] = queue[k]
        /\ \A k \in 1..Len(sigs) : queue'[Len(queue) + k] = [sig |-> sigs[k], unit |-> u]
    BY <1>1, <1>3, EmitQueue DEF Move
  <2>2. \A v \in Units : v # u => unit'[v] = unit[v]
    BY <1>1
  <2>3. \A k \in DOMAIN queue : k \in DOMAIN queue' /\ queue'[k] = queue[k]
    BY <1>1, <2>1
  <2>4. \A k \in DOMAIN queue' : k \notin DOMAIN queue =>
           k - Len(queue) \in 1..Len(sigs)
    BY <1>1, <2>1
  <2>5. \A k \in DOMAIN queue' : queue'[k].unit \in Units
    <3>1. \A k \in DOMAIN queue' : queue'[k] \in Signal
      BY <1>1
    <3>. QED  BY <3>1 DEF Signal
  <2>6. CASE to # "unloaded"
    <3>1. \A v \in Units : unit[v] # "unloaded" => unit'[v] # "unloaded"
      BY <1>1, <2>2, <2>6
    <3>2. unit'[u] # "unloaded"
      BY <1>1, <2>6
    <3>3. \A k \in DOMAIN queue' : k \notin DOMAIN queue => queue'[k].unit = u
      <4>. SUFFICES ASSUME NEW k \in DOMAIN queue', k \notin DOMAIN queue
                    PROVE  queue'[k].unit = u
        OBVIOUS
      <4>1. queue'[Len(queue) + (k - Len(queue))] =
              [sig |-> sigs[k - Len(queue)], unit |-> u]
        BY <2>1, <2>4
      <4>2. Len(queue) + (k - Len(queue)) = k
        BY <1>1
      <4>. QED  BY <4>1, <4>2
    <3>4. SignalsBacked'
      BY <2>3, <2>5, <3>1, <3>2, <3>3 DEF IInv, SignalsBacked
    <3>5. InstanceBacked'
      BY <1>1, <2>3, <3>1 DEF IInv, InstanceBacked, Instance
    <3>. QED  BY <3>4, <3>5
  <2>7. CASE to = "unloaded"
    <3>1. sigs = <<"UnitRemoved">> /\ Len(sigs) = 1 /\ sigs[1] = "UnitRemoved"
      BY <2>7
    <3>. DEFINE last == Len(queue) + 1
    <3>2. last \in DOMAIN queue' /\ queue'[last] = Removal(u)
      BY <1>1, <2>1, <3>1 DEF Removal
    <3>3. \A k \in DOMAIN queue : last > k
      BY <1>1
    <3>4. \A k \in DOMAIN queue' : k \notin DOMAIN queue => k = last
      BY <1>1, <2>1, <3>1
    <3>5. SignalsBacked'
      BY <2>2, <2>3, <2>5, <3>2, <3>3, <3>4 DEF IInv, SignalsBacked, Removal
    <3>6. InstanceBacked'
      BY <1>1, <2>2, <2>3, <3>2 DEF IInv, InstanceBacked, Instance, Removal
    <3>. QED  BY <3>5, <3>6
  <2>. QED  BY <2>6, <2>7
<1>. QED  BY <1>2, <1>3

(* Taking the first signal keeps the promises of those that remain, and of *)
(* the signal taken.                                                       *)
LEMMA HandleBacked ==
  ASSUME IInv, NEW sig, NEW u, Handle(sig, u)
  PROVE  /\ SignalsBacked'
         /\ u \in Units
         /\ sig # "UnitRemoved" =>
              unit'[u] # "unloaded" \/ \E k \in DOMAIN queue' : queue'[k] = Removal(u)
         /\ \A v : (sig # "UnitRemoved" \/ v # u)
              => ((\E k \in DOMAIN queue : queue[k] = Removal(v))
                  => \E k \in DOMAIN queue' : queue'[k] = Removal(v))
<1>1. /\ queue \in Seq(Signal) /\ queue' \in Seq(Signal)
      /\ Len(queue') = Len(queue) - 1 /\ Len(queue) > 0
      /\ queue[1] = [sig |-> sig, unit |-> u]
      /\ \A k \in 1..Len(queue') : queue'[k] = queue[k + 1]
  BY HandleQueue DEF IInv, TypeOK
<1>2. unit' = unit
  BY DEF Handle
<1>3. \A k \in DOMAIN queue' : k + 1 \in DOMAIN queue /\ queue'[k] = queue[k + 1]
  BY <1>1
<1>4. \A k \in DOMAIN queue : k > 1 => k - 1 \in DOMAIN queue' /\ queue'[k - 1] = queue[k]
  <2>. SUFFICES ASSUME NEW k \in DOMAIN queue, k > 1
                PROVE  k - 1 \in DOMAIN queue' /\ queue'[k - 1] = queue[k]
    OBVIOUS
  <2>1. k - 1 \in 1..Len(queue') /\ (k - 1) + 1 = k
    BY <1>1
  <2>. QED  BY <1>1, <2>1
<1>5. 1 \in DOMAIN queue /\ \A k \in DOMAIN queue : k > 1 \/ k = 1
  BY <1>1
<1>6. SignalsBacked'
  <2>. SUFFICES ASSUME NEW k \in DOMAIN queue', queue'[k].sig # "UnitRemoved",
                       unit[queue'[k].unit] = "unloaded"
                PROVE  \E r \in DOMAIN queue' : r > k /\ queue'[r] = Removal(queue'[k].unit)
    BY <1>2 DEF SignalsBacked, Removal
  <2>1. PICK r \in DOMAIN queue : r > k + 1 /\ queue[r] = Removal(queue[k + 1].unit)
    BY <1>3 DEF IInv, SignalsBacked
  <2>2. r - 1 > k /\ r > 1
    BY <1>1, <2>1
  <2>. QED  BY <1>3, <1>4, <2>1, <2>2
<1>7. sig # "UnitRemoved" =>
        unit'[u] # "unloaded" \/ \E k \in DOMAIN queue' : queue'[k] = Removal(u)
  <2>. SUFFICES ASSUME sig # "UnitRemoved", unit[u] = "unloaded"
                PROVE  \E k \in DOMAIN queue' : queue'[k] = Removal(u)
    BY <1>2
  <2>1. PICK r \in DOMAIN queue : r > 1 /\ queue[r] = Removal(u)
    BY <1>1, <1>5 DEF IInv, SignalsBacked
  <2>. QED  BY <1>4, <2>1
<1>8. ASSUME NEW v, sig # "UnitRemoved" \/ v # u,
             NEW k \in DOMAIN queue, queue[k] = Removal(v)
      PROVE  \E r \in DOMAIN queue' : queue'[r] = Removal(v)
  <2>1. k # 1
    BY <1>1, <1>8 DEF Removal
  <2>. QED  BY <1>4, <1>5, <1>8, <2>1
<1>9. u \in Units
  BY <1>1, <1>5 DEF Signal
<1>. QED  BY <1>6, <1>7, <1>8, <1>9

-----------------------------------------------------------------------------
(* onUnitNew for a signal whose unit is backed: the instance that it adds  *)
(* carries the unit's id if a launch started the unit, and is backed by    *)
(* the unit.                                                               *)
LEMMA StartKeepsLists ==
  ASSUME IInv, NEW sig, NEW u \in Units, Handle(sig, u), OnUnitNew(u), sig # "UnitRemoved"
  PROVE  BusIsRegistry' /\ LaunchIdIsUnit' /\ InstanceBacked'
<1>. DEFINE Backed(v) == unit'[v] # "unloaded"
                           \/ \E k \in DOMAIN queue' : queue'[k] = Removal(v)
<1>1. UNCHANGED <<orphanedInstances, entry, unit>>
  BY DEF Handle
<1>2. Backed(u)
  BY HandleBacked
<1>3. \A i \in m_Instances : i.unit \in Launches => Backed(i.unit)
  BY <1>1, HandleBacked DEF IInv, InstanceBacked, Removal
<1>. HIDE DEF Backed
<1>4. CASE ~ Listed(UnitApp[u])
  <2>1. UNCHANGED <<m_Instances, bus>>
    BY <1>4 DEF OnUnitNew
  <2>2. InstanceBacked'
    BY <1>3, <2>1 DEF Backed, InstanceBacked, Removal
  <2>. QED  BY <1>1, <2>1, <2>2
       DEF IInv, BusIsRegistry, Listed, Paths, Path, LaunchIdIsUnit
<1>5. CASE Listed(UnitApp[u])
  <2>1. PICK id \in InstanceIds(u) : HandleUnitStarted(UnitApp[u], id, u)
    BY <1>5 DEF OnUnitNew
  <2>2. PICK t : AddOneInstance(UnitApp[u], id, u, t)
    BY <2>1 DEF HandleUnitStarted
  <2>3. BusIsRegistry'
    BY <1>1, <1>5, <2>2, AddRegistry DEF IInv
  <2>4. \A i \in m_Instances' : i \in m_Instances
           \/ i = [app |-> UnitApp[u], id |-> id, unit |-> u, type |-> t]
    BY <2>2 DEF AddOneInstance
  <2>5. LaunchIdIsUnit'
    BY <2>4 DEF IInv, LaunchIdIsUnit, InstanceIds
  <2>6. InstanceBacked'
    <3>1. \A i \in m_Instances' : i.unit \in Launches => Backed(i.unit)
      BY <1>2, <1>3, <2>4
    <3>. QED  BY <3>1 DEF Backed, InstanceBacked, Removal
  <2>. QED  BY <2>3, <2>5, <2>6
<1>. QED  BY <1>4, <1>5

(* A job on a unit whose application has an instance, or is not listed,    *)
(* changes no list; the promises about the other signals stand.            *)
LEMMA IgnoredKeepsLists ==
  ASSUME IInv, NEW sig, NEW u \in Units, Handle(sig, u), sig # "UnitRemoved",
         UNCHANGED <<m_Instances, bus>>
  PROVE  BusIsRegistry' /\ LaunchIdIsUnit' /\ InstanceBacked'
<1>1. UNCHANGED <<orphanedInstances, entry, unit>>
  BY DEF Handle
<1>2. InstanceBacked'
  BY <1>1, HandleBacked DEF IInv, InstanceBacked, Removal
<1>. QED  BY <1>1, <1>2
     DEF IInv, BusIsRegistry, Listed, Paths, Path, LaunchIdIsUnit

(* handleUnitRemoved: the only instance with the path of a launch's unit   *)
(* is the one removed.                                                     *)
LEMMA RemovedKeepsLists ==
  ASSUME IInv, NEW u \in Units, HandleUnitRemoved(u)
  PROVE  BusIsRegistry' /\ LaunchIdIsUnit' /\ InstanceBacked'
<1>. DEFINE matching == {i \in InstancesOf(UnitApp[u]) : i.unit = u}
<1>1. Handle("UnitRemoved", u) /\ UNCHANGED <<orphanedInstances, entry, unit>>
  BY DEF HandleUnitRemoved, Handle
<1>2. \A i \in m_Instances : i.unit = u => i \in matching /\ Listed(UnitApp[u])
  BY DEF IInv, BusIsRegistry, InstancesOf
<1>3. BusIsRegistry' /\ m_Instances' \subseteq m_Instances
  <2>1. CASE \E i \in matching : RemoveOneInstance(i)
    BY <1>1, <2>1, RemoveRegistry DEF IInv, InstancesOf, RemoveOneInstance
  <2>2. CASE UNCHANGED <<m_Instances, bus, m_splashInstanceIds>>
    BY <1>1, <2>2 DEF IInv, BusIsRegistry, Listed, Paths, Path
  <2>. QED  BY <2>1, <2>2 DEF HandleUnitRemoved
<1>4. u \in Launches => \A i \in m_Instances' : i.unit # u
  <2>. SUFFICES ASSUME u \in Launches, NEW i \in m_Instances, i.unit = u
                PROVE  i \notin m_Instances'
    BY <1>3
  <2>1. PICK j \in matching : RemoveOneInstance(j)
    BY <1>2 DEF HandleUnitRemoved
  <2>2. j \in m_Instances /\ Path(i) = Path(j)
    BY <1>2, <2>1 DEF IInv, LaunchIdIsUnit, Path, InstancesOf
  <2>3. i = j
    BY <2>2 DEF IInv, BusIsRegistry
  <2>. QED  BY <2>1, <2>3 DEF RemoveOneInstance
<1>5. InstanceBacked'
  BY <1>1, <1>3, <1>4, HandleBacked DEF IInv, InstanceBacked, Removal
<1>. QED  BY <1>1, <1>3, <1>5 DEF IInv, LaunchIdIsUnit

-----------------------------------------------------------------------------
(* Steps that touch neither the lists, the units nor the signals.          *)
LEMMA QuietKeepsIInv ==
  ASSUME IInv, TypeOK',
         UNCHANGED <<am, entry, unit, queue, m_Instances, orphanedInstances, bus>>
  PROVE  IInv'
BY DEF IInv, BusIsRegistry, Listed, Paths, Path, NothingWhileDown, LaunchIdIsUnit,
       SignalsBacked, Removal, InstanceBacked

(* A move of a unit touches the unit and the signals only.                 *)
LEMMA MoveKeepsIInv ==
  ASSUME IInv, TypeOK', NEW u \in Units, NEW from, NEW to, NEW sigs \in Seq(SigNames),
         Move(u, from, to, sigs), to = "unloaded" => sigs = <<"UnitRemoved">>,
         UNCHANGED <<am, entry, m_Instances, orphanedInstances, bus>>
  PROVE  IInv'
<1>1. SignalsBacked' /\ InstanceBacked'
  BY MoveBacked
<1>2. NothingWhileDown'
  BY EmitQueue DEF Move, IInv, TypeOK, NothingWhileDown
<1>. QED  BY <1>1, <1>2
     DEF IInv, BusIsRegistry, Listed, Paths, Path, LaunchIdIsUnit

(* doReloadApplications: the instances of an application that goes, or     *)
(* whose entry is replaced, are detached with it.                          *)
LEMMA ReloadKeepsIInv ==
  ASSUME IInv, TypeOK', DoReloadApplications
  PROVE  IInv'
<1>. DEFINE detached == {a \in Apps : Listed(a) /\ Reloaded(a) # entry[a]}
            removed  == {a \in detached : Reloaded(a) = Absent}
<1>1. /\ entry' = [a \in Apps |-> Reloaded(a)] /\ DetachAllInstance(detached)
      /\ UNCHANGED <<am, unit, queue>> /\ am = "up"
  BY DEF DoReloadApplications, startupVars
<1>2. \A a \in Apps \ detached : Listed(a) => Listed(a)'
  BY <1>1 DEF Listed
<1>3. m_Instances \subseteq Instance
  BY DEF IInv, TypeOK
<1>4. BusIsRegistry'
  BY <1>1, <1>2, <1>3, DetachRegistry DEF IInv
<1>5. m_Instances' = {i \in m_Instances : i.app \notin detached}
  BY <1>1 DEF DetachAllInstance
<1>. QED  BY <1>1, <1>4, <1>5
     DEF IInv, NothingWhileDown, LaunchIdIsUnit, SignalsBacked, Removal, InstanceBacked

(* scanInstances: the first instances are those of services, each with an  *)
(* id of its own.                                                          *)
LEMMA ScanKeepsIInv ==
  ASSUME IInv, TypeOK', Scan
  PROVE  IInv'
<1>. DEFINE found == {s \in Services : unit[s] = "active" /\ disk[UnitApp[s]] \in Versions}
<1>1. PICK id \in [found -> Uuids] :
        /\ \A s, t \in found : s # t => id[s] # id[t]
        /\ m_Instances' = {[app |-> UnitApp[s], id |-> id[s], unit |-> s, type |-> Unknown]
                             : s \in found}
        /\ bus' = {<<UnitApp[s], id[s]>> : s \in found}
  BY DEF Scan, ScanInstances
<1>2. /\ am = "scanning" /\ am' = "up" /\ UNCHANGED <<unit, queue, orphanedInstances>>
      /\ entry' = [a \in Apps |-> IF disk[a] = Broken THEN Absent ELSE disk[a]]
  BY DEF Scan
<1>3. orphanedInstances' = {} /\ m_Instances' \cup orphanedInstances' = m_Instances'
  BY <1>2 DEF IInv, NothingWhileDown
<1>4. \A i \in m_Instances' : i.unit \in Services
  BY <1>1
<1>5. BusIsRegistry'
  <2>1. bus' = Paths(m_Instances')
    <3>. DEFINE inst(s) == [app |-> UnitApp[s], id |-> id[s], unit |-> s, type |-> Unknown]
    <3>1. \A s \in found : inst(s) \in m_Instances' /\ Path(inst(s)) = <<UnitApp[s], id[s]>>
      BY <1>1 DEF Path
    <3>2. \A i \in m_Instances' : \E s \in found : i = inst(s)
      BY <1>1
    <3>. HIDE DEF found, inst
    <3>3. \A p \in bus' : \E i \in m_Instances' : p = Path(i)
      BY <1>1, <3>1
    <3>4. \A i \in m_Instances' : Path(i) \in bus'
      BY <1>1, <3>1, <3>2
    <3>. QED  BY <3>3, <3>4 DEF Paths
  <2>2. \A i, j \in m_Instances' : Path(i) = Path(j) => i = j
    BY <1>1 DEF Path
  <2>3. \A i \in m_Instances' : Listed(i.app)' /\ i.app = UnitApp[i.unit]
    <3>1. \A s \in found : UnitApp[s] \in Apps
      BY UnitAppType DEF Units
    <3>2. \A s \in found : Listed(UnitApp[s])'
      BY <1>2, <3>1, NamesAssumption DEF Listed
    <3>. QED  BY <1>1, <3>2
  <2>. QED  BY <1>3, <2>1, <2>2, <2>3 DEF BusIsRegistry, Paths, Path
<1>6. LaunchIdIsUnit' /\ InstanceBacked'
  BY <1>4, UnitsAssumption DEF LaunchIdIsUnit, InstanceBacked
<1>. QED  BY <1>2, <1>5, <1>6 DEF IInv, NothingWhileDown, SignalsBacked, Removal

(* Every step preserves the invariant.                                     *)
LEMMA NextIInv == IInv /\ [Next]_vars => IInv'
<1>. SUFFICES ASSUME IInv, [Next]_vars PROVE IInv'
  OBVIOUS
<1>1. TypeOK'
  BY NextTypeOK DEF IInv
<1>2. ASSUME NEW u \in Units, UnitMoves(u) PROVE IInv'
  <2>1. PICK from \in {"active", "inactive", "unloaded"},
             to \in {"active", "inactive", "unloaded"}, sigs \in Seq(SigNames) :
          Move(u, from, to, sigs) /\ (to = "unloaded" => sigs = <<"UnitRemoved">>)
    BY <1>2, SigSeqs DEF UnitMoves
  <2>2. UNCHANGED <<am, entry, m_Instances, orphanedInstances, bus>>
    BY <1>2 DEF UnitMoves, startupVars, registryVars
  <2>. QED  BY <1>1, <2>1, <2>2, MoveKeepsIInv
<1>3. ASSUME NEW l \in Launches, HelperStartsUnit(l) PROVE IInv'
  <2>1. Move(l, "unloaded", "active", <<"UnitNew", "JobNew">>)
    BY <1>3 DEF HelperStartsUnit
  <2>2. UNCHANGED <<am, entry, m_Instances, orphanedInstances, bus>>
    BY <1>3 DEF HelperStartsUnit, startupVars, registryVars
  <2>. QED  BY <1>1, <2>1, <2>2, MoveKeepsIInv, SigSeqs DEF Units
<1>4. ASSUME NEW u \in Units, HandleUnitNew(u) \/ HandleJobNew(u) PROVE IInv'
  <2>1. PICK sig \in {"UnitNew", "JobNew"} : Handle(sig, u)
    BY <1>4 DEF HandleUnitNew, HandleJobNew
  <2>2. OnUnitNew(u) \/ UNCHANGED <<m_Instances, bus>>
    BY <1>4 DEF HandleUnitNew, HandleJobNew
  <2>3. BusIsRegistry' /\ LaunchIdIsUnit' /\ InstanceBacked'
    BY <2>1, <2>2, StartKeepsLists, IgnoredKeepsLists
  <2>4. SignalsBacked' /\ NothingWhileDown'
    BY <2>1, HandleBacked DEF Handle, startupVars, NothingWhileDown
  <2>. QED  BY <1>1, <2>3, <2>4 DEF IInv
<1>5. ASSUME NEW u \in Units, HandleUnitRemoved(u) PROVE IInv'
  <2>1. SignalsBacked' /\ NothingWhileDown'
    BY <1>5, HandleBacked DEF HandleUnitRemoved, Handle, startupVars, NothingWhileDown
  <2>. QED  BY <1>1, <1>5, <2>1, RemovedKeepsLists DEF IInv
<1>6. CASE Stop
  <2>1. BusIsRegistry'
    BY <1>6 DEF Stop, BusIsRegistry, Paths
  <2>2. queue' = <<>> /\ m_Instances' = {} /\ orphanedInstances' = {} /\ bus' = {}
    BY <1>6 DEF Stop
  <2>3. SignalsBacked'
    BY <2>2 DEF SignalsBacked
  <2>. QED  BY <1>1, <2>1, <2>2, <2>3
       DEF IInv, NothingWhileDown, LaunchIdIsUnit, InstanceBacked
<1>7. CASE Subscribe
  BY <1>1, <1>7 DEF Subscribe, registryVars, IInv, BusIsRegistry, Listed, Paths, Path,
     NothingWhileDown, LaunchIdIsUnit, SignalsBacked, Removal, InstanceBacked
<1>8. ASSUME NEW a \in Apps, DiskChanges(a) PROVE IInv'
  BY <1>1, <1>8, QuietKeepsIInv DEF DiskChanges, startupVars, registryVars
<1>9. ASSUME NEW l \in Launches,
             \/ \E t \in Types, n \in 1..MaxResources : Launch(l, t, n)
             \/ HelperFails(l) \/ HelperReturns(l)
      PROVE  IInv'
  BY <1>1, <1>9, QuietKeepsIInv
     DEF Launch, HelperFails, HelperReturns, startupVars, registryVars
<1>10. CASE UNCHANGED vars
  BY <1>1, <1>10, QuietKeepsIInv DEF vars, startupVars, registryVars
<1>. QED  BY <1>1, <1>2, <1>3, <1>4, <1>5, <1>6, <1>7, <1>8, <1>9, <1>10, ReloadKeepsIInv,
             ScanKeepsIInv DEF Next

-----------------------------------------------------------------------------
(* The lists of instances and orphans and the objects on the bus agree,    *)
(* for any number of applications, launches, services and queued signals   *)
(* (addOneInstance, removeOneInstance, detachAllInstance, scanInstances).  *)
THEOREM RegistryCorrect == Spec => []BusIsRegistry
<1>1. IInv => BusIsRegistry
  BY DEF IInv
<1>. QED  BY <1>1, InitIInv, NextIInv, PTL DEF Spec

(* A listed instance of a launch is backed by its unit or by a UnitRemoved *)
(* on the way (onUnitNew, onUnitRemoved and the JobNew retry).             *)
THEOREM InstancesBacked == Spec => []InstanceBacked
<1>1. IInv => InstanceBacked
  BY DEF IInv
<1>. QED  BY <1>1, InitIInv, NextIInv, PTL DEF Spec

(* Only a parsed change of its own application's file, or its removal,     *)
(* detaches an instance (updateApplication, removeOneApplication).         *)
THEOREM DetachedByChange == Spec => DetachNeedsChange
<1>. DEFINE Step == \A i \in m_Instances :
                      i \in orphanedInstances' => disk[i.app] \notin {entry[i.app], Broken}
<1>1. IInv /\ [Next]_vars => [Step]_vars
  <2>. SUFFICES ASSUME IInv, Next, NEW i \in m_Instances, i \in orphanedInstances'
                PROVE  disk[i.app] \notin {entry[i.app], Broken}
    OBVIOUS
  <2>1. i \notin orphanedInstances /\ i.app \in Apps
    BY DEF IInv, TypeOK, BusIsRegistry, Instance
  <2>2. CASE DoReloadApplications
    <3>1. Reloaded(i.app) # entry[i.app]
      BY <2>1, <2>2 DEF DoReloadApplications, DetachAllInstance
    <3>. QED  BY <3>1 DEF Reloaded
  <2>3. CASE orphanedInstances' \subseteq orphanedInstances
    BY <2>1, <2>3
  <2>4. DoReloadApplications \/ orphanedInstances' \subseteq orphanedInstances
    BY DEF Next, UnitMoves, DiskChanges, HandleUnitNew, HandleJobNew, HandleUnitRemoved,
           Handle, Launch, HelperStartsUnit, HelperFails, HelperReturns, Stop, Subscribe, Scan,
           registryVars
  <2>. QED  BY <2>2, <2>3, <2>4
<1>. QED  BY <1>1, InitIInv, NextIInv, PTL DEF Spec, DetachNeedsChange

-----------------------------------------------------------------------------
(***************************************************************************)
(* Launches on their way: what becomes of a launch between its worker,     *)
(* systemd's signals in the queue, the lists and a reload, so the          *)
(* invariant relates all of them.                                          *)
(***************************************************************************)
Known == m_Instances \cup orphanedInstances

Begun(u) == [sig |-> "UnitNew", unit |-> u]

(* Nothing is to be heard of a unit. *)
Silent(l) == unit[l] = "unloaded" /\ \A k \in DOMAIN queue : queue[k].unit # l

(* A launch that AM knows belongs to a listed application, helpers run     *)
(* while AM does, and a single helper starts a unit at most once.          *)
LaunchShape ==
  \A l \in Launches :
     /\ launch[l].phase = "none" => launch[l].left = 0 /\ ~ launch[l].started
     /\ launch[l].left > 0 => am = "up"
     /\ launch[l].phase = "running" => am = "up" /\ Listed(UnitApp[l])
     /\ launch[l].resources = 1 =>
          launch[l].left = 0 \/ (launch[l].left = 1 /\ ~ launch[l].started)

(* Nobody hears of a unit before its launch started it.                    *)
UnstartedSilent ==
  \A l \in Launches :
     ~ launch[l].started => Silent(l) /\ \A i \in Known : i.unit # l

(* The id of an instance, listed or orphan, is its unit's for launches.    *)
IdsTellUnits ==
  \A i \in Known : i.id \in Launches \/ i.unit \in Launches => i.id = i.unit

(* A splash is closed with the application's object, or when its instance  *)
(* is detached.                                                            *)
SplashKnown ==
  \A l \in m_splashInstanceIds :
     /\ am = "up" /\ Listed(UnitApp[l]) /\ launch[l].phase # "none"
     /\ \A i \in orphanedInstances : i.unit # l

(* While there is a splash, the unit is listed or its UnitNew comes before *)
(* any UnitRemoved.                                                        *)
SplashWaits ==
  \A l \in m_splashInstanceIds : launch[l].started =>
     \/ \E i \in m_Instances : i.unit = l
     \/ \E k \in DOMAIN queue :
           queue[k] = Begun(l) /\ \A j \in DOMAIN queue : j < k => queue[j] # Removal(l)

(* The UnitRemoved of a unit started once is the last of its signals.      *)
RemovalIsLast ==
  \A l \in Launches : launch[l].resources = 1 =>
     \A k \in DOMAIN queue : queue[k] = Removal(l) =>
        unit[l] = "unloaded" /\ \A j \in DOMAIN queue : j > k => queue[j].unit # l

(* The type waits for the unit, or the instance has been added, or all is  *)
(* over.                                                                   *)
TypeWaits ==
  \A l \in Launches : launch[l].phase = "running" /\ launch[l].resources = 1 =>
     l \in m_pendingLaunchTypes \/ <<UnitApp[l], l>> \in bus \/ (launch[l].started /\ Silent(l))

(* A launch is counted with its instance, which its UnitNew, the first     *)
(* word of its unit, adds: before that nothing is counted, and once the    *)
(* instance is gone nothing is to be heard.                                *)
CountWaits ==
  \A l \in Launches :
     /\ ~ launch[l].started => counted[l].times = 0
     /\ launch[l].resources = 1 =>
          /\ \A k \in DOMAIN queue : queue[k] = Begun(l) =>
                /\ counted[l].times = 0
                /\ \A i \in Known : i.unit # l
                /\ \A j \in DOMAIN queue : j < k => queue[j].unit # l
          /\ (\A i \in Known : i.unit # l) => counted[l].times = 0 \/ Silent(l)

LInv == /\ LaunchShape
        /\ UnstartedSilent
        /\ IdsTellUnits
        /\ SplashKnown
        /\ SplashWaits
        /\ RemovalIsLast
        /\ TypeWaits
        /\ LaunchTypeKept
        /\ CountWaits
        /\ LaunchCountedOnce

(* Nothing was launched initially.                                         *)
LEMMA InitLInv == Init => LInv
<1>. SUFFICES ASSUME Init PROVE LInv
  OBVIOUS
<1>1. \A l \in Launches : launch[l] = Launch0
  BY DEF Init
<1>2. \A l \in Launches : /\ launch[l].phase = "none" /\ launch[l].left = 0
                          /\ launch[l].resources = 0 /\ ~ launch[l].started
  BY <1>1 DEF Launch0
<1>5. \A l \in Launches : counted[l].times = 0
  BY DEF Init, Count0
<1>3. Known = {} /\ queue = <<>> /\ m_splashInstanceIds = {}
  BY DEF Init, Known
<1>4. \A l \in Launches : unit[l] = "unloaded"
  BY DEF Init, Units
<1>. QED  BY <1>2, <1>3, <1>4, <1>5
     DEF LInv, CountWaits, LaunchCountedOnce, LaunchShape, UnstartedSilent, Silent, IdsTellUnits, SplashKnown, SplashWaits,
         RemovalIsLast, TypeWaits, LaunchTypeKept, Known, Init

-----------------------------------------------------------------------------
(* No move but the unloading one says that a unit is removed.              *)
LEMMA SigKinds ==
  ASSUME NEW sigs \in {<<>>, <<"UnitNew">>, <<"JobNew">>, <<"UnitNew", "JobNew">>}
  PROVE  \A k \in DOMAIN sigs : sigs[k] # "UnitRemoved"
<1>1. CASE sigs = <<>>
  BY <1>1
<1>2. CASE sigs = <<"UnitNew">>
  BY <1>2
<1>3. CASE sigs = <<"JobNew">>
  BY <1>3
<1>4. CASE sigs = <<"UnitNew", "JobNew">>
  BY <1>4
<1>. QED  BY <1>1, <1>2, <1>3, <1>4

(* What a move of a unit does to the queue.                                *)
Fresh == DOMAIN queue' \ DOMAIN queue

LEMMA MoveSignals ==
  ASSUME TypeOK, NEW u \in Units, NEW from, NEW to, NEW sigs \in Seq(SigNames),
         Move(u, from, to, sigs),
         to = "unloaded" => sigs = <<"UnitRemoved">>,
         to # "unloaded" => \A k \in DOMAIN sigs : sigs[k] # "UnitRemoved"
  PROVE  /\ \A k \in DOMAIN queue : k \in DOMAIN queue' /\ queue'[k] = queue[k]
         /\ \A k \in Fresh : /\ queue'[k].unit = u /\ \A j \in DOMAIN queue : j < k
                             /\ to # "unloaded" => queue'[k] # Removal(u)
         /\ to = "unloaded" => \A j, k \in Fresh : j = k
         /\ DOMAIN queue \subseteq Nat /\ DOMAIN queue' \subseteq Nat
<1>1. queue \in Seq(Signal) /\ queue' \in Seq(Signal)
  BY EmitQueue DEF Move, TypeOK
<1>2. CASE am = "down"
  BY <1>1, <1>2, EmitQueue DEF Move, TypeOK, Fresh
<1>3. CASE am # "down"
  <2>1. /\ Len(queue') = Len(queue) + Len(sigs)
        /\ \A k \in 1..Len(queue) : queue'[k] = queue[k]
        /\ \A k \in 1..Len(sigs) : queue'[Len(queue) + k] = [sig |-> sigs[k], unit |-> u]
    BY <1>1, <1>3, EmitQueue DEF Move
  <2>2. \A k \in DOMAIN queue : k \in DOMAIN queue' /\ queue'[k] = queue[k]
    BY <1>1, <2>1
  <2>3. \A k \in Fresh : k - Len(queue) \in DOMAIN sigs /\ \A j \in DOMAIN queue : j < k
    BY <1>1, <2>1 DEF Fresh
  <2>4. ASSUME NEW k \in Fresh
        PROVE  queue'[k].sig = sigs[k - Len(queue)] /\ queue'[k].unit = u
    <3>1. queue'[Len(queue) + (k - Len(queue))] = [sig |-> sigs[k - Len(queue)], unit |-> u]
      BY <2>1, <2>3
    <3>2. k \in Nat /\ Len(queue) \in Nat
      BY <1>1 DEF Fresh
    <3>3. Len(queue) + (k - Len(queue)) = k
      BY <3>2
    <3>4. queue'[k] = [sig |-> sigs[k - Len(queue)], unit |-> u]
      BY <3>1, <3>3
    <3>. QED  BY <3>4
  <2>5. ASSUME to # "unloaded", NEW k \in Fresh
        PROVE  queue'[k] # Removal(u)
    <3>1. sigs[k - Len(queue)] # "UnitRemoved"
      BY <2>3, <2>5
    <3>2. queue'[k].sig = sigs[k - Len(queue)]
      BY <2>4
    <3>. QED  BY <3>1, <3>2 DEF Removal
  <2>6. ASSUME to = "unloaded", NEW j \in Fresh, NEW k \in Fresh
        PROVE  j = k
    <3>1. Len(sigs) = 1
      BY <2>6
    <3>. QED  BY <1>1, <2>1, <3>1 DEF Fresh
  <2>7. \A k \in Fresh : queue'[k].unit = u
    BY <2>4
  <2>. QED  BY <1>1, <2>2, <2>3, <2>5, <2>6, <2>7
<1>. QED  BY <1>2, <1>3

(* What handling a signal does to the queue.                               *)
LEMMA HandleSignals ==
  ASSUME TypeOK, NEW sig, NEW u, Handle(sig, u)
  PROVE  /\ 1 \in DOMAIN queue /\ queue[1] = [sig |-> sig, unit |-> u]
         /\ DOMAIN queue \subseteq Nat \ {0} /\ DOMAIN queue' \subseteq Nat \ {0}
         /\ \A k \in DOMAIN queue' : k + 1 \in DOMAIN queue /\ queue'[k] = queue[k + 1]
         /\ \A k \in DOMAIN queue : k # 1 => k - 1 \in DOMAIN queue' /\ queue'[k - 1] = queue[k]
         /\ u \in Units /\ am = "up"
<1>1. /\ queue \in Seq(Signal) /\ queue' \in Seq(Signal)
      /\ Len(queue') = Len(queue) - 1 /\ Len(queue) > 0
      /\ queue[1] = [sig |-> sig, unit |-> u]
      /\ \A k \in 1..Len(queue') : queue'[k] = queue[k + 1]
  BY HandleQueue DEF TypeOK
<1>2. \A k \in DOMAIN queue' : k + 1 \in DOMAIN queue /\ queue'[k] = queue[k + 1]
  BY <1>1
<1>3. ASSUME NEW k \in DOMAIN queue, k # 1
      PROVE  k - 1 \in DOMAIN queue' /\ queue'[k - 1] = queue[k]
  <2>1. k - 1 \in 1..Len(queue') /\ (k - 1) + 1 = k
    BY <1>1, <1>3
  <2>. QED  BY <1>1, <2>1
<1>4. queue[1] \in Signal
  BY <1>1
<1>. QED  BY <1>1, <1>2, <1>3, <1>4 DEF Signal, Handle

(* The signals of a unit that are left were there before.                  *)
LEMMA HandleSilent ==
  ASSUME TypeOK, NEW sig, NEW u, Handle(sig, u), NEW l \in Launches
  PROVE  Silent(l) => Silent(l)'
<1>1. \A k \in DOMAIN queue' : k + 1 \in DOMAIN queue /\ queue'[k] = queue[k + 1]
  BY HandleSignals
<1>2. unit' = unit
  BY DEF Handle
<1>. QED  BY <1>1, <1>2 DEF Silent

-----------------------------------------------------------------------------
(***************************************************************************)
(* systemd and the workers.                                                *)
(***************************************************************************)

(* Only a start says that a launch's unit is new.                          *)
LEMMA MoveBegins ==
  ASSUME TypeOK, NEW u \in Units, NEW from, NEW to, NEW sigs \in Seq(SigNames),
         Move(u, from, to, sigs), NEW k \in Fresh, NEW l, queue'[k] = Begun(l)
  PROVE  l = u /\ \E j \in DOMAIN sigs : sigs[j] = "UnitNew"
<1>1. queue \in Seq(Signal) /\ queue' \in Seq(Signal)
  BY EmitQueue DEF Move, TypeOK
<1>2. am # "down"
  BY <1>1, EmitQueue DEF Move, TypeOK, Fresh
<1>3. /\ Len(queue') = Len(queue) + Len(sigs)
      /\ \A i \in 1..Len(sigs) : queue'[Len(queue) + i] = [sig |-> sigs[i], unit |-> u]
  BY <1>1, <1>2, EmitQueue DEF Move
<1>4. k - Len(queue) \in DOMAIN sigs /\ Len(queue) + (k - Len(queue)) = k
  BY <1>1, <1>3 DEF Fresh
<1>5. queue'[k] = [sig |-> sigs[k - Len(queue)], unit |-> u]
  <2>1. queue'[Len(queue) + (k - Len(queue))] = [sig |-> sigs[k - Len(queue)], unit |-> u]
    BY <1>3, <1>4
  <2>. QED  BY <1>4, <2>1
<1>. QED  BY <1>4, <1>5 DEF Begun

(* Counts stand while nothing new begins and the instances stay.           *)
LEMMA CountsStand ==
  ASSUME CountWaits, LaunchCountedOnce,
         UNCHANGED <<m_Instances, orphanedInstances, launch, counted>>,
         \A l \in Launches : Silent(l) => Silent(l)',
         \A l \in Launches : \A k \in DOMAIN queue' : queue'[k] = Begun(l) =>
            \E i \in DOMAIN queue :
               /\ queue[i] = Begun(l)
               /\ \A j \in DOMAIN queue' : j < k =>
                     \E h \in DOMAIN queue : h < i /\ queue'[j] = queue[h]
  PROVE  CountWaits' /\ LaunchCountedOnce'
<1>1. Known' = Known
  BY DEF Known
<1>2. LaunchCountedOnce'
  BY DEF LaunchCountedOnce
<1>3. CountWaits'
  <2>. SUFFICES ASSUME NEW l \in Launches
                PROVE  /\ ~ launch[l].started => counted[l].times = 0
                       /\ launch[l].resources = 1 =>
                            /\ \A k \in DOMAIN queue' : queue'[k] = Begun(l) =>
                                  /\ counted[l].times = 0
                                  /\ \A i \in Known : i.unit # l
                                  /\ \A j \in DOMAIN queue' : j < k => queue'[j].unit # l
                            /\ (\A i \in Known : i.unit # l) =>
                                  counted[l].times = 0 \/ Silent(l)'
    BY <1>1 DEF CountWaits, Begun
  <2>1. ~ launch[l].started => counted[l].times = 0
    BY DEF CountWaits
  <2>2. ASSUME launch[l].resources = 1, NEW k \in DOMAIN queue', queue'[k] = Begun(l)
        PROVE  /\ counted[l].times = 0
               /\ \A i \in Known : i.unit # l
               /\ \A j \in DOMAIN queue' : j < k => queue'[j].unit # l
    BY <2>2 DEF CountWaits
  <2>3. launch[l].resources = 1 /\ (\A i \in Known : i.unit # l) =>
          counted[l].times = 0 \/ Silent(l)'
    BY DEF CountWaits
  <2>. QED  BY <2>1, <2>2, <2>3
<1>. QED  BY <1>2, <1>3

(* A unit moves on: for a launch, never out of "unloaded".                 *)
LEMMA UnitMovesLInv ==
  ASSUME IInv, LInv, NEW u \in Units, UnitMoves(u)
  PROVE  LInv'
<1>. USE DEF LInv
<1>1. /\ UNCHANGED <<am, entry, m_Instances, orphanedInstances, bus, launch, counted,
                     m_pendingLaunchTypes, m_splashInstanceIds>>
      /\ Known' = Known
  BY DEF UnitMoves, startupVars, registryVars, launchVars, Known
<1>. DEFINE safe == {<<>>, <<"UnitNew">>, <<"JobNew">>, <<"UnitNew", "JobNew">>}
<1>0. PICK from \in {"active", "inactive", "unloaded"},
           to \in {"active", "inactive", "unloaded"}, sigs \in Seq(SigNames) :
        /\ Move(u, from, to, sigs)
        /\ (to = "unloaded" /\ sigs = <<"UnitRemoved">>) \/ (to # "unloaded" /\ sigs \in safe)
        /\ u \in Launches => from # "unloaded" /\ sigs \in {<<>>, <<"JobNew">>, <<"UnitRemoved">>}
  BY SigSeqs, UnitsAssumption DEF UnitMoves
<1>2. /\ Move(u, from, to, sigs)
      /\ to = "unloaded" => sigs = <<"UnitRemoved">>
      /\ to # "unloaded" => \A k \in DOMAIN sigs : sigs[k] # "UnitRemoved"
      /\ u \in Launches => from # "unloaded"
  <2>. HIDE DEF safe
  <2>1. sigs \in safe => \A k \in DOMAIN sigs : sigs[k] # "UnitRemoved"
    BY SigKinds DEF safe
  <2>. QED  BY <1>0, <2>1
<1>. HIDE DEF safe
<1>3. /\ \A k \in DOMAIN queue : k \in DOMAIN queue' /\ queue'[k] = queue[k]
      /\ \A k \in Fresh : /\ queue'[k].unit = u /\ \A j \in DOMAIN queue : j < k
                          /\ to # "unloaded" => queue'[k] # Removal(u)
      /\ to = "unloaded" => \A j, k \in Fresh : j = k
      /\ DOMAIN queue \subseteq Nat /\ DOMAIN queue' \subseteq Nat
  BY <1>2, MoveSignals DEF IInv
<1>4. /\ unit[u] = from /\ unit'[u] = to
      /\ \A v \in Units : v # u => unit'[v] = unit[v]
  BY <1>2 DEF Move, IInv, TypeOK
<1>5. \A l \in Launches : l \in Units
  BY DEF Units
<1>6. ASSUME NEW l \in Launches, Silent(l) PROVE Silent(l)'
  <2>1. l # u
    BY <1>2, <1>4, <1>6 DEF Silent
  <2>2. unit'[l] = "unloaded"
    BY <1>4, <1>5, <1>6, <2>1 DEF Silent
  <2>3. \A k \in DOMAIN queue' : queue'[k].unit # l
    BY <1>3, <1>6, <2>1 DEF Silent, Fresh
  <2>. QED  BY <2>2, <2>3 DEF Silent
<1>7. LaunchShape'
  BY <1>1 DEF LaunchShape, Listed
<1>8. UnstartedSilent'
  BY <1>1, <1>6 DEF UnstartedSilent
<1>9. IdsTellUnits' /\ SplashKnown' /\ LaunchTypeKept'
  BY <1>1 DEF IdsTellUnits, SplashKnown, LaunchTypeKept, Listed
<1>10. SplashWaits'
  BY <1>1, <1>3 DEF SplashWaits, Fresh, Begun, Removal
<1>11. RemovalIsLast'
  <2>. SUFFICES ASSUME NEW l \in Launches, launch[l].resources = 1,
                       NEW k \in DOMAIN queue', queue'[k] = Removal(l)
                PROVE  unit'[l] = "unloaded" /\ \A j \in DOMAIN queue' : j > k => queue'[j].unit # l
    BY <1>1 DEF RemovalIsLast, Removal
  <2>1. CASE k \in DOMAIN queue
    <3>1. unit[l] = "unloaded" /\ \A j \in DOMAIN queue : j > k => queue[j].unit # l
      BY <1>3, <2>1 DEF RemovalIsLast
    <3>2. l # u
      BY <1>2, <1>4, <3>1
    <3>. QED  BY <1>3, <1>4, <1>5, <3>1, <3>2 DEF Fresh
  <2>2. CASE k \in Fresh
    <3>1. l = u /\ to = "unloaded"
      BY <1>3, <2>2 DEF Removal
    <3>2. \A j \in DOMAIN queue' : j > k => j \in Fresh
      BY <1>3, <2>2 DEF Fresh
    <3>3. \A j \in DOMAIN queue' : ~ (j > k)
      BY <1>3, <2>2, <3>1, <3>2
    <3>. QED  BY <1>4, <3>1, <3>3
  <2>. QED  BY <2>1, <2>2 DEF Fresh
<1>12. TypeWaits'
  BY <1>1, <1>6 DEF TypeWaits
<1>13. CountWaits' /\ LaunchCountedOnce'
  <2>1. \A k \in Fresh, l \in Launches : queue'[k] # Begun(l)
    <3>1. u \in Launches => \A j \in DOMAIN sigs : sigs[j] # "UnitNew"
      <4>1. CASE sigs = <<>>
        BY <4>1
      <4>2. CASE sigs = <<"JobNew">>
        BY <4>2
      <4>3. CASE sigs = <<"UnitRemoved">>
        BY <4>3
      <4>. QED  BY <1>0, <4>1, <4>2, <4>3
    <3>. QED  BY <1>2, <3>1, MoveBegins DEF IInv
  <2>2. ASSUME NEW l \in Launches, NEW k \in DOMAIN queue', queue'[k] = Begun(l)
        PROVE  /\ k \in DOMAIN queue /\ queue[k] = Begun(l)
               /\ \A j \in DOMAIN queue' : j < k => j \in DOMAIN queue /\ queue'[j] = queue[j]
    <3>1. k \in DOMAIN queue
      BY <2>1, <2>2 DEF Fresh
    <3>2. \A j \in Fresh : ~ (j < k)
      BY <1>3, <3>1 DEF Fresh
    <3>. QED  BY <1>3, <2>2, <3>1, <3>2 DEF Fresh
  <2>. QED  BY <1>1, <1>6, <2>2, CountsStand
<1>. QED  BY <1>7, <1>8, <1>9, <1>10, <1>11, <1>12, <1>13

(* The helper starts the unit: of this launch nothing was heard, or it was *)
(* started before by another helper.                                       *)
LEMMA HelperStartsLInv ==
  ASSUME IInv, LInv, NEW l \in Launches, HelperStartsUnit(l)
  PROVE  LInv'
<1>. USE DEF LInv
<1>. DEFINE sigs == <<"UnitNew", "JobNew">>
<1>1. /\ UNCHANGED <<am, entry, m_Instances, orphanedInstances, bus, m_pendingLaunchTypes,
                     m_splashInstanceIds, counted>>
      /\ Known' = Known
      /\ Move(l, "unloaded", "active", sigs) /\ launch[l].left > 0
  BY DEF HelperStartsUnit, startupVars, registryVars, Known
<1>2. sigs \in Seq(SigNames) /\ Len(sigs) = 2 /\ sigs[1] = "UnitNew" /\ l \in Units
      /\ \A k \in DOMAIN sigs : sigs[k] # "UnitRemoved"
  BY SigSeqs DEF Units
<1>. HIDE DEF sigs
<1>3. /\ \A k \in DOMAIN queue : k \in DOMAIN queue' /\ queue'[k] = queue[k]
      /\ \A k \in Fresh : /\ queue'[k].unit = l /\ \A j \in DOMAIN queue : j < k
                          /\ queue'[k] # Removal(l)
      /\ DOMAIN queue \subseteq Nat /\ DOMAIN queue' \subseteq Nat
  BY <1>1, <1>2, MoveSignals DEF IInv
<1>4. am = "up"
  BY <1>1 DEF LaunchShape
<1>5. Len(queue) + 1 \in Fresh /\ queue'[Len(queue) + 1] = Begun(l)
  <2>1. queue \in Seq(Signal) /\ queue' \in Seq(Signal)
    BY <1>1, <1>2, EmitQueue DEF Move, IInv, TypeOK
  <2>2. /\ Len(queue') = Len(queue) + 2
        /\ queue'[Len(queue) + 1] = [sig |-> sigs[1], unit |-> l]
    <3>1. Emit(l, sigs) /\ am # "down"
      BY <1>1, <1>4 DEF Move
    <3>2. /\ Len(queue') = Len(queue) + Len(sigs)
          /\ \A k \in 1..Len(sigs) : queue'[Len(queue) + k] = [sig |-> sigs[k], unit |-> l]
      BY <1>2, <2>1, <3>1, EmitQueue
    <3>. QED  BY <1>2, <3>2
  <2>. QED  BY <1>2, <2>1, <2>2 DEF Fresh, Begun
<1>23. /\ queue \in Seq(Signal) /\ queue' \in Seq(Signal) /\ Len(queue') = Len(queue) + 2
       /\ queue'[Len(queue) + 2].sig = "JobNew"
  <2>1. queue \in Seq(Signal) /\ queue' \in Seq(Signal)
    BY <1>1, <1>2, EmitQueue DEF Move, IInv, TypeOK
  <2>2. Emit(l, sigs) /\ am # "down" /\ sigs[2] = "JobNew"
    BY <1>1, <1>4 DEF Move, sigs
  <2>3. /\ Len(queue') = Len(queue) + Len(sigs)
        /\ \A k \in 1..Len(sigs) : queue'[Len(queue) + k] = [sig |-> sigs[k], unit |-> l]
    BY <1>2, <2>1, <2>2, EmitQueue
  <2>. QED  BY <1>2, <2>1, <2>2, <2>3
<1>6. /\ unit[l] = "unloaded" /\ unit'[l] = "active"
      /\ \A v \in Units : v # l => unit'[v] = unit[v]
  BY <1>1, <1>2 DEF Move, IInv, TypeOK
<1>7. /\ launch[l].left \in Nat
      /\ launch' \in [Launches -> LaunchState]
      /\ \A m \in Launches : m # l => launch'[m] = launch[m]
      /\ launch'[l].phase = launch[l].phase /\ launch'[l].type = launch[l].type
      /\ launch'[l].resources = launch[l].resources
      /\ launch'[l].left = launch[l].left - 1 /\ launch'[l].started
  <2>1. launch \in [Launches -> LaunchState]
    BY DEF IInv, TypeOK, LaunchState
  <2>2. launch'[l] = [launch[l] EXCEPT !.left = @ - 1, !.started = TRUE, !.waiting = TRUE]
    BY <2>1 DEF HelperStartsUnit
  <2>3. launch[l] \in LaunchState
    BY <2>1
  <2>. QED  BY <2>1, <2>2, <2>3, LaunchStep DEF HelperStartsUnit, IInv, LaunchState
<1>8. launch[l].resources = 1 => ~ launch[l].started /\ launch[l].left = 1
  BY <1>1 DEF LaunchShape
<1>9. launch[l].resources = 1 => Silent(l) /\ \A i \in Known : i.unit # l
  BY <1>8 DEF UnstartedSilent
<1>10. \A m \in Launches : m \in Units
  BY DEF Units
<1>11. \A m \in Launches : m # l /\ Silent(m) => Silent(m)'
  BY <1>3, <1>6, <1>10 DEF Silent, Fresh
<1>12. LaunchShape'
  BY <1>1, <1>7, <1>8 DEF LaunchShape, Listed
<1>13. UnstartedSilent'
  BY <1>1, <1>7, <1>11 DEF UnstartedSilent
<1>14. IdsTellUnits'
  BY <1>1 DEF IdsTellUnits
<1>15. m_splashInstanceIds \subseteq Launches
  BY DEF IInv, TypeOK
<1>16. SplashKnown'
  BY <1>1, <1>7, <1>15 DEF SplashKnown, Listed
<1>17. SplashWaits'
  <2>. SUFFICES ASSUME NEW m \in m_splashInstanceIds, launch'[m].started
                PROVE  \/ \E i \in m_Instances : i.unit = m
                       \/ \E k \in DOMAIN queue' : queue'[k] = Begun(m) /\
                             \A j \in DOMAIN queue' : j < k => queue'[j] # Removal(m)
    BY <1>1 DEF SplashWaits, Begun, Removal
  <2>1. CASE launch[m].started
    BY <1>3, <2>1 DEF SplashWaits, Fresh
  <2>2. CASE ~ launch[m].started
    <3>1. m = l /\ Silent(l)
      BY <1>7, <1>15, <2>2 DEF UnstartedSilent
    <3>2. \A j \in DOMAIN queue : queue[j] # Removal(l)
      BY <3>1 DEF Silent, Removal
    <3>3. \A j \in DOMAIN queue' : queue'[j] # Removal(l)
      BY <1>3, <3>2 DEF Fresh
    <3>. QED  BY <1>5, <3>1, <3>3 DEF Fresh
  <2>. QED  BY <2>1, <2>2
<1>18. RemovalIsLast'
  <2>. SUFFICES ASSUME NEW m \in Launches, launch'[m].resources = 1,
                       NEW k \in DOMAIN queue', queue'[k] = Removal(m)
                PROVE  unit'[m] = "unloaded" /\ \A j \in DOMAIN queue' : j > k => queue'[j].unit # m
    BY DEF RemovalIsLast, Removal
  <2>1. launch[m].resources = 1
    BY <1>7
  <2>2. k \in DOMAIN queue
    BY <1>3 DEF Fresh, Removal
  <2>3. m # l
    BY <1>3, <1>9, <2>1, <2>2 DEF Silent, Removal
  <2>. QED  BY <1>3, <1>6, <1>10, <2>1, <2>2, <2>3 DEF RemovalIsLast, Fresh
<1>19. TypeWaits'
  BY <1>1, <1>7, <1>8, <1>11 DEF TypeWaits
<1>20. LaunchTypeKept'
  BY <1>1, <1>7 DEF LaunchTypeKept
<1>21. LaunchCountedOnce'
  BY <1>1, <1>7 DEF LaunchCountedOnce
<1>22. CountWaits'
  <2>. SUFFICES ASSUME NEW m \in Launches
                PROVE  /\ ~ launch'[m].started => counted[m].times = 0
                       /\ launch'[m].resources = 1 =>
                            /\ \A k \in DOMAIN queue' : queue'[k] = Begun(m) =>
                                  /\ counted[m].times = 0
                                  /\ \A i \in Known : i.unit # m
                                  /\ \A j \in DOMAIN queue' : j < k => queue'[j].unit # m
                            /\ (\A i \in Known : i.unit # m) =>
                                  counted[m].times = 0 \/ Silent(m)'
    BY <1>1 DEF CountWaits, Begun
  <2>1. CASE m # l
    <3>1. launch'[m] = launch[m] /\ (Silent(m) => Silent(m)')
      BY <1>7, <1>11, <2>1
    <3>2. ASSUME launch[m].resources = 1, NEW k \in DOMAIN queue', queue'[k] = Begun(m)
          PROVE  /\ counted[m].times = 0
                 /\ \A i \in Known : i.unit # m
                 /\ \A j \in DOMAIN queue' : j < k => queue'[j].unit # m
      <4>1. k \in DOMAIN queue /\ queue[k] = Begun(m)
        BY <1>3, <2>1, <3>2 DEF Fresh, Begun
      <4>. QED  BY <1>3, <2>1, <3>2, <4>1 DEF CountWaits, Fresh
    <3>. QED  BY <3>1, <3>2 DEF CountWaits
  <2>2. CASE m = l
    <3>1. ASSUME launch[l].resources = 1, NEW k \in DOMAIN queue', queue'[k] = Begun(l)
          PROVE  \A j \in DOMAIN queue' : j < k => queue'[j].unit # l
      <4>1. \A j \in DOMAIN queue : queue[j].unit # l
        BY <1>9, <3>1 DEF Silent
      <4>2. k = Len(queue) + 1
        BY <1>3, <1>23, <3>1, <4>1 DEF Fresh, Begun
      <4>3. \A j \in DOMAIN queue' : j < k => j \in DOMAIN queue
        BY <1>23, <4>2
      <4>. QED  BY <1>3, <4>1, <4>3
    <3>. QED  BY <1>7, <1>8, <1>9, <2>2, <3>1 DEF CountWaits
  <2>. QED  BY <2>1, <2>2
<1>. QED  BY <1>12, <1>13, <1>14, <1>16, <1>17, <1>18, <1>19, <1>20, <1>21, <1>22

(* A helper ends: a launch that failed counts for nothing any more.        *)
LEMMA HelperEndsLInv ==
  ASSUME IInv, LInv, NEW l \in Launches, HelperFails(l) \/ HelperReturns(l)
  PROVE  LInv'
<1>. USE DEF LInv
<1>1. /\ UNCHANGED <<am, entry, unit, queue, m_Instances, orphanedInstances, bus, counted,
                     m_splashInstanceIds>>
      /\ Known' = Known
  BY DEF HelperFails, HelperReturns, startupVars, registryVars, Known
<1>2. launch \in [Launches -> LaunchState] /\ launch[l] \in LaunchState
  BY DEF IInv, TypeOK, LaunchState
<1>3. /\ \A m \in Launches : m # l => launch'[m] = launch[m]
      /\ launch'[l].type = launch[l].type
      /\ launch'[l].resources = launch[l].resources
      /\ launch'[l].started = launch[l].started
      /\ launch'[l].left = launch[l].left \/ (launch[l].left > 0 /\ launch'[l].left = launch[l].left - 1)
      /\ launch'[l].phase = launch[l].phase \/ (launch[l].phase = "running" /\ launch'[l].phase = "failed")
  BY <1>2 DEF HelperFails, HelperReturns, LaunchState
<1>4. HelperFails(l) => launch'[l].phase # "running"
  BY <1>2 DEF HelperFails, LaunchState
<1>5. \A m \in m_pendingLaunchTypes : m # l \/ HelperReturns(l) => m \in m_pendingLaunchTypes'
  BY DEF HelperFails, HelperReturns
<1>6. LaunchShape'
  <2>1. launch[l].left \in Nat
    BY <1>2 DEF LaunchState
  <2>. QED  BY <1>1, <1>3, <2>1 DEF LaunchShape, Listed
<1>7. UnstartedSilent' /\ IdsTellUnits' /\ RemovalIsLast' /\ LaunchTypeKept'
  BY <1>1, <1>3 DEF UnstartedSilent, Silent, IdsTellUnits, RemovalIsLast, Removal, LaunchTypeKept
<1>8. m_splashInstanceIds \subseteq Launches
  BY DEF IInv, TypeOK
<1>9. SplashKnown' /\ SplashWaits'
  BY <1>1, <1>3, <1>8 DEF SplashKnown, SplashWaits, Begun, Removal, Listed
<1>10. TypeWaits'
  <2>. SUFFICES ASSUME NEW m \in Launches, launch'[m].phase = "running", launch'[m].resources = 1
                PROVE  \/ m \in m_pendingLaunchTypes' \/ <<UnitApp[m], m>> \in bus
                       \/ (launch'[m].started /\ Silent(m))
    BY <1>1 DEF TypeWaits, Silent
  <2>1. launch[m].phase = "running" /\ launch[m].resources = 1 /\ launch'[m].started = launch[m].started
    BY <1>3
  <2>2. m \in m_pendingLaunchTypes => m \in m_pendingLaunchTypes'
    BY <1>4, <1>5
  <2>. QED  BY <2>1, <2>2 DEF TypeWaits
<1>11. CountWaits' /\ LaunchCountedOnce'
  BY <1>1, <1>3 DEF CountWaits, LaunchCountedOnce, Silent, Begun
<1>. QED  BY <1>6, <1>7, <1>9, <1>10, <1>11

-----------------------------------------------------------------------------
(***************************************************************************)
(* Signals.                                                                *)
(***************************************************************************)

(* What any signal leaves alone.                                           *)
LEMMA HandleKeeps ==
  ASSUME IInv, LInv, NEW sig, NEW u, Handle(sig, u)
  PROVE  LaunchShape' /\ RemovalIsLast'
<1>1. /\ \A k \in DOMAIN queue' : k + 1 \in DOMAIN queue /\ queue'[k] = queue[k + 1]
      /\ DOMAIN queue \subseteq Nat /\ DOMAIN queue' \subseteq Nat
  BY HandleSignals DEF IInv
<1>2. UNCHANGED <<am, entry, unit, launch>>
  BY DEF Handle, startupVars
<1>3. LaunchShape'
  BY <1>2 DEF LInv, LaunchShape, Listed
<1>4. RemovalIsLast'
  <2>. SUFFICES ASSUME NEW l \in Launches, launch[l].resources = 1,
                       NEW k \in DOMAIN queue', queue'[k] = Removal(l)
                PROVE  unit[l] = "unloaded" /\ \A j \in DOMAIN queue' : j > k => queue'[j].unit # l
    BY <1>2 DEF RemovalIsLast, Removal
  <2>1. queue[k + 1] = Removal(l) /\ k + 1 \in DOMAIN queue
    BY <1>1
  <2>2. \A j \in DOMAIN queue' : j > k => j + 1 > k + 1
    BY <1>1
  <2>. QED  BY <1>1, <2>1, <2>2 DEF LInv, RemovalIsLast
<1>. QED  BY <1>3, <1>4

(* A UnitNew at some place in the queue, with no UnitRemoved before it, is *)
(* nearer by one after another signal.                                     *)
LEMMA HandleWaits ==
  ASSUME IInv, NEW sig, NEW u, Handle(sig, u), NEW l, NEW k \in DOMAIN queue,
         k # 1, queue[k] = Begun(l), \A j \in DOMAIN queue : j < k => queue[j] # Removal(l)
  PROVE  \E i \in DOMAIN queue' :
            queue'[i] = Begun(l) /\ \A j \in DOMAIN queue' : j < i => queue'[j] # Removal(l)
<1>1. /\ k - 1 \in DOMAIN queue' /\ queue'[k - 1] = queue[k]
      /\ \A j \in DOMAIN queue' : j + 1 \in DOMAIN queue /\ queue'[j] = queue[j + 1]
      /\ DOMAIN queue \subseteq Nat /\ DOMAIN queue' \subseteq Nat
  BY HandleSignals DEF IInv
<1>2. \A j \in DOMAIN queue' : j < k - 1 => j + 1 < k
  BY <1>1
<1>. QED  BY <1>1, <1>2

(* What begins in the queue did so before, with the same signals ahead of  *)
(* it but the one handled.                                                 *)
LEMMA HandleBegins ==
  ASSUME TypeOK, NEW sig, NEW u, Handle(sig, u), NEW l, NEW k \in DOMAIN queue',
         queue'[k] = Begun(l)
  PROVE  \E i \in DOMAIN queue :
            /\ i > 1 /\ queue[i] = Begun(l)
            /\ \A j \in DOMAIN queue' : j < k =>
                  \E h \in DOMAIN queue : h < i /\ queue'[j] = queue[h]
<1>1. /\ \A j \in DOMAIN queue' : j + 1 \in DOMAIN queue /\ queue'[j] = queue[j + 1]
      /\ DOMAIN queue' \subseteq Nat \ {0}
  BY HandleSignals
<1>2. k + 1 > 1 /\ \A j \in DOMAIN queue' : j < k => j + 1 < k + 1
  BY <1>1
<1>. QED  BY <1>1, <1>2

(* The first word of a unit started once counts and adds the instance, or  *)
(* a later one does if the first was not for a listed application.         *)
LEMMA StartedCounts ==
  ASSUME IInv, LInv, NEW sig \in {"UnitNew", "JobNew"}, NEW u \in Units, Handle(sig, u),
         NEW id \in InstanceIds(u), UpdateAfterLaunch(id),
         sig = "JobNew" => InstancesOf(UnitApp[u]) = {},
         NEW new, new.unit = u, new.id = id,
         UNCHANGED <<launch, orphanedInstances>>, m_Instances \subseteq m_Instances',
         id \in Launches \/ u \in Launches => id = u,
         \A i \in m_Instances' : i \in m_Instances \/ i = new,
         new \in m_Instances' \/ <<UnitApp[u], id>> \in bus
  PROVE  CountWaits' /\ LaunchCountedOnce'
<1>. USE DEF LInv
<1>1. /\ \A l \in Launches : l # u => counted'[l] = counted[l]
      /\ u \in Launches =>
           \/ counted'[u].times = counted[u].times + 1
           \/ counted'[u].times = counted[u].times /\ counted'[u].refused
  BY UpdateType DEF IInv
<1>2. \A i \in Known' : i \in Known \/ i.unit = u
  BY DEF Known
<1>3. Known \subseteq Known'
  BY DEF Known
<1>4. 1 \in DOMAIN queue /\ queue[1] = [sig |-> sig, unit |-> u]
  BY HandleSignals DEF IInv
<1>5. \A l \in Launches : (Silent(l) => Silent(l)') /\ (Silent(l) => l # u)
  BY <1>4, HandleSilent DEF Silent, IInv
<1>6. ASSUME NEW l \in Launches, NEW k \in DOMAIN queue', queue'[k] = Begun(l)
      PROVE  \E i \in DOMAIN queue :
               /\ i > 1 /\ queue[i] = Begun(l)
               /\ \A j \in DOMAIN queue' : j < k =>
                     \E h \in DOMAIN queue : h < i /\ queue'[j] = queue[h]
  BY <1>6, HandleBegins DEF IInv
<1>7. ASSUME u \in Launches, launch[u].resources = 1, \A i \in orphanedInstances : i.unit # u
      PROVE  counted[u].times = 0 /\ new \in m_Instances'
  <2>1. \A i \in m_Instances : i.unit # u
    <3>1. CASE sig = "UnitNew"
      BY <1>4, <1>7, <3>1 DEF CountWaits, Begun, Known
    <3>2. CASE sig = "JobNew"
      <4>1. \A i \in m_Instances : i.app = UnitApp[i.unit]
        BY DEF IInv, BusIsRegistry
      <4>. QED  BY <3>2, <4>1 DEF InstancesOf
    <3>. QED  BY <3>1, <3>2
  <2>2. \A i \in Known : i.unit # u
    BY <1>7, <2>1 DEF Known
  <2>3. counted[u].times = 0
    BY <1>5, <1>7, <2>2 DEF CountWaits
  <2>4. <<UnitApp[u], id>> \notin bus
    <3>. SUFFICES ASSUME <<UnitApp[u], id>> \in bus PROVE FALSE
      OBVIOUS
    <3>1. PICK i \in Known : Path(i) = <<UnitApp[u], id>>
      BY DEF IInv, BusIsRegistry, Paths, Known
    <3>2. i.id = u
      BY <1>7, <3>1 DEF Path
    <3>. QED  BY <1>7, <2>2, <3>1, <3>2 DEF IdsTellUnits
  <2>. QED  BY <2>3, <2>4
<1>8. LaunchCountedOnce'
  <2>. SUFFICES ASSUME NEW l \in Launches, launch[l].resources = 1,
                       \A i \in orphanedInstances : i.unit # l
                PROVE  /\ counted'[l].times <= 1
                       /\ (\E i \in m_Instances' : i.unit = l) =>
                             counted'[l].times = 1 \/ counted'[l].refused
    BY DEF LaunchCountedOnce
  <2>1. CASE l = u
    BY <1>1, <1>7, <2>1
  <2>2. CASE l # u
    BY <1>1, <2>2 DEF LaunchCountedOnce
  <2>. QED  BY <2>1, <2>2
<1>9. ASSUME NEW l \in Launches
      PROVE  ~ launch[l].started => counted'[l].times = 0
  <2>1. ~ launch[l].started => l # u
    BY <1>5 DEF UnstartedSilent
  <2>. QED  BY <1>1, <2>1 DEF CountWaits
<1>10. ASSUME NEW l \in Launches, launch[l].resources = 1,
              NEW k \in DOMAIN queue', queue'[k] = Begun(l)
       PROVE  /\ counted'[l].times = 0
              /\ \A i \in Known' : i.unit # l
              /\ \A j \in DOMAIN queue' : j < k => queue'[j].unit # l
  <2>1. PICK i \in DOMAIN queue :
          /\ i > 1 /\ queue[i] = Begun(l)
          /\ \A j \in DOMAIN queue' : j < k => \E h \in DOMAIN queue : h < i /\ queue'[j] = queue[h]
    BY <1>6, <1>10
  <2>2. l # u
    BY <1>4, <1>10, <2>1 DEF CountWaits
  <2>. QED  BY <1>1, <1>2, <1>10, <2>1, <2>2 DEF CountWaits
<1>11. ASSUME NEW l \in Launches, launch[l].resources = 1, \A i \in Known' : i.unit # l
       PROVE  counted'[l].times = 0 \/ Silent(l)'
  <2>1. \A i \in Known : i.unit # l
    BY <1>3, <1>11
  <2>2. CASE l # u
    BY <1>1, <1>5, <1>11, <2>1, <2>2 DEF CountWaits
  <2>3. CASE l = u
    BY <1>7, <1>11, <2>1, <2>3 DEF Known
  <2>. QED  BY <2>2, <2>3
<1>12. CountWaits'
  BY <1>9, <1>10, <1>11 DEF CountWaits, Begun
<1>. QED  BY <1>8, <1>12

(* handleUnitStarted for a signal.                                         *)
LEMMA StartedLInv ==
  ASSUME IInv, LInv, NEW sig \in {"UnitNew", "JobNew"}, NEW u \in Units, Handle(sig, u),
         NEW id \in InstanceIds(u), HandleUnitStarted(UnitApp[u], id, u),
         sig = "JobNew" => InstancesOf(UnitApp[u]) = {},
         UNCHANGED m_splashInstanceIds
  PROVE  LInv'
<1>. USE DEF LInv
<1>. DEFINE t   == IF id \in m_pendingLaunchTypes THEN launch[id].type ELSE Unknown
            new == [app |-> UnitApp[u], id |-> id, unit |-> u, type |-> t]
<1>1. /\ UNCHANGED <<am, entry, unit, launch, orphanedInstances, m_splashInstanceIds>>
      /\ m_pendingLaunchTypes' = m_pendingLaunchTypes \ {id}
      /\ AddOneInstance(UnitApp[u], id, u, t)
  BY DEF Handle, startupVars, HandleUnitStarted
<1>2. /\ m_Instances \subseteq m_Instances' /\ bus \subseteq bus' /\ <<UnitApp[u], id>> \in bus'
      /\ \A i \in m_Instances' : i \in m_Instances \/ (i = new /\ <<UnitApp[u], id>> \notin bus)
      /\ new \in m_Instances' \/ <<UnitApp[u], id>> \in bus
  BY <1>1 DEF AddOneInstance
<1>3. \A i \in Known' : i \in Known \/ i = new
  BY <1>1, <1>2 DEF Known
<1>4. id \in Launches \/ u \in Launches => id = u
  BY UnitsAssumption DEF InstanceIds, FreeUuids
<1>5. /\ 1 \in DOMAIN queue /\ queue[1] = [sig |-> sig, unit |-> u]
  BY HandleSignals DEF IInv
<1>6. \A l \in Launches : Silent(l) => Silent(l)' /\ l # u
  BY <1>5, HandleSilent DEF Silent, IInv
<1>7. new.unit = u /\ new.id = id /\ new.type = t
  OBVIOUS
<1>. HIDE DEF new
<1>8. UnstartedSilent'
  BY <1>1, <1>3, <1>6, <1>7 DEF UnstartedSilent
<1>9. IdsTellUnits'
  BY <1>3, <1>4, <1>7 DEF IdsTellUnits
<1>10. SplashKnown'
  BY <1>1 DEF SplashKnown, Listed
<1>11. SplashWaits'
  <2>. SUFFICES ASSUME NEW l \in m_splashInstanceIds, launch[l].started,
                       \A i \in m_Instances' : i.unit # l
                PROVE  \E k \in DOMAIN queue' :
                          queue'[k] = Begun(l) /\ \A j \in DOMAIN queue' : j < k => queue'[j] # Removal(l)
    BY <1>1 DEF SplashWaits, Begun, Removal
  <2>0. l \in Launches
    BY DEF IInv, TypeOK
  <2>1. PICK k \in DOMAIN queue :
           queue[k] = Begun(l) /\ \A j \in DOMAIN queue : j < k => queue[j] # Removal(l)
    BY <1>2 DEF SplashWaits
  <2>2. k # 1
    <3>. SUFFICES ASSUME k = 1 PROVE FALSE
      OBVIOUS
    <3>1. u = l /\ id = l
      BY <1>4, <1>5, <2>0, <2>1 DEF Begun
    <3>2. <<UnitApp[l], l>> \in bus
      BY <1>2, <1>7, <3>1
    <3>3. PICK i \in Known : Path(i) = <<UnitApp[l], l>>
      BY <3>2 DEF IInv, BusIsRegistry, Paths, Known
    <3>4. i.unit = l
      BY <2>0, <3>3 DEF IdsTellUnits, Path
    <3>. QED  BY <1>2, <3>4 DEF SplashKnown, Known
  <2>. QED  BY <2>1, <2>2, HandleWaits
<1>12. TypeWaits'
  <2>. SUFFICES ASSUME NEW l \in Launches, launch[l].phase = "running", launch[l].resources = 1
                PROVE  \/ l \in m_pendingLaunchTypes' \/ <<UnitApp[l], l>> \in bus'
                       \/ (launch[l].started /\ Silent(l)')
    BY <1>1 DEF TypeWaits
  <2>. QED  BY <1>1, <1>2, <1>4, <1>6 DEF TypeWaits
<1>13. LaunchTypeKept'
  <2>. SUFFICES ASSUME NEW i \in m_Instances', i.unit \in Launches, launch[i.unit].phase = "running",
                       launch[i.unit].resources = 1
                PROVE  i.type = launch[i.unit].type
    BY <1>1 DEF LaunchTypeKept
  <2>1. CASE i \in m_Instances
    BY <2>1 DEF LaunchTypeKept
  <2>2. CASE i = new /\ <<UnitApp[u], id>> \notin bus
    <3>1. u \in Launches /\ id = u /\ ~ Silent(u)
      BY <1>4, <1>6, <1>7, <2>2
    <3>2. u \in m_pendingLaunchTypes
      BY <1>7, <2>2, <3>1 DEF TypeWaits
    <3>. QED  BY <1>7, <2>2, <3>1, <3>2
  <2>. QED  BY <1>2, <2>1, <2>2
<1>14. CountWaits' /\ LaunchCountedOnce'
  <2>1. UpdateAfterLaunch(id)
    BY DEF HandleUnitStarted
  <2>2. /\ \A i \in m_Instances' : i \in m_Instances \/ i = new
        /\ new \in m_Instances' \/ <<UnitApp[u], id>> \in bus
    BY <1>2
  <2>. QED  BY <1>1, <1>2, <1>4, <1>7, <2>1, <2>2, StartedCounts
<1>. QED  BY <1>8, <1>9, <1>10, <1>11, <1>12, <1>13, <1>14, HandleKeeps

(* A signal that starts nothing: a UnitNew only if the application is not  *)
(* listed.                                                                 *)
LEMMA IgnoredLInv ==
  ASSUME IInv, LInv, NEW sig \in {"UnitNew", "JobNew"}, NEW u \in Units, Handle(sig, u),
         sig = "UnitNew" => ~ Listed(UnitApp[u]),
         UNCHANGED <<m_Instances, bus, m_pendingLaunchTypes, m_splashInstanceIds, counted>>
  PROVE  LInv'
<1>. USE DEF LInv
<1>1. /\ UNCHANGED <<am, entry, unit, launch, orphanedInstances, m_Instances, bus,
                     m_pendingLaunchTypes, m_splashInstanceIds>>
      /\ Known' = Known
  BY DEF Handle, startupVars, Known
<1>2. 1 \in DOMAIN queue /\ queue[1] = [sig |-> sig, unit |-> u]
  BY HandleSignals DEF IInv
<1>3. \A l \in Launches : Silent(l) => Silent(l)'
  BY HandleSilent DEF IInv
<1>4. UnstartedSilent' /\ IdsTellUnits' /\ SplashKnown' /\ TypeWaits' /\ LaunchTypeKept'
  BY <1>1, <1>3 DEF UnstartedSilent, IdsTellUnits, SplashKnown, TypeWaits, LaunchTypeKept, Listed
<1>5. SplashWaits'
  <2>. SUFFICES ASSUME NEW l \in m_splashInstanceIds, launch[l].started,
                       \A i \in m_Instances : i.unit # l
                PROVE  \E k \in DOMAIN queue' :
                          queue'[k] = Begun(l) /\ \A j \in DOMAIN queue' : j < k => queue'[j] # Removal(l)
    BY <1>1 DEF SplashWaits, Begun, Removal
  <2>1. PICK k \in DOMAIN queue :
           queue[k] = Begun(l) /\ \A j \in DOMAIN queue : j < k => queue[j] # Removal(l)
    BY DEF SplashWaits
  <2>2. k # 1
    BY <1>2, <2>1 DEF SplashKnown, Begun
  <2>. QED  BY <2>1, <2>2, HandleWaits
<1>6. CountWaits' /\ LaunchCountedOnce'
  BY <1>1, <1>3, HandleBegins, CountsStand DEF IInv
<1>. QED  BY <1>4, <1>5, <1>6, HandleKeeps

(* onUnitRemoved: an instance of a launch that goes takes its splash along *)
(* and leaves nothing to be heard of its unit.                             *)
LEMMA RemovedLInv ==
  ASSUME IInv, LInv, NEW u \in Units, HandleUnitRemoved(u)
  PROVE  LInv'
<1>. USE DEF LInv
<1>1. /\ Handle("UnitRemoved", u)
      /\ UNCHANGED <<am, entry, unit, launch, orphanedInstances, m_pendingLaunchTypes, counted>>
  BY DEF HandleUnitRemoved, Handle, startupVars
<1>2. /\ 1 \in DOMAIN queue /\ queue[1] = Removal(u)
      /\ DOMAIN queue \subseteq Nat \ {0} /\ DOMAIN queue' \subseteq Nat \ {0}
      /\ \A k \in DOMAIN queue' : k + 1 \in DOMAIN queue /\ queue'[k] = queue[k + 1]
  BY <1>1, HandleSignals DEF IInv, Removal
<1>3. \/ UNCHANGED <<m_Instances, bus, m_splashInstanceIds>>
      \/ \E i \in m_Instances : i.unit = u /\ RemoveOneInstance(i)
  BY DEF HandleUnitRemoved, InstancesOf
<1>4. /\ m_Instances' \subseteq m_Instances /\ m_splashInstanceIds' \subseteq m_splashInstanceIds
      /\ Known' \subseteq Known
  BY <1>1, <1>3 DEF RemoveOneInstance, Known
<1>5. \A l \in Launches : Silent(l) => Silent(l)'
  BY <1>1, HandleSilent DEF IInv
<1>6. UnstartedSilent' /\ IdsTellUnits' /\ SplashKnown' /\ LaunchTypeKept'
  BY <1>1, <1>4, <1>5 DEF UnstartedSilent, IdsTellUnits, SplashKnown, LaunchTypeKept, Listed
<1>7. SplashWaits'
  <2>. SUFFICES ASSUME NEW l \in m_splashInstanceIds', launch[l].started,
                       \A i \in m_Instances' : i.unit # l
                PROVE  \E k \in DOMAIN queue' :
                          queue'[k] = Begun(l) /\ \A j \in DOMAIN queue' : j < k => queue'[j] # Removal(l)
    BY <1>1 DEF SplashWaits, Begun, Removal
  <2>1. l \in m_splashInstanceIds /\ l \in Launches
    BY <1>4 DEF IInv, TypeOK
  <2>2. \A i \in m_Instances : i.unit # l
    <3>. SUFFICES ASSUME NEW i \in m_Instances, i.unit = l PROVE FALSE
      OBVIOUS
    <3>1. i.id = l
      BY <2>1 DEF IInv, LaunchIdIsUnit
    <3>2. RemoveOneInstance(i)
      BY <1>3 DEF RemoveOneInstance
    <3>. QED  BY <3>1, <3>2 DEF RemoveOneInstance
  <2>3. PICK k \in DOMAIN queue :
           queue[k] = Begun(l) /\ \A j \in DOMAIN queue : j < k => queue[j] # Removal(l)
    BY <2>1, <2>2 DEF SplashWaits
  <2>4. k # 1
    BY <1>2, <2>3 DEF Begun, Removal
  <2>. QED  BY <1>1, <2>3, <2>4, HandleWaits
<1>8. TypeWaits'
  <2>. SUFFICES ASSUME NEW l \in Launches, launch[l].phase = "running", launch[l].resources = 1,
                       <<UnitApp[l], l>> \in bus, <<UnitApp[l], l>> \notin bus'
                PROVE  launch[l].started /\ Silent(l)'
    BY <1>1, <1>5 DEF TypeWaits
  <2>1. PICK i \in m_Instances : i.unit = u /\ Path(i) = <<UnitApp[l], l>>
    BY <1>3 DEF RemoveOneInstance
  <2>2. u = l /\ i \in Known
    BY <2>1 DEF IdsTellUnits, Known, Path
  <2>3. launch[l].started
    BY <2>1, <2>2 DEF UnstartedSilent
  <2>4. unit[l] = "unloaded" /\ \A j \in DOMAIN queue : j > 1 => queue[j].unit # l
    BY <1>2, <2>2 DEF RemovalIsLast
  <2>5. \A k \in DOMAIN queue' : k + 1 > 1
    BY <1>2
  <2>. QED  BY <1>1, <1>2, <2>3, <2>4, <2>5 DEF Silent
<1>9. LaunchCountedOnce'
  BY <1>1, <1>4 DEF LaunchCountedOnce
<1>10. CountWaits'
  <2>1. ASSUME NEW l \in Launches, launch[l].resources = 1
        PROVE  (\A i \in Known' : i.unit # l) => counted[l].times = 0 \/ Silent(l)'
    <3>1. CASE \A i \in Known : i.unit # l
      BY <1>5, <2>1, <3>1 DEF CountWaits
    <3>2. CASE l = u
      <4>1. unit[l] = "unloaded" /\ \A j \in DOMAIN queue : j > 1 => queue[j].unit # l
        BY <1>2, <2>1, <3>2 DEF RemovalIsLast
      <4>2. \A k \in DOMAIN queue' : k + 1 > 1
        BY <1>2
      <4>. QED  BY <1>1, <1>2, <4>1, <4>2 DEF Silent
    <3>3. CASE l # u /\ \E i \in Known : i.unit = l
      BY <1>1, <1>3, <3>3 DEF RemoveOneInstance, Known
    <3>. QED  BY <3>1, <3>2, <3>3
  <2>2. ASSUME NEW l \in Launches, launch[l].resources = 1,
               NEW k \in DOMAIN queue', queue'[k] = Begun(l)
        PROVE  /\ counted[l].times = 0
               /\ \A i \in Known' : i.unit # l
               /\ \A j \in DOMAIN queue' : j < k => queue'[j].unit # l
    <3>1. PICK i \in DOMAIN queue :
            /\ queue[i] = Begun(l)
            /\ \A j \in DOMAIN queue' : j < k => \E h \in DOMAIN queue : h < i /\ queue'[j] = queue[h]
      BY <1>1, <2>2, HandleBegins DEF IInv
    <3>. QED  BY <1>4, <2>2, <3>1 DEF CountWaits
  <2>3. \A l \in Launches : ~ launch[l].started => counted[l].times = 0
    BY DEF CountWaits
  <2>. QED  BY <1>1, <2>1, <2>2, <2>3 DEF CountWaits, Begun
<1>. QED  BY <1>1, <1>6, <1>7, <1>8, <1>9, <1>10, HandleKeeps

-----------------------------------------------------------------------------
(***************************************************************************)
(* AM itself.                                                              *)
(***************************************************************************)

(* A new launch: nothing was heard of its unit.                            *)
LEMMA LaunchLInv ==
  ASSUME IInv, LInv, NEW l \in Launches, NEW type \in Types, NEW n \in 1..MaxResources,
         Launch(l, type, n)
  PROVE  LInv'
<1>. USE DEF LInv
<1>1. /\ UNCHANGED <<am, entry, unit, queue, m_Instances, orphanedInstances, bus, counted>>
      /\ Known' = Known
      /\ am = "up" /\ Listed(UnitApp[l]) /\ launch[l].phase = "none"
      /\ m_pendingLaunchTypes' = m_pendingLaunchTypes \cup {l}
      /\ m_splashInstanceIds' \subseteq m_splashInstanceIds \cup {l}
  BY DEF Launch, startupVars, registryVars, Known
<1>2. /\ \A m \in Launches : m # l => launch'[m] = launch[m]
      /\ launch'[l].phase = "running" /\ launch'[l].resources = n /\ launch'[l].left = n
      /\ launch'[l].started = FALSE
  BY DEF Launch, IInv, TypeOK
<1>3. n \in Nat \ {0}
  BY BoundsAssumption
<1>4. Silent(l) /\ \A i \in Known : i.unit # l
  BY <1>1 DEF LaunchShape, UnstartedSilent
<1>5. LaunchShape'
  <2>. SUFFICES ASSUME NEW m \in Launches
                PROVE  /\ launch'[m].phase = "none" => launch'[m].left = 0 /\ ~ launch'[m].started
                       /\ launch'[m].left > 0 => am = "up"
                       /\ launch'[m].phase = "running" => am = "up" /\ Listed(UnitApp[m])
                       /\ launch'[m].resources = 1 =>
                            launch'[m].left = 0 \/ (launch'[m].left = 1 /\ ~ launch'[m].started)
    BY <1>1 DEF LaunchShape, Listed
  <2>1. CASE m = l
    BY <1>1, <1>2, <1>3, <2>1
  <2>2. CASE m # l
    BY <1>2, <2>2 DEF LaunchShape
  <2>. QED  BY <2>1, <2>2
<1>6. UnstartedSilent'
  BY <1>1, <1>2, <1>4 DEF UnstartedSilent, Silent
<1>7. IdsTellUnits'
  BY <1>1 DEF IdsTellUnits
<1>8. m_splashInstanceIds \subseteq Launches
  BY DEF IInv, TypeOK
<1>9. SplashKnown'
  BY <1>1, <1>2, <1>4, <1>8 DEF SplashKnown, Listed, Known
<1>10. SplashWaits'
  BY <1>1, <1>2, <1>8 DEF SplashWaits, Begun, Removal
<1>11. RemovalIsLast'
  <2>1. \A k \in DOMAIN queue : queue[k] # Removal(l)
    BY <1>4 DEF Silent, Removal
  <2>. QED  BY <1>1, <1>2, <2>1 DEF RemovalIsLast, Removal
<1>12. TypeWaits'
  BY <1>1, <1>2 DEF TypeWaits, Silent
<1>13. LaunchTypeKept'
  BY <1>1, <1>2, <1>4 DEF LaunchTypeKept, Known
<1>14. counted[l].times = 0
  BY <1>1 DEF LaunchShape, CountWaits
<1>15. LaunchCountedOnce'
  BY <1>1, <1>2, <1>4, <1>14 DEF LaunchCountedOnce, Known
<1>16. CountWaits'
  BY <1>1, <1>2, <1>4, <1>14 DEF CountWaits, Silent, Begun
<1>. QED  BY <1>5, <1>6, <1>7, <1>9, <1>10, <1>11, <1>12, <1>13, <1>15, <1>16

(* doReloadApplications: what stays listed keeps its launches; a detached  *)
(* instance takes its splash along, a removed application its launches.    *)
LEMMA ReloadLInv ==
  ASSUME IInv, LInv, DoReloadApplications
  PROVE  LInv'
<1>. USE DEF LInv
<1>. DEFINE detached == {a \in Apps : Listed(a) /\ Reloaded(a) # entry[a]}
            removed  == {a \in detached : Reloaded(a) = Absent}
<1>1. /\ UNCHANGED <<am, unit, queue, bus, counted>> /\ am = "up"
      /\ entry' = [a \in Apps |-> Reloaded(a)]
      /\ orphanedInstances' = orphanedInstances \cup {i \in m_Instances : i.app \in detached}
      /\ m_Instances' = {i \in m_Instances : i.app \notin detached}
      /\ m_splashInstanceIds' = m_splashInstanceIds \ OfApps(detached)
      /\ m_pendingLaunchTypes' = m_pendingLaunchTypes \ OfApps(removed)
      /\ launch' = [l \in Launches |->
           IF l \in OfApps(removed) /\ launch[l].phase # "none"
           THEN [launch[l] EXCEPT !.phase = "lost"] ELSE launch[l]]
  BY DEF DoReloadApplications, DetachAllInstance, startupVars
<1>2. \A l \in Launches : UnitApp[l] \in Apps
  BY UnitAppType DEF Units
<1>3. \A a \in Apps : Listed(a) /\ a \notin removed => Listed(a)'
  BY <1>1 DEF Listed
<1>4. \A l \in Launches : l \in OfApps(detached) <=> UnitApp[l] \in detached
  BY DEF OfApps
<1>5. \A l \in Launches : l \in OfApps(removed) <=> UnitApp[l] \in removed
  BY DEF OfApps
<1>6. removed \subseteq detached
  OBVIOUS
<1>. HIDE DEF detached, removed
<1>7. ASSUME NEW l \in Launches
      PROVE  /\ launch'[l].left = launch[l].left /\ launch'[l].started = launch[l].started
             /\ launch'[l].resources = launch[l].resources /\ launch'[l].type = launch[l].type
             /\ launch'[l].phase = launch[l].phase
                  \/ (launch'[l].phase = "lost" /\ launch[l].phase # "none")
             /\ launch'[l].phase = "running" => UnitApp[l] \notin removed
  <2>1. launch[l] \in LaunchState
    BY DEF IInv, TypeOK, LaunchState
  <2>. QED  BY <1>1, <1>5, <2>1 DEF LaunchState
<1>8. Known' = Known
  BY <1>1 DEF Known
<1>9. LaunchShape'
  BY <1>1, <1>2, <1>3, <1>7 DEF LaunchShape
<1>10. UnstartedSilent' /\ IdsTellUnits' /\ RemovalIsLast'
  BY <1>1, <1>7, <1>8 DEF UnstartedSilent, Silent, IdsTellUnits, RemovalIsLast, Removal
<1>11. ASSUME NEW l \in m_splashInstanceIds'
       PROVE  l \in m_splashInstanceIds /\ l \in Launches /\ UnitApp[l] \notin detached
  BY <1>1, <1>4 DEF IInv, TypeOK
<1>12. \A i \in m_Instances : i.app = UnitApp[i.unit]
  BY DEF IInv, BusIsRegistry
<1>13. SplashKnown'
  <2>. SUFFICES ASSUME NEW l \in m_splashInstanceIds'
                PROVE  /\ am' = "up" /\ Listed(UnitApp[l])' /\ launch'[l].phase # "none"
                       /\ \A i \in orphanedInstances' : i.unit # l
    BY DEF SplashKnown, Listed
  <2>1. Listed(UnitApp[l])'
    BY <1>2, <1>3, <1>6, <1>11 DEF SplashKnown
  <2>. QED  BY <1>1, <1>7, <1>11, <1>12, <2>1 DEF SplashKnown
<1>14. SplashWaits'
  <2>. SUFFICES ASSUME NEW l \in m_splashInstanceIds', launch'[l].started
                PROVE  \/ \E i \in m_Instances' : i.unit = l
                       \/ \E k \in DOMAIN queue : queue[k] = Begun(l) /\
                             \A j \in DOMAIN queue : j < k => queue[j] # Removal(l)
    BY <1>1 DEF SplashWaits, Begun, Removal
  <2>1. launch[l].started
    BY <1>7, <1>11
  <2>2. \A i \in m_Instances : i.unit = l => i \in m_Instances'
    BY <1>1, <1>11, <1>12
  <2>. QED  BY <1>11, <2>1, <2>2 DEF SplashWaits
<1>15. TypeWaits'
  <2>. SUFFICES ASSUME NEW l \in Launches, launch'[l].phase = "running", launch'[l].resources = 1
                PROVE  \/ l \in m_pendingLaunchTypes' \/ <<UnitApp[l], l>> \in bus
                       \/ (launch'[l].started /\ Silent(l))
    BY <1>1 DEF TypeWaits, Silent
  <2>1. launch[l].phase = "running" /\ launch[l].resources = 1 /\ l \notin OfApps(removed)
    BY <1>5, <1>7
  <2>. QED  BY <1>1, <1>7, <2>1 DEF TypeWaits
<1>16. LaunchTypeKept'
  BY <1>1, <1>7 DEF LaunchTypeKept
<1>17. LaunchCountedOnce'
  <2>1. m_Instances' \subseteq m_Instances /\ orphanedInstances \subseteq orphanedInstances'
    BY <1>1
  <2>. QED  BY <1>1, <1>7, <2>1 DEF LaunchCountedOnce
<1>18. CountWaits'
  BY <1>1, <1>7, <1>8 DEF CountWaits, Silent, Begun
<1>. QED  BY <1>9, <1>10, <1>13, <1>14, <1>15, <1>16, <1>17, <1>18

(* AM stops and starts: launches of an earlier run are lost, and a scan    *)
(* finds services only.                                                    *)
LEMMA StartupLInv ==
  ASSUME IInv, LInv, Stop \/ Subscribe \/ Scan
  PROVE  LInv'
<1>. USE DEF LInv
<1>1. CASE Stop
  <2>1. /\ queue' = <<>> /\ m_Instances' = {} /\ Known' = {} /\ m_splashInstanceIds' = {}
        /\ UNCHANGED unit
    BY <1>1 DEF Stop, Known
  <2>2. ASSUME NEW l \in Launches
        PROVE  /\ launch'[l].left = 0 /\ launch'[l].started = launch[l].started
               /\ launch'[l].phase # "running"
               /\ launch'[l].phase = "none" => launch[l].phase = "none"
    <3>1. launch[l] \in LaunchState
      BY DEF IInv, TypeOK, LaunchState
    <3>. QED  BY <1>1, <3>1 DEF Stop, LaunchState, LaunchShape
  <2>3. LaunchShape'
    BY <2>2 DEF LaunchShape
  <2>4. UnstartedSilent'
    BY <2>1, <2>2 DEF UnstartedSilent, Silent
  <2>5. \A l \in Launches : counted'[l].times = 0
    BY <1>1 DEF Stop, Count0
  <2>. QED  BY <2>1, <2>2, <2>3, <2>4, <2>5
       DEF CountWaits, LaunchCountedOnce, IdsTellUnits, SplashKnown, SplashWaits, RemovalIsLast, TypeWaits, LaunchTypeKept
<1>2. ASSUME am # "up", am' # "down",
             UNCHANGED <<unit, queue, launch, m_splashInstanceIds, counted>>,
             \A i \in Known' : i.unit \notin Launches /\ i.id \notin Launches
      PROVE  LInv'
  <2>1. m_splashInstanceIds = {} /\ \A l \in Launches : launch[l].phase # "running"
    BY <1>2 DEF SplashKnown, LaunchShape
  <2>2. \A l \in Launches : launch[l].left \in Nat /\ ~ (launch[l].left > 0)
    BY <1>2 DEF LaunchShape, IInv, TypeOK
  <2>3. LaunchShape'
    BY <1>2, <2>1, <2>2 DEF LaunchShape
  <2>4. UnstartedSilent' /\ IdsTellUnits'
    BY <1>2 DEF UnstartedSilent, Silent, IdsTellUnits
  <2>5. SplashKnown' /\ SplashWaits'
    BY <1>2, <2>1 DEF SplashKnown, SplashWaits
  <2>6. RemovalIsLast' /\ TypeWaits' /\ LaunchTypeKept'
    BY <1>2, <2>1 DEF RemovalIsLast, Removal, TypeWaits, LaunchTypeKept
  <2>7. Known = {}
    BY <1>2 DEF Known, IInv, NothingWhileDown
  <2>8. CountWaits'
    BY <1>2, <2>7 DEF CountWaits, Silent, Begun
  <2>9. LaunchCountedOnce'
    <3>1. \A l \in Launches : launch[l].resources = 1 => counted[l].times <= 1
      BY <2>7 DEF LaunchCountedOnce, Known
    <3>2. \A i \in m_Instances' : i.unit \notin Launches
      BY <1>2 DEF Known
    <3>. QED  BY <1>2, <3>1, <3>2 DEF LaunchCountedOnce
  <2>. QED  BY <2>3, <2>4, <2>5, <2>6, <2>8, <2>9
<1>3. CASE Subscribe
  <2>1. /\ am # "up" /\ am' # "down"
        /\ UNCHANGED <<unit, queue, launch, m_splashInstanceIds, counted>>
    BY <1>3 DEF Subscribe, launchVars
  <2>2. Known' = {}
    BY <1>3, <2>1 DEF Subscribe, registryVars, Known, IInv, NothingWhileDown
  <2>. QED  BY <1>2, <2>1, <2>2
<1>4. CASE Scan
  <2>. DEFINE found == {s \in Services : unit[s] = "active" /\ disk[UnitApp[s]] \in Versions}
  <2>1. PICK id \in [found -> Uuids] :
          m_Instances' = {[app |-> UnitApp[s], id |-> id[s], unit |-> s, type |-> Unknown]
                             : s \in found}
    BY <1>4 DEF Scan, ScanInstances
  <2>2. \A s \in found : id[s] \notin Launches /\ s \notin Launches
    BY UnitsAssumption
  <2>3. orphanedInstances' = {}
    BY <1>4 DEF Scan, IInv, NothingWhileDown
  <2>4. \A i \in Known' : i.unit \notin Launches /\ i.id \notin Launches
    BY <2>1, <2>2, <2>3 DEF Known
  <2>5. /\ am # "up" /\ am' # "down"
        /\ UNCHANGED <<unit, queue, launch, m_splashInstanceIds, counted>>
    BY <1>4 DEF Scan, launchVars
  <2>. QED  BY <1>2, <2>4, <2>5
<1>. QED  BY <1>1, <1>3, <1>4

(* Steps that touch nothing of it.                                         *)
LEMMA QuietLInv ==
  ASSUME LInv,
         UNCHANGED <<am, entry, unit, queue, m_Instances, orphanedInstances, bus, launch, counted,
                     m_pendingLaunchTypes, m_splashInstanceIds>>
  PROVE  LInv'
<1>1. Known' = Known /\ \A l : Silent(l)' <=> Silent(l)
  BY DEF Known, Silent
<1>. QED  BY <1>1 DEF LInv, LaunchShape, Listed, UnstartedSilent, IdsTellUnits, SplashKnown,
     SplashWaits, Begun, RemovalIsLast, Removal, TypeWaits, LaunchTypeKept, CountWaits,
     LaunchCountedOnce

-----------------------------------------------------------------------------
LEMMA NextLInv == IInv /\ LInv /\ [Next]_vars => LInv'
<1>. SUFFICES ASSUME IInv, LInv, [Next]_vars PROVE LInv'
  OBVIOUS
<1>1. ASSUME NEW u \in Units, HandleUnitNew(u) PROVE LInv'
  <2>1. Handle("UnitNew", u) /\ OnUnitNew(u) /\ UNCHANGED m_splashInstanceIds
    BY <1>1 DEF HandleUnitNew
  <2>2. CASE Listed(UnitApp[u])
    BY <2>1, <2>2, StartedLInv DEF OnUnitNew
  <2>3. CASE ~ Listed(UnitApp[u])
    BY <2>1, <2>3, IgnoredLInv DEF OnUnitNew
  <2>. QED  BY <2>2, <2>3
<1>2. ASSUME NEW u \in Units, HandleJobNew(u) PROVE LInv'
  <2>1. Handle("JobNew", u) /\ UNCHANGED m_splashInstanceIds
    BY <1>2 DEF HandleJobNew
  <2>2. CASE Listed(UnitApp[u]) /\ InstancesOf(UnitApp[u]) = {}
    <3>1. \E id \in InstanceIds(u) : HandleUnitStarted(UnitApp[u], id, u)
      BY <1>2, <2>2 DEF HandleJobNew, OnUnitNew
    <3>. QED  BY <2>1, <2>2, <3>1, StartedLInv
  <2>3. CASE ~ (Listed(UnitApp[u]) /\ InstancesOf(UnitApp[u]) = {})
    <3>1. UNCHANGED <<m_Instances, bus, m_pendingLaunchTypes, m_splashInstanceIds, counted>>
      BY <1>2, <2>3 DEF HandleJobNew
    <3>. QED  BY <2>1, <3>1, IgnoredLInv
  <2>. QED  BY <2>2, <2>3
<1>3. ASSUME NEW a \in Apps, DiskChanges(a) PROVE LInv'
  BY <1>3, QuietLInv DEF DiskChanges, startupVars, registryVars, launchVars
<1>4. CASE UNCHANGED vars
  BY <1>4, QuietLInv DEF vars, startupVars, registryVars, launchVars
<1>. QED  BY <1>1, <1>2, <1>3, <1>4, UnitMovesLInv, RemovedLInv, LaunchLInv, HelperStartsLInv,
             HelperEndsLInv, ReloadLInv, StartupLInv DEF Next

(* No splash outlives the unit it was shown for: while AM shows it, the    *)
(* unit's UnitNew is queued or its instance is listed, and that instance   *)
(* is backed by the unit (removeOneInstance, detachAllInstance).           *)
THEOREM SplashesBacked == Spec => []SplashBacked
<1>1. IInv /\ LInv => SplashBacked
  <2>. SUFFICES ASSUME IInv, LInv, NEW l \in m_splashInstanceIds, launch[l].started
                PROVE  unit[l] # "unloaded" \/ \E k \in DOMAIN queue : queue[k].unit = l
    BY DEF SplashBacked
  <2>1. l \in Launches
    BY DEF IInv, TypeOK
  <2>2. CASE \E i \in m_Instances : i.unit = l
    BY <2>1, <2>2 DEF IInv, InstanceBacked
  <2>3. CASE \E k \in DOMAIN queue : queue[k] = Begun(l)
    BY <2>3 DEF Begun
  <2>. QED  BY <2>2, <2>3 DEF LInv, SplashWaits
<1>. QED  BY <1>1, InitIInv, InitLInv, NextIInv, NextLInv, PTL DEF Spec

(* The type given to Launch reaches the instance, whatever the order of    *)
(* the worker, the signals and the reloads (handleUnitStarted and          *)
(* m_pendingLaunchTypes): for any launches of any applications.            *)
THEOREM LaunchTypesKept == Spec => []LaunchTypeKept
<1>1. LInv => LaunchTypeKept
  BY DEF LInv
<1>. QED  BY <1>1, InitIInv, InitLInv, NextIInv, NextLInv, PTL DEF Spec

(* A launch counts once, whichever of UnitNew and JobNew AM takes for its  *)
(* start and however often a reload took the application away in between   *)
(* (handleUnitStarted, updateAfterLaunch, the slot of SystemdJobNew).      *)
THEOREM LaunchesCountedOnce == Spec => []LaunchCountedOnce
<1>1. LInv => LaunchCountedOnce
  BY DEF LInv
<1>. QED  BY <1>1, InitIInv, InitLInv, NextIInv, NextLInv, PTL DEF Spec
=============================================================================
