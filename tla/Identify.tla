------------------------------ MODULE Identify ------------------------------
(***************************************************************************)
(* ApplicationManager1Service::Identify: a client gives a pidfd, AM reads  *)
(* the process id behind it, the control groups of that id, the unit in    *)
(* them, and looks the unit's application and instance up in its list.     *)
(* Processes end, their ids are taken again and systemd moves them between *)
(* units while AM reads; AM learns of units by signals that come later.    *)
(*                                                                         *)
(* A unit is what its starter knows of it:                                 *)
(*   kind      "launch" by AM, "command" by AM's executeCommand, "scope"   *)
(*             by another launcher, "autostart" by systemd, "bus" a D-Bus  *)
(*             service of the application, "session" no application's      *)
(*   id        of the application (or executeCommand's run id)             *)
(*   instance  the part of its name that tells instances apart             *)
(*   owner     "me", "other" user or "system"                              *)
(*   nested    its processes are in a group below it                       *)
(***************************************************************************)
EXTENDS UnitNames

CONSTANTS Pids, Units, Apps, Hierarchies, MaxProcesses, NoProcess, NoInstance

ASSUME IdentifyAssumption ==
  /\ Pids # {} /\ NoProcess \notin Pids /\ MaxProcesses \in Nat \ {0}
  /\ Hierarchies \subseteq {"unified", "hybrid"} /\ Hierarchies # {}

(* Units of AM, of other launchers and of systemd, which are named after an *)
(* application and tell their instances apart.                             *)
OfInstance == {"launch", "scope", "autostart"}

ASSUME UnitsAssumption ==
  \A u \in Units :
    /\ u \in [kind : OfInstance \cup {"command", "bus", "session"}, id : {u.id}, instance : {u.instance},
              owner : {"me", "other", "system"}, nested : BOOLEAN]
    /\ u.id \in Seq({u.id[i] : i \in DOMAIN u.id})
    /\ u.instance \notin {"-", "@", ".", ":"}

(* What makes names of units tell applications and instances apart: an id  *)
(* holds no "/" (AM's ids have "-" for it) and no suffix of a unit before  *)
(* a ":"; the name of a bus is no name of an application's unit, nor has   *)
(* it a "\" or a ":"; the session is no application; instances differ.     *)
ASSUME NamesAssumption ==
  /\ \A u \in Units :
       /\ u.kind \in OfInstance =>
            /\ Places(u.id, "/") = {}
            /\ \A i \in Places(u.id, ":") : i # 1 => u.id[i - 1] \notin {"service", "scope"}
       /\ u.kind = "bus" =>
            Places(u.id, "\\") = {} /\ Places(u.id, ":") = {} /\ ~StartsWith(u.id, AppPrefix)
  /\ <<"session", "-", "2">> \notin Apps
  /\ \A u \in Units, v \in Units :
       u.kind \in OfInstance /\ v.kind \in OfInstance \cup {"command"} /\ u.instance = v.instance /\ u # v =>
         v.kind # "command" /\ u.id # v.id

VARIABLES process,    \* the process that has each process id, or NoProcess
          born,       \* processes there were so far (bounded by MaxProcesses)
          listed,     \* AM's instances: [app, instanceId, unit]
          hierarchy,  \* what /proc/<pid>/cgroup looks like
          call        \* the call of Identify in progress or answered last

vars == <<process, born, listed, hierarchy, call>>

-----------------------------------------------------------------------------
(***************************************************************************)
(* Names and control groups, as AM, systemd and other launchers make them. *)
(***************************************************************************)
MyUid == "1000"
Uid(owner) == IF owner = "me" THEN MyUid ELSE "1001"

LaunchName(u) == <<"app", "-", "DDE", "-">> \o escapeApplicationId(u.id) \o <<"@", u.instance, ".", "service">>
CommandName(u) ==
  <<"app", "-", "DDE", "-", "tmp", ".", "script", ".">> \o escapeApplicationId(u.id) \o <<"@", u.instance, ".", "service">>
ForeignName(u) ==
  CASE u.kind = "scope" -> <<"app", "-", "gnome", "-">> \o escapeApplicationId(u.id) \o <<"-", u.instance, ".", "scope">>
    [] u.kind = "autostart" -> <<"app", "-">> \o escapeApplicationId(u.id) \o <<"@", u.instance, ".", "service">>
    [] u.kind = "bus" -> u.id \o <<".", "service">>
    [] OTHER -> <<"session", "-", "2", ".", "scope">>

UnitName(u) ==
  CASE u.kind = "launch" -> LaunchName(u) [] u.kind = "command" -> CommandName(u) [] OTHER -> ForeignName(u)

GroupPath(u) ==
  (IF u.owner = "system" THEN << <<"system", ".", "slice">> >>
   ELSE << <<"user", ".", "slice">>, UserSlice(Uid(u.owner)), <<"user", "@", Uid(u.owner), ".", "service">> >>)
  \o <<UnitName(u)>> \o (IF u.nested THEN << <<"sub">> >> ELSE <<>>)

CgroupFile(u) ==
  IF hierarchy = "unified" THEN <<[controllers |-> "", path |-> GroupPath(u)]>>
  ELSE <<[controllers |-> "cpu", path |-> <<>>], [controllers |-> "name=systemd", path |-> GroupPath(u)]>>

-----------------------------------------------------------------------------
Running == {p \in Pids : process[p] # NoProcess}
Alive(n) == \E p \in Running : process[p].serial = n

NoCall == [at |-> "idle", target |-> 0, fd |-> NoProcess, pid |-> NoProcess, name |-> <<>>,
           seen |-> {}, steady |-> FALSE, app |-> <<>>, instance |-> NoInstance]

Init ==
  /\ process = [p \in Pids |-> NoProcess] /\ born = 0 /\ listed = {}
  /\ hierarchy \in Hierarchies
  /\ call = NoCall

Calling == call.at \in {"pid", "cgroup", "alive", "lookup"}

StartProcess(p, u) ==
  /\ process[p] = NoProcess /\ born < MaxProcesses
  /\ born' = born + 1
  /\ process' = [process EXCEPT ![p] = [serial |-> born + 1, unit |-> u]]
  /\ UNCHANGED <<listed, hierarchy, call>>

(* The process ends and is waited for: its id is free.                     *)
EndProcess(p) ==
  /\ p \in Running
  /\ process' = [process EXCEPT ![p] = NoProcess]
  /\ call' = IF Calling /\ process[p].serial = call.target THEN [call EXCEPT !.steady = FALSE] ELSE call
  /\ UNCHANGED <<born, listed, hierarchy>>

(* systemd adopts a running process into a scope.                          *)
MoveProcess(p, u) ==
  /\ p \in Running /\ u.kind = "scope" /\ process[p].unit # u
  /\ process' = [process EXCEPT ![p].unit = u]
  /\ call' = IF Calling /\ process[p].serial = call.target
               THEN [call EXCEPT !.seen = @ \cup {u}, !.steady = FALSE] ELSE call
  /\ UNCHANGED <<born, listed, hierarchy>>

(* A unit's signals come after it began and after it ended; AM handles     *)
(* them between calls.                                                     *)
HasProcess(u) == \E p \in Running : process[p].unit = u
Of(u) == {i \in listed : i.unit = u}

OnUnitNew(u) ==
  LET info == processUnitName(UnitName(u))
  IN /\ ~Calling /\ u.owner = "me" /\ HasProcess(u) /\ Of(u) = {}
     /\ info.found /\ info.applicationID \in Apps
     /\ listed' = listed \cup {[app |-> info.applicationID, unit |-> u,
                                instanceId |-> IF info.instanceID = <<>> THEN <<"uuid", u.kind>> ELSE info.instanceID]}
     /\ UNCHANGED <<process, born, hierarchy, call>>

OnUnitRemoved(u) ==
  /\ ~Calling /\ ~HasProcess(u) /\ Of(u) # {}
  /\ listed' = listed \ Of(u)
  /\ UNCHANGED <<process, born, hierarchy, call>>

-----------------------------------------------------------------------------
(***************************************************************************)
(* The call.                                                               *)
(***************************************************************************)
(* pidfd_open of the client (app-identifier) and its call.                 *)
BeginCall(p) ==
  /\ ~Calling /\ p \in Running
  /\ call' = [NoCall EXCEPT !.at = "pid", !.target = process[p].serial, !.fd = p,
                            !.seen = {process[p].unit}, !.steady = TRUE]
  /\ UNCHANGED <<process, born, listed, hierarchy>>

Failed == [call EXCEPT !.at = "failed"]

(* The kernel tells no id for the pidfd of a process that is gone.         *)
getPidFromPidFd_Gone == call' = [call EXCEPT !.at = "cgroup", !.pid = IF Alive(call.target) THEN call.fd ELSE NoProcess]
getPidFromPidFd ==
  call' = IF Alive(call.target) THEN [call EXCEPT !.at = "cgroup", !.pid = call.fd] ELSE Failed

GetPid ==
  /\ call.at = "pid" /\ getPidFromPidFd
  /\ UNCHANGED <<process, born, listed, hierarchy>>

(* Whoever has the id now.                                                 *)
ReadCgroup ==
  LET name == IF call.pid \in Running THEN parseCGroupsPath(CgroupFile(process[call.pid].unit), MyUid) ELSE <<>>
  IN /\ call.at = "cgroup"
     /\ call' = IF name = <<>> \/ ~processUnitName(name).found THEN Failed
                ELSE [call EXCEPT !.at = "alive", !.name = name]
     /\ UNCHANGED <<process, born, listed, hierarchy>>

(* pidfd_send_signal(pidfd, 0). *)
SignalsTarget_Always == TRUE
SignalsTarget == Alive(call.target)
CheckAlive ==
  /\ call.at = "alive"
  /\ call' = IF SignalsTarget THEN [call EXCEPT !.at = "lookup"] ELSE Failed
  /\ UNCHANGED <<process, born, listed, hierarchy>>

InstancesOf(app) == {i \in listed : i.app = app}

(* An application with one instance is that instance when the unit's name  *)
(* has no instance ("Maybe a dbus systemd service").                       *)
Found(info) ==
  IF info.instanceID = <<>> /\ Cardinality(InstancesOf(info.applicationID)) = 1
    THEN InstancesOf(info.applicationID)
    ELSE {i \in InstancesOf(info.applicationID) : i.instanceId = info.instanceID}

Lookup ==
  LET info == processUnitName(call.name)
  IN /\ call.at = "lookup"
     /\ IF info.applicationID \in Apps /\ Found(info) # {}
          THEN \E i \in Found(info) : call' = [call EXCEPT !.at = "answered", !.app = info.applicationID, !.instance = i]
          ELSE call' = Failed
     /\ UNCHANGED <<process, born, listed, hierarchy>>

Next ==
  \/ \E p \in Pids, u \in Units : StartProcess(p, u) \/ MoveProcess(p, u)
  \/ \E p \in Pids : EndProcess(p) \/ BeginCall(p)
  \/ \E u \in Units : OnUnitNew(u) \/ OnUnitRemoved(u)
  \/ GetPid \/ ReadCgroup \/ CheckAlive \/ Lookup

Spec == Init /\ [][Next]_vars

-----------------------------------------------------------------------------
ProcessType == [serial : 1..MaxProcesses, unit : Units]

(* The type of the processes, of AM's list and of the call; a process id   *)
(* is known before its control groups are read.                            *)
TypeOK ==
  /\ process \in [Pids -> ProcessType \cup {NoProcess}]
  /\ born \in 0..MaxProcesses
  /\ \A i \in listed : i.unit \in Units /\ i.app \in Apps
  /\ hierarchy \in Hierarchies
  /\ call.at \in {"idle", "pid", "cgroup", "alive", "lookup", "answered", "failed"}
  /\ call.target \in 0..MaxProcesses /\ call.seen \subseteq Units /\ call.steady \in BOOLEAN
  /\ call.at \in {"cgroup", "alive", "lookup", "answered"} => call.pid \in Pids

(* What AM looks up is the innermost group of a unit that the pidfd's own  *)
(* process was in during the call, though the id it read the groups of may *)
(* belong to another process by then (CGroupsIdentifier::Identify signals  *)
(* the pidfd after it has read).                                           *)
NameIsTargets ==
  call.at \in {"lookup", "answered"} =>
    \E u \in call.seen : call.name = parseCGroupsPath(CgroupFile(u), MyUid)

(* An answer names the application of a unit of AM's own user that the     *)
(* process was in, and its very instance if names of such units have one.  *)
(* The unit of a command is taken for an instance of the application that  *)
(* its name ends with, so commands are left out.                           *)
AnswerIsTrue ==
  call.at = "answered" =>
    \E u \in call.seen :
      /\ u.owner = "me"
      /\ u.kind # "command" =>
           /\ call.app = u.id
           /\ u.kind \in OfInstance => call.instance.unit = u

(* A process that stays in the unit AM launched, which AM lists, is        *)
(* identified: escapeApplicationId, the name of the unit and               *)
(* processUnitName agree for every id, but for one with a ":", at which    *)
(* parseCGroupsPath cuts the path.                                         *)
LaunchedIsIdentified ==
  [][Calling /\ call'.at = "failed" /\ call.steady =>
       \A u \in call.seen :
         ~(/\ u.kind = "launch" /\ u.owner = "me" /\ ~u.nested /\ Of(u) # {}
           /\ Places(u.id, ":") = {})]_vars
=============================================================================
