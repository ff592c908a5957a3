--------------------------- MODULE JobManager_proofs ---------------------------
(***************************************************************************)
(* Proofs that the job manager is type correct, that a job is exported     *)
(* exactly from its JobNew to its JobRemoved, and that JobRemoved is the   *)
(* end of the job -- for any set of jobs and any number of items.          *)
(***************************************************************************)
EXTENDS JobManager, TLAPS

(* The items of a job stay a bounded sequence of item states when one of   *)
(* them is set (the helper behind ClaimItem, RunItem and ItemReturns).     *)
LEMMA SetItemType ==
  ASSUME TypeOK, NEW j \in Jobs, NEW i \in DOMAIN items[j], NEW s \in ItemStates,
         SetItem(j, i, s)
  PROVE  items' \in [Jobs -> ItemSeqs]
<1>1. PICK n \in 0..MaxItems : items[j] \in [1..n -> ItemStates]
  <2>1. items[j] \in UNION {[1..n -> ItemStates] : n \in 0..MaxItems}
    BY DEF TypeOK, ItemSeqs
  <2>. QED  BY <2>1
<1>2. [items[j] EXCEPT ![i] = s] \in [1..n -> ItemStates]
  BY <1>1
<1>3. [items[j] EXCEPT ![i] = s] \in ItemSeqs
  BY <1>2 DEF ItemSeqs
<1>4. items' = [items EXCEPT ![j] = [items[j] EXCEPT ![i] = s]]
  BY DEF SetItem
<1>. QED  BY <1>3, <1>4 DEF TypeOK

(* A sequence of unclaimed items is what addJob starts with.               *)
LEMMA StartType ==
  ASSUME NEW n \in 1..MaxItems
  PROVE  Unclaimed(n) \in ItemSeqs
<1>1. n \in 0..MaxItems
  BY MaxItemsAssumption
<1>2. Unclaimed(n) \in [1..n -> ItemStates]
  BY DEF Unclaimed, ItemStates
<1>. QED  BY <1>1, <1>2 DEF ItemSeqs

(* The status that JobRemoved carries is one of the six strings.           *)
LEMMA RemovedStatusType ==
  ASSUME TypeOK, NEW j \in Jobs
  PROVE  [status |-> RemovedStatus(j), result |-> items[j]] \in Removal
<1>1. Status(j) \in {"running", "suspending", "suspended", "canceled", "finished"}
  BY DEF TypeOK, Status
<1>2. RemovedStatus(j) \in
        {"running", "suspending", "suspended", "canceled", "finished", "failed"}
  BY <1>1 DEF RemovedStatus
<1>3. items[j] \in ItemSeqs
  BY DEF TypeOK
<1>. QED  BY <1>2, <1>3 DEF Removal

-----------------------------------------------------------------------------
(* The variables have their types initially.                               *)
LEMMA InitTypeOK == Init => TypeOK
<1>. SUFFICES ASSUME Init PROVE TypeOK
  OBVIOUS
<1>1. <<>> \in ItemSeqs
  <2>1. 0 \in 0..MaxItems /\ <<>> \in [1..0 -> ItemStates]
    BY MaxItemsAssumption
  <2>. QED  BY <2>1 DEF ItemSeqs
<1>. QED  BY <1>1 DEF Init, TypeOK

(* The variables keep their types through every D-Bus call, pool step and  *)
(* continuation of JobManager1Service and JobService.                      *)
LEMMA NextTypeOK == TypeOK /\ [Next]_vars => TypeOK'
<1>. SUFFICES ASSUME TypeOK, [Next]_vars PROVE TypeOK'
  OBVIOUS
<1>1. ASSUME NEW j \in Jobs, NEW n \in 1..MaxItems, StartComputation(j, n) PROVE TypeOK'
  BY <1>1, StartType DEF StartComputation, registry, TypeOK
<1>2. ASSUME NEW j \in Jobs, Register(j) \/ RegisterFails(j) PROVE TypeOK'
  BY <1>2 DEF Register, RegisterFails, future, registry, TypeOK
<1>3. ASSUME NEW j \in Jobs, Cancel(j) \/ Suspend(j) \/ Resume(j) PROVE TypeOK'
  BY <1>3 DEF Cancel, Suspend, Resume, registry, TypeOK
<1>4. ASSUME NEW j \in Jobs, ClaimItem(j) \/ RunItem(j) \/ ItemReturns(j) PROVE TypeOK'
  <2>1. PICK i \in DOMAIN items[j], s \in ItemStates : SetItem(j, i, s)
    BY <1>4 DEF ClaimItem, RunItem, ItemReturns, ItemStates
  <2>2. items' \in [Jobs -> ItemSeqs]
    BY <2>1, SetItemType
  <2>. QED  BY <1>4, <2>2 DEF ClaimItem, RunItem, ItemReturns, registry, TypeOK
<1>5. ASSUME NEW j \in Jobs, ReportSuspended(j) \/ Finish(j) PROVE TypeOK'
  BY <1>5 DEF ReportSuspended, Finish, registry, TypeOK
<1>6. ASSUME NEW j \in Jobs, EmitRemove(j) PROVE TypeOK'
  <2>1. [status |-> RemovedStatus(j), result |-> items[j]] \in Removal
    BY RemovedStatusType
  <2>2. removals' \in [Jobs -> Seq(Removal)]
    <3>1. CASE j \in m_jobs
      <4>1. Append(removals[j], [status |-> RemovedStatus(j), result |-> items[j]])
              \in Seq(Removal)
        BY <2>1 DEF TypeOK
      <4>. QED  BY <1>6, <3>1, <4>1 DEF EmitRemove, TypeOK
    <3>2. CASE j \notin m_jobs
      BY <1>6, <3>2 DEF EmitRemove, registry, TypeOK
    <3>. QED  BY <3>1, <3>2
  <2>. QED  BY <1>6, <2>2 DEF EmitRemove, RemoveOneJob, future, registry, TypeOK
<1>7. ASSUME NEW j \in Jobs, ContinuationSkipped(j) PROVE TypeOK'
  BY <1>7 DEF ContinuationSkipped, future, registry, TypeOK
<1>8. CASE UNCHANGED vars
  BY <1>8 DEF vars, TypeOK
<1>. QED  BY <1>1, <1>2, <1>3, <1>4, <1>5, <1>6, <1>7, <1>8 DEF Next

(* The variables always have their types, for any number of jobs.          *)
THEOREM TypeCorrect == Spec => []TypeOK
  BY InitTypeOK, NextTypeOK, PTL DEF Spec

-----------------------------------------------------------------------------
(* Neither property is inductive alone.  What carries them is that the     *)
(* event loop holds the continuation of a job only once it is finished,    *)
(* that a finished job has no item at work, and that nothing is known of   *)
(* the one job that addJob is adding.                                      *)
PostedIsFinished == \A j \in posted : engine[j] = "finished" /\ j \in announced

FinishedIsSettled == \A j \in Jobs : engine[j] = "finished" => Settled(j)

OnlyStartedAnnounced ==
  \A j \in Jobs : engine[j] = "none" => j \notin announced

AddingIsNew ==
  \A j \in adding : /\ engine[j] # "none" /\ j \notin announced
                    /\ \A k \in adding : k = j

IInv == /\ TypeOK
        /\ ExportedUntilRemoved
        /\ RemovedJobIsDone
        /\ PostedIsFinished
        /\ FinishedIsSettled
        /\ OnlyStartedAnnounced
        /\ AddingIsNew

(* The initial state satisfies the invariant.                              *)
LEMMA InitIInv == Init => IInv
<1>. SUFFICES ASSUME Init PROVE IInv
  OBVIOUS
<1>1. TypeOK
  BY InitTypeOK
<1>2. ExportedUntilRemoved
  BY DEF Init, ExportedUntilRemoved
<1>3. RemovedJobIsDone
  BY DEF Init, RemovedJobIsDone
<1>. QED  BY <1>1, <1>2, <1>3
     DEF Init, IInv, PostedIsFinished, FinishedIsSettled, OnlyStartedAnnounced, AddingIsNew

(* addJob starts a computation: a new path has no history.                 *)
LEMMA StartKeepsIInv ==
  ASSUME IInv, NEW j \in Jobs, NEW n \in 1..MaxItems, StartComputation(j, n)
  PROVE  IInv'
<1>1. TypeOK'
  BY NextTypeOK DEF IInv, Next
<1>2. j \notin announced /\ j \notin posted /\ removals[j] = <<>>
  BY DEF IInv, StartComputation, OnlyStartedAnnounced, PostedIsFinished, ExportedUntilRemoved
<1>3. /\ engine' = [engine EXCEPT ![j] = "running"]
      /\ \A k \in Jobs \ {j} : items'[k] = items[k]
      /\ UNCHANGED <<canceled, posted, registry>>
  BY DEF StartComputation, IInv, TypeOK
<1>4. ExportedUntilRemoved'
  BY <1>3 DEF IInv, registry, ExportedUntilRemoved
<1>5. RemovedJobIsDone'
  <2>1. \A k \in Jobs \ {j} : items'[k] = items[k] /\ engine'[k] = engine[k]
    BY <1>3 DEF IInv, TypeOK
  <2>2. DOMAIN removals[j] = {}
    BY <1>2
  <2>. QED  BY <1>3, <2>1, <2>2 DEF IInv, registry, RemovedJobIsDone
<1>6. PostedIsFinished' /\ OnlyStartedAnnounced' /\ AddingIsNew'
  BY <1>2, <1>3 DEF StartComputation, IInv, TypeOK, registry, PostedIsFinished,
                    OnlyStartedAnnounced, AddingIsNew
<1>7. FinishedIsSettled'
  BY <1>3 DEF IInv, TypeOK, FinishedIsSettled, Settled
<1>. QED  BY <1>1, <1>4, <1>5, <1>6, <1>7 DEF IInv

(* addJob returns: the registry gains the job with its JobNew, or nothing. *)
LEMMA AddedKeepsIInv ==
  ASSUME IInv, NEW j \in Jobs, Register(j) \/ RegisterFails(j)
  PROVE  IInv'
<1>1. TypeOK'
  BY NextTypeOK DEF IInv, Next
<1>2. j \in adding /\ j \notin announced /\ engine[j] # "none" /\ removals[j] = <<>>
  BY DEF IInv, Register, RegisterFails, AddingIsNew, ExportedUntilRemoved
<1>3. UNCHANGED <<engine, items, removals>> /\ adding' = {} /\ canceled \subseteq canceled'
  BY DEF Register, RegisterFails, future, registry
<1>4. ExportedUntilRemoved'
  <2>1. CASE Register(j)
    BY <1>2, <2>1 DEF Register, IInv, TypeOK, ExportedUntilRemoved
  <2>2. CASE RegisterFails(j)
    BY <2>2 DEF RegisterFails, registry, IInv, ExportedUntilRemoved
  <2>. QED  BY <2>1, <2>2
<1>5. RemovedJobIsDone'
  BY <1>3 DEF IInv, RemovedJobIsDone
<1>6. PostedIsFinished' /\ OnlyStartedAnnounced'
  BY <1>2, <1>3 DEF Register, RegisterFails, registry, IInv, TypeOK, PostedIsFinished,
                    OnlyStartedAnnounced
<1>7. FinishedIsSettled' /\ AddingIsNew'
  BY <1>3 DEF IInv, FinishedIsSettled, Settled, AddingIsNew
<1>. QED  BY <1>1, <1>4, <1>5, <1>6, <1>7 DEF IInv

(* Cancel, Suspend and Resume touch the future's state bits only, and a    *)
(* settled job stays settled when it is canceled.                          *)
LEMMA CallKeepsIInv ==
  ASSUME IInv, NEW j \in Jobs,
         Cancel(j) \/ Suspend(j) \/ Resume(j) \/ ReportSuspended(j)
  PROVE  IInv'
<1>1. TypeOK'
  BY NextTypeOK DEF IInv, Next
<1>2. UNCHANGED <<adding, engine, items, posted, registry>> /\ canceled \subseteq canceled'
  BY DEF Cancel, Suspend, Resume, ReportSuspended
<1>3. /\ ExportedUntilRemoved' /\ RemovedJobIsDone' /\ PostedIsFinished'
      /\ OnlyStartedAnnounced' /\ AddingIsNew'
  BY <1>2 DEF IInv, registry, ExportedUntilRemoved, RemovedJobIsDone, PostedIsFinished,
              OnlyStartedAnnounced, AddingIsNew
<1>4. FinishedIsSettled'
  BY <1>2 DEF IInv, FinishedIsSettled, Settled
<1>. QED  BY <1>1, <1>3, <1>4 DEF IInv

(* A thread of the pool works on an item only while its job is running, so *)
(* the values of a finished job are final.                                 *)
LEMMA ItemKeepsIInv ==
  ASSUME IInv, NEW j \in Jobs, ClaimItem(j) \/ RunItem(j) \/ ItemReturns(j)
  PROVE  IInv'
<1>1. TypeOK'
  BY NextTypeOK DEF IInv, Next
<1>2. UNCHANGED <<adding, engine, canceled, suspend, posted, registry>>
  BY DEF ClaimItem, RunItem, ItemReturns
<1>3. engine[j] # "finished"
  <2>. SUFFICES ASSUME engine[j] = "finished" PROVE FALSE
    OBVIOUS
  <2>1. Settled(j)
    BY DEF IInv, FinishedIsSettled
  <2>2. PICK i \in DOMAIN items[j] : items[j][i] \in {"claimed", "running"}
    BY DEF ClaimItem, RunItem, ItemReturns
  <2>. QED  BY <2>1, <2>2 DEF Settled, Outcomes
<1>4. \A k \in Jobs \ {j} : items'[k] = items[k]
  BY DEF ClaimItem, RunItem, ItemReturns, SetItem, IInv, TypeOK
<1>5. ExportedUntilRemoved' /\ PostedIsFinished' /\ OnlyStartedAnnounced' /\ AddingIsNew'
  BY <1>2 DEF IInv, registry, ExportedUntilRemoved, PostedIsFinished, OnlyStartedAnnounced,
              AddingIsNew
<1>6. RemovedJobIsDone'
  BY <1>2, <1>3, <1>4 DEF IInv, registry, RemovedJobIsDone
<1>7. FinishedIsSettled'
  BY <1>2, <1>3, <1>4 DEF IInv, FinishedIsSettled, Settled
<1>. QED  BY <1>1, <1>5, <1>6, <1>7 DEF IInv

(* The computation finishes once every item is settled, and only then is   *)
(* the continuation posted.                                                *)
LEMMA FinishKeepsIInv ==
  ASSUME IInv, NEW j \in Jobs, Finish(j)
  PROVE  IInv'
<1>1. TypeOK'
  BY NextTypeOK DEF IInv, Next
<1>2. ExportedUntilRemoved'
  BY DEF Finish, IInv, registry, ExportedUntilRemoved
<1>3. RemovedJobIsDone'
  BY DEF Finish, IInv, TypeOK, registry, RemovedJobIsDone
<1>4. PostedIsFinished' /\ OnlyStartedAnnounced' /\ AddingIsNew'
  BY DEF Finish, IInv, TypeOK, registry, PostedIsFinished, OnlyStartedAnnounced, AddingIsNew
<1>5. FinishedIsSettled'
  BY DEF Finish, IInv, TypeOK, FinishedIsSettled, Settled
<1>. QED  BY <1>1, <1>2, <1>3, <1>4, <1>5 DEF IInv

(* emitRemove: the job it removes is finished, hence settled, and had no   *)
(* removal before.                                                         *)
LEMMA EmitRemoveKeepsIInv ==
  ASSUME IInv, NEW j \in Jobs, EmitRemove(j)
  PROVE  IInv'
<1>. DEFINE r == [status |-> RemovedStatus(j), result |-> items[j]]
<1>1. TypeOK'
  BY NextTypeOK DEF IInv, Next
<1>2. UNCHANGED <<adding, future>> /\ posted' = posted \ {j} /\ announced' = announced
  BY DEF EmitRemove, registry
<1>3. PostedIsFinished' /\ OnlyStartedAnnounced' /\ FinishedIsSettled' /\ AddingIsNew'
  BY <1>2 DEF future, IInv, PostedIsFinished, OnlyStartedAnnounced, FinishedIsSettled,
              Settled, AddingIsNew
<1>4. CASE j \notin m_jobs
  BY <1>1, <1>2, <1>3, <1>4 DEF EmitRemove, IInv, registry, future, ExportedUntilRemoved,
                                RemovedJobIsDone
<1>5. CASE j \in m_jobs
  <2>1. removals[j] = <<>> /\ engine[j] = "finished" /\ Settled(j) /\ j \in announced
    BY <1>5 DEF EmitRemove, IInv, ExportedUntilRemoved, PostedIsFinished, FinishedIsSettled
  <2>2. m_jobs' = m_jobs \ {j} /\ bus' = bus \ {j}
    BY <1>5 DEF EmitRemove, RemoveOneJob
  <2>3. removals' = [removals EXCEPT ![j] = Append(removals[j], r)]
    BY <1>5 DEF EmitRemove
  <2>4. /\ Append(removals[j], r) = <<r>>
        /\ Len(<<r>>) = 1 /\ <<r>> # <<>> /\ DOMAIN <<r>> = {1} /\ <<r>>[1] = r
    BY <2>1
  <2>5. /\ removals'[j] = <<r>>
        /\ \A k \in Jobs \ {j} : removals'[k] = removals[k]
    BY <2>3, <2>4 DEF IInv, TypeOK
  <2>6. ExportedUntilRemoved'
    <3>1. bus = m_jobs /\ m_jobs = {k \in announced : removals[k] = <<>>}
      BY DEF IInv, ExportedUntilRemoved
    <3>2. announced \subseteq Jobs
      BY DEF IInv, TypeOK
    <3>3. \A k \in announced : k \in m_jobs' <=> removals'[k] = <<>>
      BY <2>2, <2>4, <2>5, <3>1, <3>2
    <3>4. m_jobs' \subseteq announced
      BY <2>2, <3>1
    <3>5. m_jobs' = {k \in announced' : removals'[k] = <<>>} /\ bus' = m_jobs'
      BY <1>2, <2>2, <3>1, <3>3, <3>4
    <3>6. \A k \in Jobs : /\ Len(removals'[k]) <= 1
                          /\ removals'[k] # <<>> => k \in announced'
      <4>1. \A k \in Jobs : /\ Len(removals[k]) <= 1
                            /\ removals[k] # <<>> => k \in announced
        BY DEF IInv, ExportedUntilRemoved
      <4>2. Len(removals'[j]) <= 1 /\ j \in announced'
        BY <1>2, <2>1, <2>4, <2>5
      <4>. QED  BY <1>2, <2>5, <4>1, <4>2
    <3>. QED  BY <3>5, <3>6 DEF ExportedUntilRemoved
  <2>7. RemovedJobIsDone'
    <3>1. \A i \in DOMAIN items[j] : items[j][i] \notin {"claimed", "running"}
      BY <2>1 DEF Settled, Outcomes
    <3>. QED  BY <1>2, <2>1, <2>4, <2>5, <3>1 DEF IInv, future, RemovedJobIsDone
  <2>. QED  BY <1>1, <1>3, <2>6, <2>7 DEF IInv
<1>. QED  BY <1>4, <1>5

(* Every step of the job manager preserves the invariant.                  *)
LEMMA NextIInv == IInv /\ [Next]_vars => IInv'
<1>. SUFFICES ASSUME IInv, [Next]_vars PROVE IInv'
  OBVIOUS
<1>1. ASSUME NEW j \in Jobs, ContinuationSkipped(j) PROVE IInv'
  <2>1. TypeOK'
    BY NextTypeOK DEF IInv
  <2>. QED  BY <1>1, <2>1 DEF ContinuationSkipped, future, registry, IInv,
       ExportedUntilRemoved, RemovedJobIsDone, PostedIsFinished, OnlyStartedAnnounced,
       FinishedIsSettled, Settled, AddingIsNew
<1>2. CASE UNCHANGED vars
  <2>1. TypeOK'
    BY NextTypeOK DEF IInv
  <2>. QED  BY <1>2, <2>1 DEF vars, IInv,
       ExportedUntilRemoved, RemovedJobIsDone, PostedIsFinished, OnlyStartedAnnounced,
       FinishedIsSettled, Settled, AddingIsNew
<1>. QED  BY <1>1, <1>2, StartKeepsIInv, AddedKeepsIInv, CallKeepsIInv, ItemKeepsIInv,
             FinishKeepsIInv, EmitRemoveKeepsIInv DEF Next

-----------------------------------------------------------------------------
(* A job's object is exported exactly from its JobNew to its JobRemoved,   *)
(* and JobRemoved is emitted at most once, for any number of jobs, items   *)
(* and threads (addJob, removeOneJob).                                     *)
THEOREM ExportCorrect == Spec => []ExportedUntilRemoved
<1>1. IInv => ExportedUntilRemoved
  BY DEF IInv
<1>. QED  BY <1>1, InitIInv, NextIInv, PTL DEF Spec

(* No thread works on a removed job, and JobRemoved carried the value of   *)
(* every item of it (emitRemove).                                          *)
THEOREM RemovalIsFinal == Spec => []RemovedJobIsDone
<1>1. IInv => RemovedJobIsDone
  BY DEF IInv
<1>. QED  BY <1>1, InitIInv, NextIInv, PTL DEF Spec

-----------------------------------------------------------------------------
(***************************************************************************)
(* The contract: every step of the job manager is a step of JobContract or *)
(* leaves its variables as they are.                                       *)
(***************************************************************************)
Held == {j \in Jobs : j \in canceled \/ suspend[j] # "no"}
PhaseMap == [j \in Jobs |-> Phase(j)]
ValuesMap == [j \in Jobs |-> ValuesOf(j)]
ReportedMap == [j \in Jobs |-> Reported(j)]

(* What is kept of the contract's variables when only futures' bits, the   *)
(* event loop or the state of computations that have begun change.         *)
LEMMA SameMaps ==
  ASSUME IInv, IInv', UNCHANGED <<adding, registry>>, items' = items,
         \A k \in Jobs : engine[k] = "none" <=> engine'[k] = "none"
  PROVE  PhaseMap' = PhaseMap /\ ValuesMap' = ValuesMap /\ ReportedMap' = ReportedMap /\ bus' = bus
<1>1. \A k \in Jobs : Phase(k)' = Phase(k)
  BY DEF Phase, registry
<1>2. \A k \in Jobs : ValuesOf(k)' = ValuesOf(k) /\ Reported(k)' = Reported(k)
  BY DEF ValuesOf, Reported, registry
<1>. QED  BY <1>1, <1>2 DEF PhaseMap, ValuesMap, ReportedMap, registry

(* addJob begins a job.                                                    *)
LEMMA StartRefines ==
  ASSUME IInv, IInv', NEW j \in Jobs, NEW n \in 1..MaxItems, StartComputation(j, n)
  PROVE  Contract!Next
<1>1. engine[j] = "none" /\ j \notin announced /\ removals[j] = <<>> /\ adding = {} /\ adding' = {j}
  BY DEF IInv, StartComputation, OnlyStartedAnnounced, ExportedUntilRemoved
<1>2. /\ engine' = [engine EXCEPT ![j] = "running"] /\ UNCHANGED <<suspend, canceled, registry>>
      /\ items'[j] = Unclaimed(n) /\ \A k \in Jobs \ {j} : items'[k] = items[k]
  BY DEF StartComputation, IInv, TypeOK
<1>3. ValuesOf(j)' = [i \in 1..n |-> "pending"]
  <2>1. DOMAIN items'[j] = 1..n /\ \A i \in 1..n : items'[j][i] = "unclaimed"
    BY <1>2 DEF Unclaimed
  <2>. QED  BY <2>1 DEF ValuesOf, Outcomes
<1>4. ValuesMap' = [ValuesMap EXCEPT ![j] = [i \in 1..n |-> "pending"]]
  <2>1. \A k \in Jobs \ {j} : ValuesOf(k)' = ValuesOf(k)
    BY <1>2 DEF ValuesOf
  <2>. QED  BY <1>3, <2>1 DEF ValuesMap
<1>5. ReportedMap' = ReportedMap /\ Held' = Held /\ bus' = bus
  BY <1>2 DEF ReportedMap, Reported, Held, registry
<1>6. PhaseMap[j] = "unknown"
  BY <1>1 DEF PhaseMap, Phase
<1>7. Phase(j)' = "begun" /\ \A k \in Jobs \ {j} : Phase(k)' = Phase(k)
  BY <1>1, <1>2 DEF Phase, IInv, TypeOK, registry
<1>8. PhaseMap' = [PhaseMap EXCEPT ![j] = "begun"]
  BY <1>7 DEF PhaseMap
<1>9. Contract!Begin(j, n)
  BY <1>4, <1>5, <1>6, <1>8
     DEF Contract!Begin, Contract!Pending, PhaseMap, ValuesMap, ReportedMap, Held
<1>. QED  BY <1>9 DEF Contract!Next

(* addJob accepts the job it began, or refuses it.                         *)
LEMMA AddedRefines ==
  ASSUME IInv, IInv', NEW j \in Jobs, Register(j) \/ RegisterFails(j)
  PROVE  Contract!Next
<1>1. /\ engine[j] # "none" /\ j \notin announced /\ removals[j] = <<>>
      /\ adding = {j} /\ adding' = {}
  BY DEF IInv, Register, RegisterFails, AddingIsNew, ExportedUntilRemoved
<1>2. UNCHANGED <<engine, suspend, items, removals>>
  BY DEF Register, RegisterFails, future, registry
<1>3. ValuesMap' = ValuesMap /\ ReportedMap' = ReportedMap
  BY <1>2 DEF ValuesMap, ValuesOf, ReportedMap, Reported
<1>4. PhaseMap[j] = "begun"
  BY <1>1 DEF PhaseMap, Phase
<1>5. CASE Register(j)
  <2>1. announced' = announced \cup {j} /\ bus' = bus \cup {j} /\ canceled' = canceled
    BY <1>5 DEF Register, future
  <2>2. Phase(j)' = "exported" /\ \A k \in Jobs \ {j} : Phase(k)' = Phase(k)
    BY <1>1, <1>2, <2>1 DEF Phase
  <2>3. PhaseMap' = [PhaseMap EXCEPT ![j] = "exported"]
    BY <2>2 DEF PhaseMap
  <2>4. Held' = Held
    BY <1>2, <2>1 DEF Held
  <2>5. Contract!Accept(j)
    BY <1>3, <1>4, <2>1, <2>3, <2>4
       DEF Contract!Accept, PhaseMap, ValuesMap, ReportedMap, Held
  <2>. QED  BY <2>5 DEF Contract!Next
<1>6. CASE RegisterFails(j)
  <2>1. announced' = announced /\ bus' = bus /\ canceled' = canceled \cup {j}
    BY <1>6 DEF RegisterFails, registry
  <2>2. Phase(j)' = "refused" /\ \A k \in Jobs \ {j} : Phase(k)' = Phase(k)
    BY <1>1, <1>2, <2>1 DEF Phase
  <2>3. PhaseMap' = [PhaseMap EXCEPT ![j] = "refused"]
    BY <2>2 DEF PhaseMap
  <2>4. Held' = Held \cup {j}
    BY <1>2, <2>1 DEF Held
  <2>5. Contract!Refuse(j)
    BY <1>3, <1>4, <2>1, <2>3, <2>4
       DEF Contract!Refuse, PhaseMap, ValuesMap, ReportedMap, Held
  <2>. QED  BY <2>5 DEF Contract!Next
<1>. QED  BY <1>5, <1>6

(* Cancel and Suspend hold a job, Resume may release it.                   *)
LEMMA CallRefines ==
  ASSUME IInv, IInv', NEW j \in Jobs, Cancel(j) \/ Suspend(j) \/ Resume(j) \/ ReportSuspended(j)
  PROVE  [Contract!Next]_Contract!vars
<1>1. PhaseMap' = PhaseMap /\ ValuesMap' = ValuesMap /\ ReportedMap' = ReportedMap /\ bus' = bus
  BY SameMaps DEF Cancel, Suspend, Resume, ReportSuspended
<1>2. CASE Cancel(j) \/ Suspend(j)
  <2>1. Held' = Held \cup {j} /\ j \in bus
    BY <1>2 DEF Cancel, Suspend, Held, IInv, TypeOK
  <2>2. Contract!Hold(j)
    BY <1>1, <2>1 DEF Contract!Hold, PhaseMap, ValuesMap, ReportedMap, Held
  <2>. QED  BY <2>2 DEF Contract!Next
<1>3. CASE Resume(j)
  <2>1. j \in bus /\ (Held' = Held \/ Held' = Held \ {j})
    BY <1>3 DEF Resume, Held, IInv, TypeOK
  <2>2. CASE Held' = Held
    BY <1>1, <2>2 DEF Contract!vars, PhaseMap, ValuesMap, ReportedMap, Held
  <2>3. CASE Held' = Held \ {j}
    <3>1. Contract!Release(j)
      BY <1>1, <2>1, <2>3 DEF Contract!Release, PhaseMap, ValuesMap, ReportedMap, Held
    <3>. QED  BY <3>1 DEF Contract!Next
  <2>. QED  BY <2>1, <2>2, <2>3
<1>4. CASE ReportSuspended(j)
  <2>1. Held' = Held
    BY <1>4 DEF ReportSuspended, Held, IInv, TypeOK
  <2>. QED  BY <1>1, <2>1 DEF Contract!vars, PhaseMap, ValuesMap, ReportedMap, Held
<1>. QED  BY <1>2, <1>3, <1>4

(* A sequence without a first element is empty.                            *)
LEMMA EmptySeq ==
  ASSUME NEW S, NEW q \in Seq(S), 1 \notin DOMAIN q
  PROVE  q = <<>>
<1>1. Len(q) \in Nat /\ DOMAIN q = 1..Len(q)
  OBVIOUS
<1>2. Len(q) = 0
  BY <1>1
<1>. QED  BY <1>2

(* A job that has not begun has no items.                                  *)
UnbegunIsEmpty == \A j \in Jobs : engine[j] = "none" => items[j] = <<>>

(* It stays so: items are set by addJob, and by threads that found one.    *)
LEMMA UnbegunStaysEmpty == IInv /\ UnbegunIsEmpty /\ [Next]_vars => UnbegunIsEmpty'
<1>. SUFFICES ASSUME IInv, UnbegunIsEmpty, [Next]_vars PROVE UnbegunIsEmpty'
  OBVIOUS
<1>1. ASSUME NEW j \in Jobs, NEW n \in 1..MaxItems, StartComputation(j, n)
      PROVE  UnbegunIsEmpty'
  BY <1>1 DEF StartComputation, UnbegunIsEmpty, IInv, TypeOK
<1>2. ASSUME NEW j \in Jobs, ClaimItem(j) \/ RunItem(j) \/ ItemReturns(j)
      PROVE  UnbegunIsEmpty'
  <2>1. engine' = engine /\ items[j] # <<>>
    BY <1>2 DEF ClaimItem, RunItem, ItemReturns
  <2>2. \A k \in Jobs \ {j} : items'[k] = items[k]
    BY <1>2 DEF ClaimItem, RunItem, ItemReturns, SetItem, IInv, TypeOK
  <2>. QED  BY <2>1, <2>2 DEF UnbegunIsEmpty
<1>3. ASSUME NEW j \in Jobs, Finish(j) PROVE UnbegunIsEmpty'
  BY <1>3 DEF Finish, UnbegunIsEmpty, IInv, TypeOK
<1>4. ASSUME NEW j \in Jobs,
             \/ Register(j) \/ RegisterFails(j)
             \/ Cancel(j) \/ Suspend(j) \/ Resume(j) \/ ReportSuspended(j)
             \/ EmitRemove(j) \/ ContinuationSkipped(j)
      PROVE  UnbegunIsEmpty'
  <2>1. engine' = engine /\ items' = items
    BY <1>4 DEF Register, RegisterFails, Cancel, Suspend, Resume, ReportSuspended, EmitRemove,
                ContinuationSkipped, future
  <2>. QED  BY <2>1 DEF UnbegunIsEmpty
<1>5. CASE UNCHANGED vars
  BY <1>5 DEF vars, UnbegunIsEmpty
<1>. QED  BY <1>1, <1>2, <1>3, <1>4, <1>5 DEF Next

(* An item that is claimed or run has no value yet; the one that returns   *)
(* belongs to a job that has begun and is not removed.                     *)
LEMMA ItemRefines ==
  ASSUME IInv, UnbegunIsEmpty, NEW j \in Jobs, ClaimItem(j) \/ RunItem(j) \/ ItemReturns(j)
  PROVE  [Contract!Next]_Contract!vars
<1>1. UNCHANGED <<adding, engine, canceled, suspend, registry>>
  BY DEF ClaimItem, RunItem, ItemReturns
<1>2. PhaseMap' = PhaseMap /\ ReportedMap' = ReportedMap /\ bus' = bus /\ Held' = Held
  BY <1>1 DEF PhaseMap, Phase, ReportedMap, Reported, Held, registry
<1>3. ASSUME NEW i \in DOMAIN items[j], NEW s \in ItemStates, SetItem(j, i, s),
             items[j][i] \notin Outcomes
      PROVE  ValuesMap' = [ValuesMap EXCEPT
                ![j][i] = IF s \in Outcomes THEN s ELSE "pending"]
  <2>1. /\ items'[j] = [items[j] EXCEPT ![i] = s]
        /\ \A k \in Jobs \ {j} : items'[k] = items[k]
    BY <1>3 DEF SetItem, IInv, TypeOK
  <2>2. \A k \in Jobs \ {j} : ValuesOf(k)' = ValuesOf(k)
    BY <2>1 DEF ValuesOf
  <2>3. ValuesOf(j)' = [ValuesOf(j) EXCEPT ![i] = IF s \in Outcomes THEN s ELSE "pending"]
    BY <2>1 DEF ValuesOf
  <2>. QED  BY <2>2, <2>3 DEF ValuesMap
<1>4. CASE ClaimItem(j) \/ RunItem(j)
  <2>1. PICK i \in DOMAIN items[j], s \in {"claimed", "running"} :
           SetItem(j, i, s) /\ items[j][i] \in {"unclaimed", "claimed"}
    BY <1>4 DEF ClaimItem, RunItem
  <2>2. ValuesMap' = [ValuesMap EXCEPT ![j][i] = "pending"]
    BY <1>3, <2>1 DEF Outcomes, ItemStates
  <2>3. ValuesMap[j][i] = "pending" /\ i \in DOMAIN ValuesMap[j]
    BY <2>1 DEF ValuesMap, ValuesOf, Outcomes
  <2>4. ValuesMap' = ValuesMap
    <3>1. [ValuesOf(j) EXCEPT ![i] = "pending"] = ValuesOf(j)
      BY <2>3 DEF ValuesMap, ValuesOf
    <3>2. ValuesMap' = [ValuesMap EXCEPT ![j] = ValuesOf(j)]
      BY <2>2, <3>1 DEF ValuesMap
    <3>. QED  BY <3>2 DEF ValuesMap
  <2>. QED  BY <1>2, <2>4 DEF Contract!vars, PhaseMap, ValuesMap, ReportedMap, Held
<1>5. CASE ItemReturns(j)
  <2>1. PICK i \in DOMAIN items[j], out \in Outcomes :
           SetItem(j, i, out) /\ items[j][i] = "running"
    BY <1>5 DEF ItemReturns
  <2>2. ValuesMap' = [ValuesMap EXCEPT ![j][i] = out]
    BY <1>3, <2>1 DEF Outcomes, ItemStates
  <2>3. ValuesMap[j][i] = "pending" /\ i \in DOMAIN ValuesMap[j]
    BY <2>1 DEF ValuesMap, ValuesOf, Outcomes
  <2>4. removals[j] = <<>>
    <3>1. removals[j] \in Seq(Removal)
      BY DEF IInv, TypeOK
    <3>2. 1 \notin DOMAIN removals[j]
      BY <2>1 DEF IInv, RemovedJobIsDone
    <3>. QED  BY <3>1, <3>2, EmptySeq
  <2>5. PhaseMap[j] \in {"begun", "exported", "refused"}
    BY <2>1, <2>4 DEF PhaseMap, Phase, UnbegunIsEmpty
  <2>6. i \in 1..MaxItems
    <3>1. items[j] \in UNION {[1..n -> ItemStates] : n \in 0..MaxItems}
      BY DEF IInv, TypeOK, ItemSeqs
    <3>2. PICK n \in 0..MaxItems : items[j] \in [1..n -> ItemStates]
      BY <3>1
    <3>. QED  BY <2>1, <3>2, MaxItemsAssumption
  <2>7. Contract!Return(j, i, out)
    BY <1>2, <2>2, <2>3, <2>5
       DEF Contract!Return, Contract!Pending, PhaseMap, ValuesMap, ReportedMap, Held
  <2>. QED  BY <2>1, <2>6, <2>7 DEF Contract!Next
<1>. QED  BY <1>4, <1>5

(* The end of the computation is nothing a client sees.                    *)
LEMMA FinishRefines ==
  ASSUME IInv, IInv', NEW j \in Jobs, Finish(j) \/ ContinuationSkipped(j)
  PROVE  UNCHANGED Contract!vars
<1>1. /\ UNCHANGED <<adding, registry, items, canceled, suspend>>
      /\ \A k \in Jobs : engine[k] = "none" <=> engine'[k] = "none"
  BY DEF Finish, ContinuationSkipped, future, IInv, TypeOK
<1>2. PhaseMap' = PhaseMap /\ ValuesMap' = ValuesMap /\ ReportedMap' = ReportedMap /\ bus' = bus
  BY <1>1, SameMaps
<1>3. Held' = Held
  BY <1>1 DEF Held
<1>. QED  BY <1>2, <1>3 DEF Contract!vars, PhaseMap, ValuesMap, ReportedMap, Held

(* The continuation removes an exported job whose items all have values.   *)
LEMMA EmitRemoveRefines ==
  ASSUME IInv, IInv', NEW j \in Jobs, EmitRemove(j)
  PROVE  [Contract!Next]_Contract!vars
<1>. DEFINE r == [status |-> RemovedStatus(j), result |-> items[j]]
<1>1. UNCHANGED <<adding, engine, canceled, suspend, items>>
  BY DEF EmitRemove, future
<1>2. ValuesMap' = ValuesMap /\ Held' = Held
  BY <1>1 DEF ValuesMap, ValuesOf, Held
<1>3. CASE j \notin m_jobs
  <2>1. UNCHANGED registry
    BY <1>3 DEF EmitRemove
  <2>2. PhaseMap' = PhaseMap /\ ReportedMap' = ReportedMap /\ bus' = bus
    BY <1>1, <2>1, SameMaps
  <2>. QED  BY <1>2, <2>2 DEF Contract!vars, PhaseMap, ValuesMap, ReportedMap, Held
<1>4. CASE j \in m_jobs
  <2>1. removals[j] = <<>> /\ j \in announced /\ Settled(j) /\ j \notin canceled
    BY <1>4 DEF EmitRemove, IInv, ExportedUntilRemoved, PostedIsFinished, FinishedIsSettled
  <2>2. /\ announced' = announced /\ bus' = bus \ {j}
        /\ removals' = [removals EXCEPT ![j] = Append(removals[j], r)]
    BY <1>4 DEF EmitRemove, RemoveOneJob
  <2>3. /\ Append(removals[j], r) = <<r>>
        /\ <<r>> # <<>> /\ <<r>>[1] = r
    BY <2>1
  <2>4. /\ removals'[j] = <<r>>
        /\ \A k \in Jobs \ {j} : removals'[k] = removals[k]
    BY <2>2, <2>3 DEF IInv, TypeOK
  <2>5. /\ Phase(j) = "exported" /\ Phase(j)' = "removed"
        /\ \A k \in Jobs \ {j} : Phase(k)' = Phase(k)
    BY <1>1, <2>1, <2>2, <2>3, <2>4 DEF Phase
  <2>6. PhaseMap' = [PhaseMap EXCEPT ![j] = "removed"] /\ PhaseMap[j] = "exported"
    BY <2>5 DEF PhaseMap
  <2>7. \A i \in DOMAIN items[j] : items[j][i] \in Outcomes
    BY <2>1 DEF Settled
  <2>8. \A i \in DOMAIN ValuesMap[j] : ValuesMap[j][i] # "pending"
    BY <2>7 DEF ValuesMap, ValuesOf, Outcomes
  <2>9. ValuesMap[j] = items[j]
    <3>1. PICK n \in 0..MaxItems : items[j] \in [1..n -> ItemStates]
      <4>1. items[j] \in UNION {[1..n -> ItemStates] : n \in 0..MaxItems}
        BY DEF IInv, TypeOK, ItemSeqs
      <4>. QED  BY <4>1
    <3>2. ValuesMap[j] = [i \in DOMAIN items[j] |-> items[j][i]]
      BY <2>7 DEF ValuesMap, ValuesOf
    <3>. QED  BY <3>1, <3>2
  <2>10. ReportedMap' = [ReportedMap EXCEPT ![j] = ValuesMap[j]]
    <3>1. Reported(j)' = items[j] /\ \A k \in Jobs \ {j} : Reported(k)' = Reported(k)
      BY <2>3, <2>4 DEF Reported
    <3>. QED  BY <2>9, <3>1 DEF ReportedMap
  <2>11. Contract!Remove(j)
    BY <1>2, <2>2, <2>6, <2>8, <2>10
       DEF Contract!Remove, Contract!Pending, PhaseMap, ValuesMap, ReportedMap, Held
  <2>. QED  BY <2>11 DEF Contract!Next
<1>. QED  BY <1>3, <1>4

(* The job manager starts where its contract does.                         *)
LEMMA InitRefines == Init => Contract!Init
<1>. SUFFICES ASSUME Init PROVE Contract!Init
  OBVIOUS
<1>1. PhaseMap = [j \in Jobs |-> "unknown"]
  BY DEF Init, PhaseMap, Phase
<1>2. ValuesMap = [j \in Jobs |-> <<>>]
  <2>1. \A j \in Jobs : items[j] = <<>>
    BY DEF Init
  <2>2. \A j \in Jobs : ValuesOf(j) = <<>>
    <3>. SUFFICES ASSUME NEW j \in Jobs PROVE ValuesOf(j) = <<>>
      OBVIOUS
    <3>1. ValuesOf(j) \in [1..0 -> {"pending"}] /\ <<>> \in [1..0 -> {"pending"}]
      BY <2>1 DEF ValuesOf
    <3>. QED  BY <3>1
  <2>. QED  BY <2>2 DEF ValuesMap
<1>3. ReportedMap = [j \in Jobs |-> <<>>] /\ bus = {} /\ Held = {}
  BY DEF Init, ReportedMap, Reported, Held
<1>. QED  BY <1>1, <1>2, <1>3 DEF Contract!Init, PhaseMap, ValuesMap, ReportedMap, Held

(* Every step of the job manager is one of its contract, or none.          *)
LEMMA NextRefines ==
  IInv /\ UnbegunIsEmpty /\ [Next]_vars => [Contract!Next]_Contract!vars
<1>. SUFFICES ASSUME IInv, UnbegunIsEmpty, [Next]_vars PROVE [Contract!Next]_Contract!vars
  OBVIOUS
<1>1. IInv'
  BY NextIInv
<1>2. CASE UNCHANGED vars
  <2>1. UNCHANGED <<adding, registry, items, canceled, suspend, engine>>
    BY <1>2 DEF vars, registry
  <2>2. PhaseMap' = PhaseMap /\ ValuesMap' = ValuesMap /\ ReportedMap' = ReportedMap /\ bus' = bus
    BY <1>1, <2>1, SameMaps
  <2>3. Held' = Held
    BY <2>1 DEF Held
  <2>. QED  BY <2>2, <2>3 DEF Contract!vars, PhaseMap, ValuesMap, ReportedMap, Held
<1>. QED  BY <1>1, <1>2, StartRefines, AddedRefines, CallRefines, ItemRefines, FinishRefines,
             EmitRemoveRefines DEF Next

(* The job manager keeps its contract, for any number of jobs and items:   *)
(* each item has its value once, and a job is removed once, with all of    *)
(* them (addJob, emitRemove, removeOneJob over Qt's pool).                 *)
THEOREM ContractKept == Spec => KeepsContract
<1>1. Init => UnbegunIsEmpty
  BY DEF Init, UnbegunIsEmpty
<1>. QED  BY <1>1, InitIInv, NextIInv, UnbegunStaysEmpty, InitRefines, NextRefines, PTL
          DEF Spec, KeepsContract, Contract!Spec
=============================================================================
