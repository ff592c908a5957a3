------------------------------ MODULE JobManager ------------------------------
(***************************************************************************)
(* The job manager of dde-application-manager: every launch runs as a Job, *)
(* a QtConcurrent::mappedReduced computation over the resources of the     *)
(* launch, exported on D-Bus with Cancel, Suspend and Resume, and removed  *)
(* by a continuation that the main thread runs (jobmanager1service.h,      *)
(* jobmanager1service.cpp, jobservice.cpp).                                *)
(*                                                                         *)
(* Three kinds of actors interleave: D-Bus calls on the main thread        *)
(* (addJob, Cancel, Suspend, Resume), the threads of the Qt pool that run  *)
(* the mapped function once per item, and the main thread's event loop     *)
(* that runs the posted continuation.  The behaviour of QFuture and of     *)
(* QtConcurrent is external: it is the documented behaviour src/ relies    *)
(* on.                                                                     *)
(***************************************************************************)
EXTENDS Naturals, Sequences

CONSTANTS Jobs,     \* the object paths addJob draws (QUuid, never reused)
          MaxItems  \* bound on the resources of one launch

ASSUME MaxItemsAssumption == MaxItems \in Nat \ {0}

(***************************************************************************)
(* The future of a job: the state of the computation, its Canceled bit,    *)
(* its suspension bits, and the state of every item.  An item's function   *)
(* is the launch lambda, which returns an instance path or                 *)
(* QDBusError::Failed -- an enumerator, that a QVariant holds as an int.   *)
(***************************************************************************)
Outcomes   == {"path", "errorCode"}
ItemStates == {"unclaimed", "claimed", "running"} \cup Outcomes
ItemSeqs   == UNION {[1..n -> ItemStates] : n \in 0..MaxItems}

VARIABLES
  adding,     \* the job whose addJob the main thread is in, if any
  engine,     \* [Jobs -> {"none", "running", "finished"}]
  canceled,   \* the jobs whose future has the Canceled bit
  suspend,    \* [Jobs -> {"no", "suspending", "suspended"}]
  items,      \* [Jobs -> ItemSeqs]
  posted,     \* continuations waiting in the main thread's event loop
  m_jobs,     \* JobManager1Service::m_jobs
  bus,        \* job objects registered on D-Bus
  announced,  \* jobs JobNew was emitted for
  removals    \* [Jobs -> Seq of the arguments of each JobRemoved]

vars == <<adding, engine, canceled, suspend, items, posted, m_jobs, bus, announced, removals>>
future   == <<engine, canceled, suspend, items>>
registry == <<m_jobs, bus, announced, removals>>

Init ==
  /\ adding = {}
  /\ engine = [j \in Jobs |-> "none"]
  /\ canceled = {}
  /\ suspend = [j \in Jobs |-> "no"]
  /\ items = [j \in Jobs |-> <<>>]
  /\ posted = {}
  /\ m_jobs = {}
  /\ bus = {}
  /\ announced = {}
  /\ removals = [j \in Jobs |-> <<>>]

-----------------------------------------------------------------------------
(* addJob: the computation starts first, and from then on the threads work *)
(* on it while the main thread registers the object, lists the job,        *)
(* announces it and attaches the continuation.  A computation that is over *)
(* by then runs its continuation at once; here it is the next thing the    *)
(* main thread may do.  When the registration fails the future is canceled *)
(* and the job forgotten, whatever the threads have done of it.            *)

Unclaimed(n) == [i \in 1..n |-> "unclaimed"]

StartComputation(j, n) ==
  /\ adding = {}
  /\ engine[j] = "none"
  /\ adding' = {j}
  /\ engine' = [engine EXCEPT ![j] = "running"]
  /\ items' = [items EXCEPT ![j] = Unclaimed(n)]
  /\ UNCHANGED <<canceled, suspend, posted, registry>>

RegisterAttachesOnly(j) ==  \* mutant
  /\ j \in adding
  /\ adding' = {}
  /\ m_jobs' = m_jobs \cup {j}
  /\ bus' = bus \cup {j}
  /\ announced' = announced \cup {j}
  /\ UNCHANGED <<future, posted, removals>>

Register(j) ==
  /\ j \in adding
  /\ adding' = {}
  /\ m_jobs' = m_jobs \cup {j}
  /\ bus' = bus \cup {j}
  /\ announced' = announced \cup {j}
  /\ posted' = IF engine[j] = "finished" THEN posted \cup {j} ELSE posted
  /\ UNCHANGED <<future, removals>>

RegisterFailsUncanceled(j) ==  \* mutant
  /\ j \in adding
  /\ adding' = {}
  /\ UNCHANGED <<future, posted, registry>>

RegisterFails(j) ==
  /\ j \in adding
  /\ adding' = {}
  /\ canceled' = canceled \cup {j}
  /\ UNCHANGED <<engine, suspend, items, posted, registry>>

-----------------------------------------------------------------------------
(* removeOneJob                                                            *)
RemoveOneJobKeepsObject(j) == m_jobs' = m_jobs \ {j} /\ UNCHANGED bus \* mutant

RemoveOneJob(j) ==
  /\ m_jobs' = m_jobs \ {j}
  /\ bus' = bus \ {j}

(* The main thread takes D-Bus calls and posted events between two addJob. *)
Serving == adding = {}

(* The D-Bus methods of a job that is still exported (JobService).         *)

CancelRemovesAtOnce(j) ==  \* mutant
  /\ Serving /\ j \in bus
  /\ canceled' = canceled \cup {j}
  /\ RemoveOneJob(j)
  /\ removals' = [removals EXCEPT
       ![j] = Append(@, [status |-> "canceled", result |-> items[j]])]
  /\ UNCHANGED <<adding, engine, suspend, items, posted, announced>>

Cancel(j) ==
  /\ Serving /\ j \in bus
  /\ canceled' = canceled \cup {j}
  /\ suspend' = IF j \in canceled THEN suspend ELSE [suspend EXCEPT ![j] = "no"]
  /\ UNCHANGED <<adding, engine, items, posted, registry>>

Suspend(j) ==
  /\ Serving /\ j \in bus
  /\ suspend' = [suspend EXCEPT ![j] = "suspending"]
  /\ UNCHANGED <<adding, engine, canceled, items, posted, registry>>

Resume(j) ==
  /\ Serving /\ j \in bus
  /\ suspend' = [suspend EXCEPT ![j] = "no"]
  /\ UNCHANGED <<adding, engine, canceled, items, posted, registry>>

-----------------------------------------------------------------------------
(* The Qt thread pool (external).  A thread claims the next item unless    *)
(* the future is canceled, waits there while it is suspended and not       *)
(* canceled, then runs the function: a claimed item is run even when the   *)
(* job has been canceled since.                                            *)

Blocked(j) == suspend[j] # "no" /\ j \notin canceled

SetItem(j, i, s) == items' = [items EXCEPT ![j][i] = s]

ClaimItem(j) ==
  /\ engine[j] = "running"
  /\ j \notin canceled
  /\ \E i \in DOMAIN items[j] :
        /\ items[j][i] = "unclaimed"
        /\ \A k \in 1..(i - 1) : items[j][k] # "unclaimed"
        /\ SetItem(j, i, "claimed")
  /\ UNCHANGED <<adding, engine, canceled, suspend, posted, registry>>

ReportSuspended(j) ==
  /\ Blocked(j)
  /\ suspend[j] = "suspending"
  /\ \E i \in DOMAIN items[j] : items[j][i] = "claimed"
  /\ suspend' = [suspend EXCEPT ![j] = "suspended"]
  /\ UNCHANGED <<adding, engine, canceled, items, posted, registry>>

RunItem(j) ==
  /\ ~ Blocked(j)
  /\ \E i \in DOMAIN items[j] :
        items[j][i] = "claimed" /\ SetItem(j, i, "running")
  /\ UNCHANGED <<adding, engine, canceled, suspend, posted, registry>>

(* The launch helper exits: with 0 the item's value is the instance path.  *)
ItemReturns(j) ==
  /\ \E i \in DOMAIN items[j], out \in Outcomes :
        items[j][i] = "running" /\ SetItem(j, i, out)
  /\ UNCHANGED <<adding, engine, canceled, suspend, posted, registry>>

Settled(j) ==
  \A i \in DOMAIN items[j] :
     items[j][i] \in Outcomes \/ (j \in canceled /\ items[j][i] = "unclaimed")

(* The last thread reports the computation finished, which posts the       *)
(* continuation, if one is attached, to the main thread.                   *)
Finish(j) ==
  /\ engine[j] = "running"
  /\ Settled(j)
  /\ engine' = [engine EXCEPT ![j] = "finished"]
  /\ posted' = IF j \in announced THEN posted \cup {j} ELSE posted
  /\ UNCHANGED <<adding, canceled, suspend, items, registry>>

-----------------------------------------------------------------------------
(* JobService::status                                                      *)
Status(j) ==
  IF engine[j] = "running"
  THEN IF suspend[j] = "no" THEN "running" ELSE suspend[j]
  ELSE IF j \in canceled THEN "canceled" ELSE "finished"

(* Does the QVariant hold a QDBusError?  Neither outcome does.             *)
IsQDBusError(v) == v = "QDBusError"

RemovedStatusAsDocumented(j) ==  \* mutant
  IF Len(items[j]) > 0 /\ items[j][1] = "errorCode" THEN "false" ELSE Status(j)

(* The status argument of JobRemoved looks at the first value only.        *)
RemovedStatus(j) ==
  IF Len(items[j]) > 0 /\ IsQDBusError(items[j][1]) THEN "failed" ELSE Status(j)

(* The event loop reaches the continuation.  Qt does not call the function *)
(* given to QFuture::then when the future is canceled by that time; it     *)
(* then cancels the (discarded) future of the continuation.                *)
EmitRemove(j) ==
  /\ Serving /\ j \in posted
  /\ j \notin canceled
  /\ posted' = posted \ {j}
  /\ IF j \in m_jobs
     THEN /\ RemoveOneJob(j)
          /\ removals' = [removals EXCEPT
               ![j] = Append(@, [status |-> RemovedStatus(j), result |-> items[j]])]
          /\ UNCHANGED announced
     ELSE UNCHANGED registry
  /\ UNCHANGED <<adding, future>>

ContinuationSkipped(j) ==
  /\ Serving /\ j \in posted
  /\ j \in canceled
  /\ posted' = posted \ {j}
  /\ UNCHANGED <<adding, future, registry>>

AddJobReturns(j) == Register(j) \/ RegisterFails(j)
Pool(j) == ClaimItem(j) \/ RunItem(j) \/ ItemReturns(j) \/ Finish(j)
EventLoop(j) == EmitRemove(j) \/ ContinuationSkipped(j)

Next ==
  \E j \in Jobs :
     \/ \E n \in 1..MaxItems : StartComputation(j, n)
     \/ Register(j) \/ RegisterFails(j)
     \/ Cancel(j) \/ Suspend(j) \/ Resume(j)
     \/ ClaimItem(j) \/ ReportSuspended(j) \/ RunItem(j) \/ ItemReturns(j)
     \/ Finish(j)
     \/ EmitRemove(j) \/ ContinuationSkipped(j)

Spec == Init /\ [][Next]_vars

(* addJob returns, the pool's threads run, app-launch-helper exits and the *)
(* event loop turns; clients need never call anything.                     *)
Fairness ==
  \A j \in Jobs : /\ WF_vars(AddJobReturns(j))
                  /\ WF_vars(Pool(j)) /\ WF_vars(EventLoop(j))

FairSpec == Spec /\ Fairness

-----------------------------------------------------------------------------
(* Types of the variables.                                                 *)
Removal == [status : {"running", "suspending", "suspended", "canceled", "finished", "failed"},
            result : ItemSeqs]

TypeOK ==
  /\ adding \subseteq Jobs
  /\ engine \in [Jobs -> {"none", "running", "finished"}]
  /\ canceled \subseteq Jobs
  /\ suspend \in [Jobs -> {"no", "suspending", "suspended"}]
  /\ items \in [Jobs -> ItemSeqs]
  /\ posted \subseteq Jobs
  /\ m_jobs \subseteq Jobs
  /\ bus \subseteq Jobs
  /\ announced \subseteq Jobs
  /\ removals \in [Jobs -> Seq(Removal)]

(* What a D-Bus client can rely on, whatever the order of calls, threads   *)
(* and continuations: the object of a job is exported exactly from its     *)
(* JobNew to its JobRemoved, and JobRemoved is emitted at most once        *)
(* (addJob and removeOneJob keep m_jobs, the bus and the signals together).*)
ExportedUntilRemoved ==
  /\ bus = m_jobs
  /\ m_jobs = {j \in announced : removals[j] = <<>>}
  /\ \A j \in Jobs : /\ Len(removals[j]) <= 1
                     /\ removals[j] # <<>> => j \in announced

(* JobRemoved is the end of a job: no thread runs, or will ever run, an    *)
(* item of a removed job, and the signal carried the value of every item   *)
(* (emitRemove runs after the computation and reads its result).           *)
RemovedJobIsDone ==
  \A j \in Jobs : \A k \in DOMAIN removals[j] :
     /\ engine[j] = "finished"
     /\ removals[j][k].result = items[j]
     /\ \A i \in DOMAIN items[j] : items[j][i] \notin {"claimed", "running"}

(* The threads, the future and the continuation do together what the       *)
(* contract says, although the threads begin before addJob has registered  *)
(* anything: each item's value once, a refused job stopped, one removal    *)
(* with all values and nothing after it (addJob, emitRemove, removeOneJob  *)
(* over Qt's pool).                                                        *)
Phase(j) ==
  CASE removals[j] # <<>> -> "removed"
    [] removals[j] = <<>> /\ j \in announced -> "exported"
    [] removals[j] = <<>> /\ j \notin announced ->
         IF engine[j] = "none" THEN "unknown"
         ELSE IF j \in adding THEN "begun" ELSE "refused"
ValuesOf(j) ==
  [i \in DOMAIN items[j] |-> IF items[j][i] \in Outcomes THEN items[j][i] ELSE "pending"]
Reported(j) == IF removals[j] = <<>> THEN <<>> ELSE removals[j][1].result

Contract ==
  INSTANCE JobContract WITH
    Values   <- Outcomes,
    phase    <- [j \in Jobs |-> Phase(j)],
    values   <- [j \in Jobs |-> ValuesOf(j)],
    exported <- bus,
    reported <- [j \in Jobs |-> Reported(j)],
    held     <- {j \in Jobs : j \in canceled \/ suspend[j] # "no"}

KeepsContract == Contract!Spec

(* A job nobody cancels or suspends leaves the manager: the continuation   *)
(* is not lost even if the computation is over before addJob attaches it.  *)
UntouchedJobRemoved == Contract!Served
=============================================================================
