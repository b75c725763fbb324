---------------------------- MODULE WorkerTasks ----------------------------
(***************************************************************************)
(* Background work of aiworks_core: the WorkerTask rows of the database,   *)
(* the watchdog thread of every node (apps.py) and the WorkerExecutor      *)
(* threads it submits to the node's bounded pool (logic/executor.py).      *)
(*                                                                         *)
(* A row is locked by node n while it belongs to batch[n]: SELECT .. FOR   *)
(* UPDATE SKIP LOCKED passes over it, an UPDATE of it waits, a plain read  *)
(* does not.  Time is abstract: a timestamp is "fresh" until an Age action *)
(* makes it older than the 60 s thresholds.                                *)
(***************************************************************************)
EXTENDS Integers, FiniteSets

CONSTANTS
  Tasks,        \* WorkerTask rows, one per session
  Nodes,        \* server processes that run a watchdog
  Execs,        \* values of WorkerExecutor.executor_id
  NoExec, NoTask, NoNode,
  MaxSlots,     \* _POOL_MAX_WORKERS
  MaxRetries,   \* WorkerTask.MAX_RETRIES
  MaxFaults,    \* bound on crashes and database errors
  Tunnelled,    \* tasks whose session lists desktop tunnel servers
  Deletable,    \* tasks whose session users may delete and restore
  Timely        \* TRUE: no thread of a live executor stalls for 60 s

ASSUME ConstantsAssumption ==
  /\ NoExec \notin Execs /\ NoTask \notin Tasks /\ NoNode \notin Nodes
  /\ MaxSlots \in Nat \ {0}
  /\ MaxRetries \in Nat
  /\ MaxFaults \in Nat
  /\ Tunnelled \subseteq Tasks /\ Deletable \subseteq Tasks
  /\ Timely \in BOOLEAN
  /\ IsFiniteSet(Tasks) /\ IsFiniteSet(Execs)

VARIABLES
  status, owner, beat, retries,  \* columns of the WorkerTask row
  sess,      \* its session: live, soft-deleted, or purged together with the row
  linked,    \* all desktop tunnels of the session are connected
  wpc,       \* the step the node's watchdog thread is at
  batch,     \* rows its open transaction has locked
  avail,     \* what _pool_available_slots() returned to it
  toRun,     \* tasks_to_run: claimed, not submitted yet
  free,      \* value of the node's _pool_semaphore
  pc,        \* where executor thread e is
  job, home, \* its task and its node
  verdict,   \* the final status it wants to write
  caught,    \* it is in the except clause of run()
  faults     \* faults injected so far

rowVars  == <<status, owner, beat, retries>>
envVars  == <<sess, linked>>
dogVars  == <<wpc, batch, avail, toRun>>
execVars == <<pc, job, home, verdict, caught>>
vars     == <<rowVars, envVars, dogVars, free, execVars, faults>>

Statuses  == {"pending", "running", "completed", "failed", "fatal_failure"}
Beats     == {"null", "fresh", "stale"}
Sessions  == {"live", "deleted", "purged"}
WatchPcs  == {"failed", "failedTx", "pending", "select", "pendingTx", "launch", "purge"}
ExecPcs   == {"none", "queued", "running", "check", "write", "exit"}

(***************************************************************************)
(* Rows, locks and executors.                                              *)
(***************************************************************************)
Row(t)    == sess[t] # "purged"

\* Variant: a SELECT that does not lock.
NoLock(t) == FALSE

Locked(t) == \E n \in Nodes : t \in batch[n]

\* Executors between submission and the end of run(), and those among them
\* that have claimed their task.
Active(e)  == pc[e] \in {"queued", "running", "check", "write"}
Claimed(e) == pc[e] \in {"running", "check", "write"}

\* The watchdog or an executor has the task in hand.
Held(t) == \/ \E n \in Nodes : t \in toRun[n]
           \/ \E e \in Execs : Active(e) /\ job[e] = t

\* uuid4(): a value that no executor has and no row mentions.
Fresh(e) == pc[e] = "none" /\ \A t \in Tasks : owner[t] # e

Init ==
  /\ status   = [t \in Tasks |-> "pending"]
  /\ owner    = [t \in Tasks |-> NoExec]
  /\ beat     = [t \in Tasks |-> "null"]
  /\ retries  = [t \in Tasks |-> 0]
  /\ sess     = [t \in Tasks |-> "live"]
  /\ linked   = [t \in Tasks |-> t \notin Tunnelled]
  /\ wpc      = [n \in Nodes |-> "failed"]
  /\ batch    = [n \in Nodes |-> {}]
  /\ avail    = [n \in Nodes |-> 0]
  /\ toRun    = [n \in Nodes |-> {}]
  /\ free     = [n \in Nodes |-> MaxSlots]
  /\ pc       = [e \in Execs |-> "none"]
  /\ job      = [e \in Execs |-> NoTask]
  /\ home     = [e \in Execs |-> NoNode]
  /\ verdict  = [e \in Execs |-> "failed"]
  /\ caught   = [e \in Execs |-> FALSE]
  /\ faults   = 0

(***************************************************************************)
(* Watchdog: _handle_failed_sessions, one transaction.                     *)
(***************************************************************************)
\* alive_beat is older than the threshold.  Without an alive_beat the queries fall
\* back on started_at, whose age is left open: RowConsistent shows that no failed
\* or running row lacks an alive_beat.
OldBeat(t) == beat[t] \in {"stale", "null"}

\* Variant: stale running tasks are retried like failed ones.
RetryDueRunning(t) == sess[t] = "live" /\ status[t] \in {"failed", "running"} /\ OldBeat(t)

RetryDue(t) ==
  /\ sess[t] = "live"
  /\ status[t] = "failed"
  /\ OldBeat(t)

HandleFailedSelect(n) ==
  /\ wpc[n] = "failed"
  /\ batch' = [batch EXCEPT ![n] = {t \in Tasks : RetryDue(t) /\ ~Locked(t)}]
  /\ wpc' = [wpc EXCEPT ![n] = "failedTx"]
  /\ UNCHANGED <<rowVars, envVars, avail, toRun, free, execVars, faults>>

\* Variants: the retry limit is forgotten, or off by one.
RetriedAlways(n)   == batch[n]
RetriedOffByOne(n) == {t \in batch[n] : retries[t] + 1 < MaxRetries}

Retried(n)   == {t \in batch[n] : retries[t] < MaxRetries}
Exhausted(n) == batch[n] \ Retried(n)

HandleFailedCommit(n) ==
  /\ wpc[n] = "failedTx"
  /\ status' = [t \in Tasks |-> IF t \in Retried(n) THEN "pending"
                                ELSE IF t \in Exhausted(n) THEN "fatal_failure"
                                ELSE status[t]]
  /\ retries' = [t \in Tasks |-> IF t \in Retried(n) THEN retries[t] + 1 ELSE retries[t]]
  /\ beat' = [t \in Tasks |-> IF t \in Retried(n) THEN "null" ELSE beat[t]]
  /\ batch' = [batch EXCEPT ![n] = {}]
  /\ wpc' = [wpc EXCEPT ![n] = "pending"]
  /\ UNCHANGED <<owner, envVars, avail, toRun, free, execVars, faults>>

(***************************************************************************)
(* Watchdog: _handle_pending_sessions.  The free slots are counted before  *)
(* the transaction; the rows it claims are submitted after it.             *)
(***************************************************************************)
PoolAvailableSlots(n) ==
  /\ wpc[n] = "pending"
  /\ avail' = [avail EXCEPT ![n] = free[n]]
  /\ wpc' = [wpc EXCEPT ![n] = IF free[n] = 0 THEN "purge" ELSE "select"]
  /\ UNCHANGED <<rowVars, envVars, batch, toRun, free, execVars, faults>>

\* Variant: tasks of dead executors are not looked for.
RunnablePending(t) == sess[t] = "live" /\ status[t] = "pending"

Runnable(t) ==
  /\ sess[t] = "live"
  /\ status[t] = "pending" \/ (status[t] = "running" /\ OldBeat(t))

\* Variant: the query is not limited.
SliceAll(S, k) == {S}

\* [:available_slots] of a query without ORDER BY: any rows, as many as fit.
Slice(S, k) == {B \in SUBSET S : Cardinality(B) = IF Cardinality(S) < k THEN Cardinality(S) ELSE k}

HandlePendingSelect(n) ==
  /\ wpc[n] = "select"
  /\ \E B \in Slice({t \in Tasks : Runnable(t) /\ ~Locked(t)}, avail[n]) :
        batch' = [batch EXCEPT ![n] = B]
  /\ wpc' = [wpc EXCEPT ![n] = "pendingTx"]
  /\ UNCHANGED <<rowVars, envVars, avail, toRun, free, execVars, faults>>

\* The rows of the batch whose desktop tunnels are all connected.
Startable(n) == {t \in batch[n] : linked[t]}

HandlePendingClaim(n) ==
  /\ wpc[n] = "pendingTx"
  /\ status' = [t \in Tasks |-> IF t \in Startable(n) THEN "running" ELSE status[t]]
  /\ beat'   = [t \in Tasks |-> IF t \in Startable(n) THEN "fresh" ELSE beat[t]]
  /\ owner'  = [t \in Tasks |-> IF t \in Startable(n) THEN NoExec ELSE owner[t]]
  /\ toRun' = [toRun EXCEPT ![n] = Startable(n)]
  /\ batch' = [batch EXCEPT ![n] = {}]
  /\ avail' = [avail EXCEPT ![n] = 0]
  /\ wpc' = [wpc EXCEPT ![n] = IF Startable(n) = {} THEN "purge" ELSE "launch"]
  /\ UNCHANGED <<retries, envVars, free, execVars, faults>>

AfterLaunch(n, t) == IF toRun[n] = {t} THEN "purge" ELSE "launch"

\* create_executor(), then _submit_work(): a slot is taken, or the pool is full
\* and the row goes back to pending.
SubmitWork(n) ==
  /\ wpc[n] = "launch"
  /\ \E t \in toRun[n] :
       /\ toRun' = [toRun EXCEPT ![n] = @ \ {t}]
       /\ wpc' = [wpc EXCEPT ![n] = AfterLaunch(n, t)]
       /\ IF free[n] > 0
          THEN \E e \in Execs :
                 /\ Fresh(e)
                 /\ free' = [free EXCEPT ![n] = @ - 1]
                 /\ pc'   = [pc EXCEPT ![e] = "queued"]
                 /\ job'  = [job EXCEPT ![e] = t]
                 /\ home' = [home EXCEPT ![e] = n]
                 /\ UNCHANGED rowVars
          ELSE /\ ~Locked(t)
               /\ status' = [status EXCEPT ![t] = IF Row(t) THEN "pending" ELSE @]
               /\ beat' = [beat EXCEPT ![t] = IF Row(t) THEN "null" ELSE @]
               /\ UNCHANGED <<owner, retries, free, pc, job, home>>
  /\ UNCHANGED <<envVars, batch, avail, verdict, caught, faults>>

\* _purge_deleted_sessions: the sessions past the cutoff go, with their rows.
PurgeDeletedSessions(n) ==
  /\ wpc[n] = "purge"
  /\ \E S \in SUBSET {t \in Tasks : sess[t] = "deleted" /\ ~Locked(t)} :
        sess' = [t \in Tasks |-> IF t \in S THEN "purged" ELSE sess[t]]
  /\ wpc' = [wpc EXCEPT ![n] = "failed"]
  /\ UNCHANGED <<rowVars, linked, batch, avail, toRun, free, execVars, faults>>

(***************************************************************************)
(* WorkerExecutor.run on executor thread e.                                *)
(***************************************************************************)
\* Variant: UPDATE by id alone.
MayClaimAny(e) == Row(job[e])

MayClaim(e) == Row(job[e]) /\ owner[job[e]] = NoExec

\* The session and the row are read, then the row is claimed if it has no owner.
ClaimTask(e) ==
  /\ pc[e] = "queued"
  /\ IF MayClaim(e)
     THEN /\ ~Locked(job[e])
          /\ owner' = [owner EXCEPT ![job[e]] = e]
          /\ pc' = [pc EXCEPT ![e] = "running"]
     ELSE /\ pc' = [pc EXCEPT ![e] = "exit"]
          /\ UNCHANGED owner
  /\ UNCHANGED <<status, beat, retries, envVars, dogVars, free,
                 job, home, verdict, caught, faults>>

\* The heartbeat thread of e, from the claim until run() returns.
Heartbeat(e) ==
  /\ Claimed(e) \/ pc[e] = "exit"
  /\ Row(job[e]) /\ ~Locked(job[e])
  /\ owner[job[e]] = e /\ status[job[e]] = "running"
  /\ beat' = [beat EXCEPT ![job[e]] = "fresh"]
  /\ UNCHANGED <<status, owner, retries, envVars, dogVars, free, execVars, faults>>

\* run_inner() returned a true value; refresh_from_db() raises on a purged session.
RunInnerSucceeds(e) ==
  /\ pc[e] = "running"
  /\ pc' = [pc EXCEPT ![e] = "check"]
  /\ verdict' = [verdict EXCEPT ![e] = IF Row(job[e]) THEN "completed" ELSE "failed"]
  /\ caught' = [caught EXCEPT ![e] = ~Row(job[e])]
  /\ UNCHANGED <<rowVars, envVars, dogVars, free, job, home, faults>>

\* run_inner() returned a false value (err = FALSE) or raised (err = TRUE).
RunInnerFails(e) ==
  /\ pc[e] = "running"
  /\ pc' = [pc EXCEPT ![e] = "check"]
  /\ verdict' = [verdict EXCEPT ![e] = "failed"]
  /\ \E err \in BOOLEAN : caught' = [caught EXCEPT ![e] = err]
  /\ UNCHANGED <<rowVars, envVars, dogVars, free, job, home, faults>>

\* An exception in _update_task: the except clause of run() tries once more to
\* write "failed"; an exception in there ends the thread.
Raises(e) ==
  /\ pc' = [pc EXCEPT ![e] = IF caught[e] THEN "exit" ELSE "check"]
  /\ verdict' = [verdict EXCEPT ![e] = "failed"]
  /\ caught' = [caught EXCEPT ![e] = TRUE]

\* First half of _update_task: read the row and decide whether e may write it.
MayUpdate(e) ==
  /\ Row(job[e])
  /\ owner[job[e]] = e
  /\ status[job[e]] # "fatal_failure"

UpdateTaskRead(e) ==
  /\ pc[e] = "check"
  /\ IF MayUpdate(e)
     THEN /\ pc' = [pc EXCEPT ![e] = "write"]
          /\ UNCHANGED <<verdict, caught>>
     ELSE Raises(e)
  /\ UNCHANGED <<rowVars, envVars, dogVars, free, job, home, faults>>

\* Variant: the second half of _update_task does not repeat the owner check.
UpdateById(e) == Row(job[e])

\* Second half: UPDATE .. WHERE id AND executor_id = e.
UpdateMatches(e) == Row(job[e]) /\ owner[job[e]] = e

UpdateTaskWrite(e) ==
  /\ pc[e] = "write"
  /\ IF UpdateMatches(e)
     THEN /\ ~Locked(job[e])
          /\ status' = [status EXCEPT ![job[e]] = verdict[e]]
     ELSE UNCHANGED status
  /\ pc' = [pc EXCEPT ![e] = "exit"]
  /\ UNCHANGED <<owner, beat, retries, envVars, dogVars, free,
                 job, home, verdict, caught, faults>>

\* Variant: the semaphore is not released after an exception.
ReleasedOnReturn(e) == IF caught[e] THEN free ELSE [free EXCEPT ![home[e]] = @ + 1]

Released(e) == [free EXCEPT ![home[e]] = @ + 1]

\* finally of run() and of _run(): the slot is given back.
ReleaseSlot(e) ==
  /\ pc[e] = "exit"
  /\ free' = Released(e)
  /\ pc' = [pc EXCEPT ![e] = "none"]
  /\ job' = [job EXCEPT ![e] = NoTask]
  /\ home' = [home EXCEPT ![e] = NoNode]
  /\ verdict' = [verdict EXCEPT ![e] = "failed"]
  /\ caught' = [caught EXCEPT ![e] = FALSE]
  /\ UNCHANGED <<rowVars, envVars, dogVars, faults>>

(***************************************************************************)
(* Faults: at most MaxFaults of them.                                      *)
(***************************************************************************)
Fault == faults < MaxFaults /\ faults' = faults + 1

\* A node dies with its threads and comes back; its transaction rolls back.
Crash(n) ==
  /\ Fault
  /\ wpc'   = [wpc EXCEPT ![n] = "failed"]
  /\ batch' = [batch EXCEPT ![n] = {}]
  /\ avail' = [avail EXCEPT ![n] = 0]
  /\ toRun' = [toRun EXCEPT ![n] = {}]
  /\ free'  = [free EXCEPT ![n] = MaxSlots]
  /\ pc'      = [e \in Execs |-> IF home[e] = n THEN "none" ELSE pc[e]]
  /\ job'     = [e \in Execs |-> IF home[e] = n THEN NoTask ELSE job[e]]
  /\ verdict' = [e \in Execs |-> IF home[e] = n THEN "failed" ELSE verdict[e]]
  /\ caught'  = [e \in Execs |-> IF home[e] = n THEN FALSE ELSE caught[e]]
  /\ home'    = [e \in Execs |-> IF home[e] = n THEN NoNode ELSE home[e]]
  /\ UNCHANGED <<rowVars, envVars>>

\* An exception inside a watchdog transaction: rolled back, swallowed, and the
\* step function goes on with its next call.
WatchdogRollback(n) ==
  /\ Fault
  /\ wpc[n] \in {"failedTx", "pendingTx"}
  /\ wpc' = [wpc EXCEPT ![n] = IF @ = "failedTx" THEN "pending" ELSE "purge"]
  /\ batch' = [batch EXCEPT ![n] = {}]
  /\ avail' = [avail EXCEPT ![n] = 0]
  /\ UNCHANGED <<rowVars, envVars, toRun, free, execVars>>

\* create_executor() raises: the submission loop is left, the rows it has not
\* reached stay claimed.
CreateExecutorRaises(n) ==
  /\ Fault
  /\ wpc[n] = "launch"
  /\ toRun' = [toRun EXCEPT ![n] = {}]
  /\ wpc' = [wpc EXCEPT ![n] = "purge"]
  /\ UNCHANGED <<rowVars, envVars, batch, avail, free, execVars>>

\* A database error before the row is claimed ends the thread: what the except
\* clause would write is not for an executor that the row does not name.
ClaimTaskError(e) ==
  /\ Fault
  /\ pc[e] = "queued"
  /\ pc' = [pc EXCEPT ![e] = "exit"]
  /\ UNCHANGED <<rowVars, envVars, dogVars, free, job, home, verdict, caught>>

\* A database error in the read of _update_task raises; one in its UPDATE is
\* logged and swallowed.
UpdateTaskReadError(e) ==
  /\ Fault
  /\ pc[e] = "check"
  /\ Raises(e)
  /\ UNCHANGED <<rowVars, envVars, dogVars, free, job, home>>

UpdateTaskWriteError(e) ==
  /\ Fault
  /\ pc[e] = "write"
  /\ pc' = [pc EXCEPT ![e] = "exit"]
  /\ UNCHANGED <<rowVars, envVars, dogVars, free, job, home, verdict, caught>>

(***************************************************************************)
(* Time, users and desktops.                                               *)
(***************************************************************************)
\* alive_beat becomes older than the threshold.  With Timely, the heartbeat of
\* a live executor, or the watchdog that has the task in hand, gets there first.
AgeBeat(t) ==
  /\ beat[t] = "fresh"
  /\ Timely => ~Held(t)
  /\ beat' = [beat EXCEPT ![t] = "stale"]
  /\ UNCHANGED <<status, owner, retries, envVars, dogVars, free, execVars, faults>>

\* What _on_session_pre_save lets through on is_deleted.  The watchdog's SELECT
\* joins the session, so its lock covers that row too.
DeleteSession(t) ==
  /\ t \in Deletable /\ sess[t] = "live" /\ ~Locked(t)
  /\ sess' = [sess EXCEPT ![t] = "deleted"]
  /\ UNCHANGED <<rowVars, linked, dogVars, free, execVars, faults>>

RestoreSession(t) ==
  /\ sess[t] = "deleted" /\ ~Locked(t)
  /\ sess' = [sess EXCEPT ![t] = "live"]
  /\ UNCHANGED <<rowVars, linked, dogVars, free, execVars, faults>>

TunnelChange(t) ==
  /\ t \in Tunnelled
  /\ linked' = [linked EXCEPT ![t] = ~@]
  /\ UNCHANGED <<rowVars, sess, dogVars, free, execVars, faults>>

(***************************************************************************)
(* The system.                                                             *)
(***************************************************************************)
Watchdog(n) ==
  \/ HandleFailedSelect(n)
  \/ HandleFailedCommit(n)
  \/ PoolAvailableSlots(n)
  \/ HandlePendingSelect(n)
  \/ HandlePendingClaim(n)
  \/ SubmitWork(n)
  \/ PurgeDeletedSessions(n)

Executor(e) ==
  \/ ClaimTask(e)
  \/ RunInnerSucceeds(e)
  \/ RunInnerFails(e)
  \/ UpdateTaskRead(e)
  \/ UpdateTaskWrite(e)
  \/ ReleaseSlot(e)

NodeFault(n) == Crash(n) \/ WatchdogRollback(n) \/ CreateExecutorRaises(n)
ExecFault(e) == ClaimTaskError(e) \/ UpdateTaskReadError(e) \/ UpdateTaskWriteError(e)
Environment(t) ==
  AgeBeat(t) \/ DeleteSession(t) \/ RestoreSession(t) \/ TunnelChange(t)

Next ==
  \/ \E n \in Nodes : Watchdog(n) \/ NodeFault(n)
  \/ \E e \in Execs : Executor(e) \/ Heartbeat(e) \/ ExecFault(e)
  \/ \E t \in Tasks : Environment(t)

Spec == Init /\ [][Next]_vars

\* The watchdog loop and the executor threads keep running and time passes;
\* users, desktops and faults owe nothing.
Fairness ==
  /\ \A n \in Nodes : WF_vars(Watchdog(n))
  /\ \A e \in Execs : WF_vars(Executor(e))
  /\ \A t \in Tasks : WF_vars(AgeBeat(t))

FairSpec == Spec /\ Fairness

(***************************************************************************)
(* Properties.                                                             *)
(***************************************************************************)
\* Type invariant of the rows, the watchdogs, the pools and the executors.
TypeOK ==
  /\ status \in [Tasks -> Statuses]
  /\ owner \in [Tasks -> Execs \cup {NoExec}]
  /\ beat \in [Tasks -> Beats]
  /\ retries \in [Tasks -> 0..MaxRetries]
  /\ sess \in [Tasks -> Sessions]
  /\ linked \in [Tasks -> BOOLEAN]
  /\ wpc \in [Nodes -> WatchPcs]
  /\ batch \in [Nodes -> SUBSET Tasks]
  /\ avail \in [Nodes -> 0..MaxSlots]
  /\ toRun \in [Nodes -> SUBSET Tasks]
  /\ free \in [Nodes -> 0..MaxSlots]
  /\ pc \in [Execs -> ExecPcs]
  /\ job \in [Execs -> Tasks \cup {NoTask}]
  /\ home \in [Execs -> Nodes \cup {NoNode}]
  /\ verdict \in [Execs -> {"completed", "failed"}]
  /\ caught \in [Execs -> BOOLEAN]
  /\ faults \in 0..MaxFaults

\* A watchdog never has more claimed tasks in hand than its pool has free slots,
\* so a claimed task is never bounced back to pending (_pool_available_slots,
\* read before the claim, against executors that finish meanwhile).
NeverRejected ==
  \A n \in Nodes : Cardinality(toRun[n]) <= free[n]

\* Every slot of a pool is free or held by one executor thread of that node,
\* whatever way executors end: no slot leaks and none is released twice.
SlotConservation ==
  \A n \in Nodes : free[n] + Cardinality({e \in Execs : home[e] = n}) = MaxSlots

\* The columns of a row agree with each other, whichever mix of watchdogs and
\* executors wrote them: only a pending row lacks a heartbeat, only a pending or
\* running one lacks an owner, and a task is given up only when it has used all
\* its retries.
RowConsistent ==
  \A t \in Tasks :
    /\ beat[t] = "null" => status[t] = "pending"
    /\ owner[t] = NoExec => status[t] \in {"pending", "running"}
    /\ status[t] = "fatal_failure" => retries[t] = MaxRetries

\* An executor that may still write its row, because the row names it, finds it
\* running: a failed task is not retried, and a finished one not restarted,
\* under the feet of its owner (claim in run(), fencing in _update_task).
OwnerSeesRunning ==
  \A e \in Execs :
    Claimed(e) /\ Row(job[e]) /\ owner[job[e]] = e => status[job[e]] = "running"

\* While no live thread stalls, a task is in the hands of at most one watchdog
\* or executor in the whole cluster, so run_inner never runs twice at a time.
ExclusiveExecution ==
  Timely =>
    \A t \in Tasks :
      /\ \A e, f \in Execs :
           Active(e) /\ Active(f) /\ job[e] = t /\ job[f] = t => e = f
      /\ \A n, m \in Nodes : t \in toRun[n] /\ t \in toRun[m] => n = m
      /\ \A e \in Execs, n \in Nodes : ~(Active(e) /\ job[e] = t /\ t \in toRun[n])

\* Executors whose claim was taken away never touch the row again: a task that
\* ends is ended by the executor the row names, at its final UPDATE, and it was
\* running until then.
EndedByOwner ==
  [][\A t \in Tasks :
       status'[t] \in {"completed", "failed"} /\ status'[t] # status[t] =>
         /\ status[t] = "running"
         /\ owner[t] \in Execs
         /\ pc[owner[t]] = "write" /\ pc'[owner[t]] = "exit"]_vars

\* The lifecycle of MANUAL.md 7.3 with exclusive ownership, row by row.
Lifecycle == INSTANCE TaskLifecycle
ImplementsLifecycle == Lifecycle!Spec

\* A task whose session stays live and whose desktops stay connected is finished
\* in the end, successfully or for good (crashed executors are noticed, failed
\* ones retried, slots come back).
Decided(t) == status[t] \in {"completed", "fatal_failure"}
EventuallyDecided ==
  \A t \in Tasks : <>[](sess[t] = "live" /\ linked[t]) => <>[]Decided(t)

\* The watchdog picks up every pending task of a live session that needs no
\* desktop ("continuously monitor for orphaned or dead session tasks and restart
\* them", _watchdog).
PendingPickedUp ==
  \A t \in Tasks \ Tunnelled :
    (status[t] = "pending" /\ sess[t] = "live") ~> (status[t] # "pending" \/ sess[t] # "live")

\* Executor threads give their slot back: a pool does not stay exhausted.
SlotsComeBack ==
  \A n \in Nodes : []<>(free[n] > 0)
=============================================================================
