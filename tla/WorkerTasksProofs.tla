------------------------- MODULE WorkerTasksProofs -------------------------
(***************************************************************************)
(* Invariants of WorkerTasks, and its refinement of TaskLifecycle, for     *)
(* every set of tasks, nodes and executors and every pool size.            *)
(***************************************************************************)
EXTENDS WorkerTasks, FiniteSetTheorems, TLAPS

(***************************************************************************)
(* Types.  The upper bound of free needs SlotConservation and is left to   *)
(* the end; the rest of TypeOK is inductive with the places of executors.  *)
(***************************************************************************)
Types ==
  /\ status \in [Tasks -> Statuses]
  /\ owner \in [Tasks -> Execs \cup {NoExec}]
  /\ beat \in [Tasks -> Beats]
  /\ retries \in [Tasks -> 0..MaxRetries]
  /\ sess \in [Tasks -> Sessions]
  /\ linked \in [Tasks -> BOOLEAN]
  /\ wpc \in [Nodes -> WatchPcs]
  /\ batch \in [Nodes -> SUBSET Tasks]
  /\ avail \in [Nodes -> Int]
  /\ toRun \in [Nodes -> SUBSET Tasks]
  /\ free \in [Nodes -> Int]
  /\ pc \in [Execs -> ExecPcs]
  /\ job \in [Execs -> Tasks \cup {NoTask}]
  /\ home \in [Execs -> Nodes \cup {NoNode}]
  /\ verdict \in [Execs -> {"completed", "failed"}]
  /\ caught \in [Execs -> BOOLEAN]
  /\ faults \in 0..MaxFaults

\* A running thread has a task and a node, an ended one neither.
ExecPlaced ==
  \A e \in Execs : IF pc[e] = "none" THEN home[e] = NoNode
                   ELSE home[e] \in Nodes /\ job[e] \in Tasks

TypeInv == Types /\ ExecPlaced

LEMMA TypeInvInit == Init => TypeInv
BY ConstantsAssumption
   DEF Init, TypeInv, Types, ExecPlaced, Statuses, Beats, Sessions, WatchPcs, ExecPcs

LEMMA TypeInvStep == TypeInv /\ [Next]_vars => TypeInv'
<1> SUFFICES ASSUME TypeInv, [Next]_vars PROVE TypeInv'
  OBVIOUS
<1> USE ConstantsAssumption
    DEF TypeInv, Types, ExecPlaced, Statuses, Beats, Sessions, WatchPcs, ExecPcs,
        rowVars, envVars, dogVars, execVars
<1>1. ASSUME NEW n \in Nodes, Watchdog(n) PROVE TypeInv'
  <2>1. CASE HandleFailedSelect(n)
    BY <2>1 DEF HandleFailedSelect
  <2>2. CASE HandleFailedCommit(n)
    BY <2>2 DEF HandleFailedCommit, Retried, Exhausted
  <2>3. CASE PoolAvailableSlots(n)
    BY <2>3 DEF PoolAvailableSlots
  <2>4. CASE HandlePendingSelect(n)
    BY <2>4 DEF HandlePendingSelect, Slice
  <2>5. CASE HandlePendingClaim(n)
    BY <2>5 DEF HandlePendingClaim, Startable
  <2>6. CASE SubmitWork(n)
    <3>1. wpc' \in [Nodes -> WatchPcs] /\ toRun' \in [Nodes -> SUBSET Tasks]
      BY <2>6 DEF SubmitWork, AfterLaunch
    <3>2. CASE free[n] > 0
      <4>1. PICK t \in toRun[n], e \in Execs :
              /\ free' = [free EXCEPT ![n] = @ - 1]
              /\ pc'   = [pc EXCEPT ![e] = "queued"]
              /\ job'  = [job EXCEPT ![e] = t]
              /\ home' = [home EXCEPT ![e] = n]
        BY <2>6, <3>2, Zenon DEF SubmitWork
      <4>2. UNCHANGED <<rowVars, envVars, batch, avail, verdict, caught, faults>>
        BY <2>6, <3>2, Zenon DEF SubmitWork
      <4>3. t \in Tasks
        BY <4>1
      <4>4. ExecPlaced'
        BY <4>1, <4>3
      <4> QED BY <3>1, <4>1, <4>2, <4>3, <4>4
    <3>3. CASE ~(free[n] > 0)
      BY <2>6, <3>1, <3>3, SMTT(30) DEF SubmitWork
    <3> QED BY <3>2, <3>3
  <2>7. CASE PurgeDeletedSessions(n)
    BY <2>7 DEF PurgeDeletedSessions
  <2> QED BY <1>1, <2>1, <2>2, <2>3, <2>4, <2>5, <2>6, <2>7 DEF Watchdog
<1>2. ASSUME NEW n \in Nodes, NodeFault(n) PROVE TypeInv'
  <2>1. CASE Crash(n)
    <3>1. ExecPlaced'
      BY <2>1 DEF Crash
    <3>2. faults' \in 0..MaxFaults
      BY <2>1 DEF Crash, Fault
    <3>3. /\ pc' \in [Execs -> ExecPcs]
          /\ job' \in [Execs -> Tasks \cup {NoTask}]
          /\ home' \in [Execs -> Nodes \cup {NoNode}]
      BY <2>1 DEF Crash
    <3>4. /\ verdict' \in [Execs -> {"completed", "failed"}]
          /\ caught' \in [Execs -> BOOLEAN]
      BY <2>1, Zenon DEF Crash
    <3>5. /\ wpc' \in [Nodes -> WatchPcs]
          /\ batch' \in [Nodes -> SUBSET Tasks] /\ toRun' \in [Nodes -> SUBSET Tasks]
          /\ avail' \in [Nodes -> Int] /\ free' \in [Nodes -> Int]
      BY <2>1 DEF Crash
    <3>6. UNCHANGED <<rowVars, envVars>>
      BY <2>1 DEF Crash
    <3> QED BY <3>1, <3>2, <3>3, <3>4, <3>5, <3>6
  <2>2. CASE WatchdogRollback(n)
    BY <2>2 DEF WatchdogRollback, Fault
  <2>3. CASE CreateExecutorRaises(n)
    BY <2>3 DEF CreateExecutorRaises, Fault
  <2> QED BY <1>2, <2>1, <2>2, <2>3 DEF NodeFault
<1>3. ASSUME NEW e \in Execs, Executor(e) \/ Heartbeat(e) PROVE TypeInv'
  <2>1. CASE ClaimTask(e)
    <3>1. owner' \in [Tasks -> Execs \cup {NoExec}]
      BY <2>1 DEF ClaimTask, MayClaim
    <3>2. pc' \in [Execs -> ExecPcs] /\ ExecPlaced'
      BY <2>1 DEF ClaimTask, MayClaim
    <3> QED BY <2>1, <3>1, <3>2 DEF ClaimTask, MayClaim
  <2>2. CASE RunInnerSucceeds(e)
    BY <2>2 DEF RunInnerSucceeds
  <2>3. CASE RunInnerFails(e)
    BY <2>3 DEF RunInnerFails
  <2>4. CASE UpdateTaskRead(e)
    <3>1. CASE MayUpdate(e)
      BY <2>4, <3>1 DEF UpdateTaskRead
    <3>2. CASE ~MayUpdate(e)
      <4>1. verdict' \in [Execs -> {"completed", "failed"}] /\ caught' \in [Execs -> BOOLEAN]
        BY <2>4, <3>2, ZenonT(30) DEF UpdateTaskRead, Raises
      <4>2. pc' \in [Execs -> ExecPcs] /\ ExecPlaced'
        BY <2>4, <3>2 DEF UpdateTaskRead, Raises
      <4> QED BY <2>4, <4>1, <4>2 DEF UpdateTaskRead
    <3> QED BY <3>1, <3>2
  <2>5. CASE UpdateTaskWrite(e)
    BY <2>5 DEF UpdateTaskWrite
  <2>6. CASE ReleaseSlot(e)
    BY <2>6 DEF ReleaseSlot, Released
  <2>7. CASE Heartbeat(e)
    BY <2>7 DEF Heartbeat
  <2> QED BY <1>3, <2>1, <2>2, <2>3, <2>4, <2>5, <2>6, <2>7 DEF Executor
<1>4. ASSUME NEW e \in Execs, ExecFault(e) PROVE TypeInv'
  <2>1. CASE UpdateTaskReadError(e)
    BY <2>1 DEF UpdateTaskReadError, Fault, Raises
  <2>2. CASE UpdateTaskWriteError(e)
    BY <2>2 DEF UpdateTaskWriteError, Fault
  <2>3. CASE ClaimTaskError(e)
    BY <2>3 DEF ClaimTaskError, Fault
  <2> QED BY <1>4, <2>1, <2>2, <2>3 DEF ExecFault
<1>5. ASSUME NEW t \in Tasks, Environment(t) PROVE TypeInv'
  <2>1. CASE AgeBeat(t)
    BY <2>1 DEF AgeBeat
  <2>2. CASE DeleteSession(t) \/ RestoreSession(t)
    BY <2>2 DEF DeleteSession, RestoreSession
  <2>3. CASE TunnelChange(t)
    BY <2>3 DEF TunnelChange
  <2> QED BY <1>5, <2>1, <2>2, <2>3 DEF Environment
<1>6. CASE UNCHANGED vars
  BY <1>6 DEF vars
<1> QED BY <1>1, <1>2, <1>3, <1>4, <1>5, <1>6 DEF Next

(***************************************************************************)
(* Which steps leave what alone: the frames the later proofs start from.   *)
(***************************************************************************)
\* Executors, faults of executors and the environment do not touch a watchdog;
\* watchdogs do not touch an executor except to start one.
LEMMA WatchdogFrame ==
  ASSUME [Next]_vars
  PROVE  \/ UNCHANGED dogVars
         \/ \E n \in Nodes : Watchdog(n) \/ NodeFault(n)
<1>1. ASSUME NEW e \in Execs, Executor(e) \/ Heartbeat(e) \/ ExecFault(e)
      PROVE UNCHANGED dogVars
  BY <1>1 DEF Executor, ExecFault, ClaimTask, MayClaim, RunInnerSucceeds, RunInnerFails, UpdateTaskRead,
              UpdateTaskWrite, ReleaseSlot, Released, Heartbeat, ClaimTaskError, UpdateTaskReadError, UpdateTaskWriteError
<1>2. ASSUME NEW t \in Tasks, Environment(t) PROVE UNCHANGED dogVars
  BY <1>2 DEF Environment, AgeBeat, DeleteSession, RestoreSession, TunnelChange
<1>3. CASE UNCHANGED vars
  BY <1>3 DEF vars
<1> QED BY <1>1, <1>2, <1>3 DEF Next

\* A slot changes hands, or a thread its node, only in SubmitWork, ReleaseSlot and Crash.
LEMMA PoolFrame ==
  ASSUME [Next]_vars
  PROVE  \/ UNCHANGED <<free, home>>
         \/ \E n \in Nodes : SubmitWork(n) \/ Crash(n)
         \/ \E e \in Execs : ReleaseSlot(e)
<1> USE DEF execVars
<1>1. ASSUME NEW n \in Nodes, Watchdog(n), ~SubmitWork(n) PROVE UNCHANGED <<free, home>>
  BY <1>1 DEF Watchdog, HandleFailedSelect, HandleFailedCommit, PoolAvailableSlots,
              HandlePendingSelect, HandlePendingClaim, PurgeDeletedSessions
<1>2. ASSUME NEW n \in Nodes, NodeFault(n), ~Crash(n) PROVE UNCHANGED <<free, home>>
  BY <1>2 DEF NodeFault, WatchdogRollback, CreateExecutorRaises
<1>3. ASSUME NEW e \in Execs, Executor(e) \/ Heartbeat(e) \/ ExecFault(e), ~ReleaseSlot(e)
      PROVE UNCHANGED <<free, home>>
  BY <1>3 DEF Executor, ExecFault, ClaimTask, MayClaim, RunInnerSucceeds, RunInnerFails, UpdateTaskRead,
              UpdateTaskWrite, Heartbeat, ClaimTaskError, UpdateTaskReadError, UpdateTaskWriteError
<1>4. ASSUME NEW t \in Tasks, Environment(t) PROVE UNCHANGED <<free, home>>
  BY <1>4 DEF Environment, AgeBeat, DeleteSession, RestoreSession, TunnelChange
<1>5. CASE UNCHANGED vars
  BY <1>5 DEF vars
<1> QED BY <1>1, <1>2, <1>3, <1>4, <1>5 DEF Next

(***************************************************************************)
(* The watchdog thread: locks, counts and claims live in their own steps.  *)
(***************************************************************************)
WatchdogSteps ==
  \A n \in Nodes :
    /\ wpc[n] \notin {"failedTx", "pendingTx"} => batch[n] = {}
    /\ wpc[n] # "launch" => toRun[n] = {}
    /\ wpc[n] \notin {"select", "pendingTx"} => avail[n] = 0

LEMMA WatchdogStepsInit == Init => WatchdogSteps
BY DEF Init, WatchdogSteps

LEMMA WatchdogStepsStep == TypeInv /\ WatchdogSteps /\ [Next]_vars => WatchdogSteps'
<1> SUFFICES ASSUME TypeInv, WatchdogSteps, [Next]_vars PROVE WatchdogSteps'
  OBVIOUS
<1> USE DEF TypeInv, Types, WatchdogSteps, WatchPcs
<1>1. ASSUME NEW n \in Nodes, Watchdog(n) PROVE WatchdogSteps'
  <2>1. CASE HandleFailedSelect(n)
    BY <2>1 DEF HandleFailedSelect
  <2>2. CASE HandleFailedCommit(n)
    BY <2>2 DEF HandleFailedCommit
  <2>3. CASE PoolAvailableSlots(n)
    BY <2>3, ConstantsAssumption DEF PoolAvailableSlots
  <2>4. CASE HandlePendingSelect(n)
    BY <2>4 DEF HandlePendingSelect
  <2>5. CASE HandlePendingClaim(n)
    BY <2>5 DEF HandlePendingClaim
  <2>6. CASE SubmitWork(n)
    <3>1. PICK t \in toRun[n] : /\ toRun' = [toRun EXCEPT ![n] = @ \ {t}]
                                /\ wpc' = [wpc EXCEPT ![n] = AfterLaunch(n, t)]
      BY <2>6, Zenon DEF SubmitWork
    <3>2. wpc[n] = "launch" /\ UNCHANGED <<batch, avail>>
      BY <2>6 DEF SubmitWork
    <3> QED BY <3>1, <3>2 DEF AfterLaunch
  <2>7. CASE PurgeDeletedSessions(n)
    BY <2>7 DEF PurgeDeletedSessions
  <2> QED BY <1>1, <2>1, <2>2, <2>3, <2>4, <2>5, <2>6, <2>7 DEF Watchdog
<1>2. ASSUME NEW n \in Nodes, NodeFault(n) PROVE WatchdogSteps'
  BY <1>2, ZenonT(30) DEF NodeFault, Crash, WatchdogRollback, CreateExecutorRaises
<1>3. CASE UNCHANGED dogVars
  BY <1>3 DEF dogVars
<1> QED BY <1>1, <1>2, <1>3, WatchdogFrame

(***************************************************************************)
(* The pool: slots are conserved, and claims never outrun free slots.      *)
(***************************************************************************)
Threads(n) == {e \in Execs : home[e] = n}

PoolInv ==
  \A n \in Nodes :
    /\ free[n] + Cardinality(Threads(n)) = MaxSlots
    /\ 0 <= avail[n] /\ avail[n] <= free[n]
    /\ wpc[n] = "pendingTx" => Cardinality(batch[n]) <= avail[n]
    /\ Cardinality(toRun[n]) <= free[n]

\* Subsets of Tasks and of Execs have a cardinality.
LEMMA Finite ==
  /\ \A S \in SUBSET Tasks : IsFiniteSet(S) /\ Cardinality(S) \in Nat
  /\ \A S \in SUBSET Execs : IsFiniteSet(S) /\ Cardinality(S) \in Nat
BY ConstantsAssumption, FS_Subset, FS_CardinalityType

\* Taking an element away makes a finite set smaller by one.
LEMMA CardinalityLess ==
  ASSUME NEW S, IsFiniteSet(S), NEW x \in S
  PROVE  Cardinality(S \ {x}) = Cardinality(S) - 1 /\ Cardinality(S) \in Nat \ {0}
BY FS_RemoveElement, FS_CardinalityType, FS_EmptySet

LEMMA PoolInvInit == Init => PoolInv
<1> SUFFICES ASSUME Init, NEW n \in Nodes
             PROVE  /\ free[n] + Cardinality(Threads(n)) = MaxSlots
                    /\ 0 <= avail[n] /\ avail[n] <= free[n]
                    /\ wpc[n] = "pendingTx" => Cardinality(batch[n]) <= avail[n]
                    /\ Cardinality(toRun[n]) <= free[n]
  BY DEF PoolInv
<1>1. Threads(n) = {}
  BY ConstantsAssumption DEF Init, Threads
<1> QED BY <1>1, FS_EmptySet, ConstantsAssumption DEF Init

\* The branch of _submit_work that finds the pool full is never taken.
LEMMA NoRejection ==
  ASSUME TypeInv, PoolInv, NEW n \in Nodes, SubmitWork(n)
  PROVE  /\ UNCHANGED <<rowVars, envVars, batch, avail>>
         /\ \E t \in toRun[n], e \in Execs :
              /\ Fresh(e)
              /\ toRun' = [toRun EXCEPT ![n] = @ \ {t}]
              /\ wpc' = [wpc EXCEPT ![n] = AfterLaunch(n, t)]
              /\ free' = [free EXCEPT ![n] = @ - 1]
              /\ pc'   = [pc EXCEPT ![e] = "queued"]
              /\ job'  = [job EXCEPT ![e] = t]
              /\ home' = [home EXCEPT ![e] = n]
<1>1. toRun[n] # {}
  BY DEF SubmitWork
<1>2. IsFiniteSet(toRun[n]) /\ toRun[n] \in SUBSET Tasks
  BY Finite DEF TypeInv, Types
<1>3. free[n] > 0
  <2>1. PICK t : t \in toRun[n]
    BY <1>1
  <2>2. Cardinality(toRun[n]) \in Nat \ {0}
    BY <2>1, <1>2, CardinalityLess
  <2>3. Cardinality(toRun[n]) <= free[n] /\ free[n] \in Int
    BY DEF PoolInv, TypeInv, Types
  <2> QED BY <2>2, <2>3
<1>4. UNCHANGED <<rowVars, envVars, batch, avail>>
  BY <1>3, Zenon DEF SubmitWork
<1>5. \E t \in toRun[n], e \in Execs :
              /\ Fresh(e)
              /\ toRun' = [toRun EXCEPT ![n] = @ \ {t}]
              /\ wpc' = [wpc EXCEPT ![n] = AfterLaunch(n, t)]
              /\ free' = [free EXCEPT ![n] = @ - 1]
              /\ pc'   = [pc EXCEPT ![e] = "queued"]
              /\ job'  = [job EXCEPT ![e] = t]
              /\ home' = [home EXCEPT ![e] = n]
  BY <1>3, Zenon DEF SubmitWork
<1> QED BY <1>4, <1>5

LEMMA PoolInvStep == TypeInv /\ WatchdogSteps /\ PoolInv /\ [Next]_vars => PoolInv'
<1> SUFFICES ASSUME TypeInv, WatchdogSteps, PoolInv, [Next]_vars PROVE PoolInv'
  OBVIOUS
<1> DEFINE Good(m) == /\ free[m] + Cardinality(Threads(m)) = MaxSlots
                      /\ 0 <= avail[m] /\ avail[m] <= free[m]
                      /\ wpc[m] = "pendingTx" => Cardinality(batch[m]) <= avail[m]
                      /\ Cardinality(toRun[m]) <= free[m]
<1>t. /\ \A m \in Nodes : free[m] \in Int /\ avail[m] \in Int
      /\ \A m \in Nodes : IsFiniteSet(batch[m]) /\ Cardinality(batch[m]) \in Nat
      /\ \A m \in Nodes : IsFiniteSet(toRun[m]) /\ Cardinality(toRun[m]) \in Nat
      /\ \A m \in Nodes : IsFiniteSet(Threads(m)) /\ Cardinality(Threads(m)) \in Nat
      /\ MaxSlots \in Nat \ {0}
  BY Finite, ConstantsAssumption DEF TypeInv, Types, Threads
<1>e. IsFiniteSet({}) /\ Cardinality({}) = 0
  BY FS_EmptySet
<1>f. \A m \in Nodes : free[m] >= 0
  BY <1>t DEF PoolInv
<1>1. ASSUME NEW n \in Nodes, SubmitWork(n), NEW m \in Nodes PROVE Good(m)'
  <2>1. PICK t \in toRun[n], e \in Execs :
              /\ Fresh(e)
              /\ toRun' = [toRun EXCEPT ![n] = @ \ {t}]
              /\ wpc' = [wpc EXCEPT ![n] = AfterLaunch(n, t)]
              /\ free' = [free EXCEPT ![n] = @ - 1]
              /\ home' = [home EXCEPT ![e] = n]
    BY <1>1, NoRejection
  <2>2. UNCHANGED <<batch, avail>> /\ wpc[n] = "launch"
    BY <1>1, NoRejection DEF SubmitWork
  <2>3. home[e] = NoNode
    BY <2>1 DEF Fresh, TypeInv, ExecPlaced
  <2>4. CASE m = n
    <3>1. Threads(n)' = Threads(n) \cup {e} /\ e \notin Threads(n)
      BY <2>1, <2>3, ConstantsAssumption DEF Threads, TypeInv, Types
    <3>2. Cardinality(Threads(n)') = Cardinality(Threads(n)) + 1
      BY <3>1, <1>t, FS_AddElement
    <3>3. /\ Cardinality(toRun[n] \ {t}) = Cardinality(toRun[n]) - 1
          /\ Cardinality(toRun[n]) \in Nat \ {0}
      BY <1>t, CardinalityLess
    <3>4. /\ free'[n] = free[n] - 1 /\ toRun'[n] = toRun[n] \ {t}
          /\ wpc'[n] # "pendingTx" /\ avail'[n] = 0
      BY <2>1, <2>2 DEF TypeInv, Types, WatchdogSteps, AfterLaunch
    <3>5. /\ free[n] + Cardinality(Threads(n)) = MaxSlots
          /\ Cardinality(toRun[n]) <= free[n]
      BY DEF PoolInv
    <3> QED BY <1>t, <2>4, <3>2, <3>3, <3>4, <3>5
  <2>5. CASE m # n
    <3>1. Threads(m)' = Threads(m)
      BY <2>1, <2>3, <2>5, ConstantsAssumption DEF Threads, TypeInv, Types
    <3>2. UNCHANGED <<free[m], avail[m], wpc[m], batch[m], toRun[m]>>
      BY <2>1, <2>2, <2>5 DEF TypeInv, Types
    <3> QED BY <3>1, <3>2 DEF PoolInv
  <2> QED BY <2>4, <2>5
<1>2. ASSUME NEW n \in Nodes, Crash(n), NEW m \in Nodes PROVE Good(m)'
  <2>1. CASE m = n
    <3>1. Threads(n)' = {}
      BY <1>2, ConstantsAssumption DEF Crash, Threads, TypeInv, Types
    <3>2. /\ free'[n] = MaxSlots /\ avail'[n] = 0 /\ toRun'[n] = {}
          /\ wpc'[n] # "pendingTx"
      BY <1>2 DEF Crash, TypeInv, Types
    <3> QED BY <2>1, <3>1, <3>2, <1>e, <1>t
  <2>2. CASE m # n
    <3>1. Threads(m)' = Threads(m)
      BY <1>2, <2>2, ConstantsAssumption DEF Crash, Threads, TypeInv, Types
    <3>2. UNCHANGED <<free[m], avail[m], wpc[m], batch[m], toRun[m]>>
      BY <1>2, <2>2 DEF Crash, TypeInv, Types
    <3> QED BY <3>1, <3>2 DEF PoolInv
  <2> QED BY <2>1, <2>2
<1>3. ASSUME NEW e \in Execs, ReleaseSlot(e), NEW m \in Nodes PROVE Good(m)'
  <2>1. UNCHANGED dogVars
    BY <1>3 DEF ReleaseSlot, Released
  <2>2. CASE m = home[e]
    <3>1. Threads(m)' = Threads(m) \ {e} /\ e \in Threads(m)
      BY <1>3, <2>2, ConstantsAssumption DEF ReleaseSlot, Released, Threads, TypeInv, Types
    <3>2. Cardinality(Threads(m)') = Cardinality(Threads(m)) - 1
      BY <3>1, <1>t, CardinalityLess
    <3>3. free'[m] = free[m] + 1
      BY <1>3, <2>2 DEF ReleaseSlot, Released, TypeInv, Types
    <3> QED BY <1>t, <2>1, <3>2, <3>3 DEF PoolInv, dogVars
  <2>3. CASE m # home[e]
    <3>1. Threads(m)' = Threads(m)
      BY <1>3, <2>3, ConstantsAssumption DEF ReleaseSlot, Released, Threads, TypeInv, Types
    <3>2. free'[m] = free[m]
      BY <1>3, <2>3 DEF ReleaseSlot, Released, TypeInv, Types
    <3> QED BY <2>1, <3>1, <3>2 DEF PoolInv, dogVars
  <2> QED BY <2>2, <2>3
<1>4. ASSUME UNCHANGED <<free, home>>, NEW m \in Nodes PROVE Good(m)'
  <2>1. UNCHANGED <<free[m], Threads(m)>>
    BY <1>4 DEF Threads
  <2>2. CASE UNCHANGED dogVars
    BY <2>1, <2>2 DEF dogVars, PoolInv
  <2>3. ASSUME NEW n \in Nodes, Watchdog(n), ~SubmitWork(n) PROVE Good(m)'
    <3>1. CASE HandlePendingSelect(n)
      <4>1. PICK B \in Slice({t \in Tasks : Runnable(t) /\ ~Locked(t)}, avail[n]) :
               batch' = [batch EXCEPT ![n] = B]
        BY <3>1 DEF HandlePendingSelect
      <4>2. Cardinality(B) <= avail[n]
        BY <4>1, <1>t, Finite DEF Slice
      <4>3. UNCHANGED <<avail, toRun>> /\ wpc' = [wpc EXCEPT ![n] = "pendingTx"]
        BY <3>1 DEF HandlePendingSelect
      <4> QED BY <2>1, <4>1, <4>2, <4>3 DEF PoolInv, TypeInv, Types
    <3>2. CASE HandlePendingClaim(n)
      <4>1. Startable(n) \in SUBSET batch[n]
        BY DEF Startable
      <4>2. Cardinality(Startable(n)) <= Cardinality(batch[n]) /\ Cardinality(Startable(n)) \in Nat
        BY <4>1, <1>t, FS_Subset, FS_CardinalityType
      <4>3. /\ toRun' = [toRun EXCEPT ![n] = Startable(n)]
            /\ avail' = [avail EXCEPT ![n] = 0] /\ batch' = [batch EXCEPT ![n] = {}]
            /\ wpc[n] = "pendingTx" /\ wpc'[n] # "pendingTx"
            /\ m # n => wpc'[m] = wpc[m]
        BY <3>2 DEF HandlePendingClaim, TypeInv, Types
      <4>4. CASE m = n
        <5>1. toRun'[n] = Startable(n) /\ avail'[n] = 0
          BY <4>3 DEF TypeInv, Types
        <5>2. Cardinality(batch[n]) <= avail[n] /\ 0 <= avail[n] /\ avail[n] <= free[n]
          BY <4>3 DEF PoolInv
        <5>3. free[n] + Cardinality(Threads(n)) = MaxSlots
          BY DEF PoolInv
        <5> QED BY <1>t, <1>f, <2>1, <4>2, <4>3, <4>4, <5>1, <5>2, <5>3
      <4>5. CASE m # n
        BY <2>1, <4>3, <4>5 DEF PoolInv, TypeInv, Types
      <4> QED BY <4>4, <4>5
    <3>3. CASE PoolAvailableSlots(n)
      BY <2>1, <3>3, <1>t DEF PoolAvailableSlots, PoolInv, TypeInv, Types
    <3>4. CASE HandleFailedSelect(n) \/ HandleFailedCommit(n) \/ PurgeDeletedSessions(n)
      BY <2>1, <3>4 DEF HandleFailedSelect, HandleFailedCommit, PurgeDeletedSessions,
                        PoolInv, TypeInv, Types
    <3> QED BY <2>3, <3>1, <3>2, <3>3, <3>4 DEF Watchdog
  <2>4. ASSUME NEW n \in Nodes, WatchdogRollback(n) \/ CreateExecutorRaises(n)
        PROVE  Good(m)'
    <3>1. CASE m = n
      <4>1. avail'[n] = 0 \/ avail'[n] = avail[n]
        BY <2>4 DEF WatchdogRollback, CreateExecutorRaises, TypeInv, Types
      <4>2. wpc'[n] # "pendingTx" /\ (toRun'[n] = {} \/ toRun'[n] = toRun[n])
        BY <2>4 DEF WatchdogRollback, CreateExecutorRaises, TypeInv, Types
      <4>3. /\ free[n] + Cardinality(Threads(n)) = MaxSlots
            /\ 0 <= avail[n] /\ avail[n] <= free[n] /\ Cardinality(toRun[n]) <= free[n]
        BY DEF PoolInv
      <4>4. /\ 0 <= avail'[n] /\ avail'[n] <= free[n]
            /\ Cardinality(toRun'[n]) <= free[n]
        BY <4>1, <4>2, <4>3, <1>t, <1>e, <1>f
      <4> QED BY <2>1, <3>1, <4>2, <4>3, <4>4
    <3>2. CASE m # n
      <4>1. UNCHANGED <<avail[m], wpc[m], batch[m], toRun[m]>>
        BY <2>4, <3>2 DEF WatchdogRollback, CreateExecutorRaises, TypeInv, Types
      <4> QED BY <2>1, <4>1 DEF PoolInv
    <3> QED BY <3>1, <3>2
  <2>5. ASSUME NEW n \in Nodes, SubmitWork(n) \/ Crash(n) PROVE Good(m)'
    BY <1>1, <1>2, <2>5
  <2> QED BY <2>2, <2>3, <2>4, <2>5, WatchdogFrame DEF NodeFault
<1>5. ASSUME NEW m \in Nodes PROVE Good(m)'
  BY <1>1, <1>2, <1>3, <1>4, PoolFrame
<1> QED BY <1>5 DEF PoolInv

(***************************************************************************)
(* Rows.  A row is written by six actions only; a locked row keeps what    *)
(* its transaction selected it for.                                        *)
(***************************************************************************)
LEMMA RowFrame ==
  ASSUME TypeInv, PoolInv, [Next]_vars
  PROVE  \/ UNCHANGED rowVars
         \/ \E n \in Nodes : HandleFailedCommit(n) \/ HandlePendingClaim(n)
         \/ \E e \in Execs : ClaimTask(e) \/ Heartbeat(e) \/ UpdateTaskWrite(e)
         \/ \E t \in Tasks : AgeBeat(t)
<1>1. ASSUME NEW n \in Nodes, Watchdog(n), ~HandleFailedCommit(n), ~HandlePendingClaim(n)
      PROVE UNCHANGED rowVars
  <2>1. CASE SubmitWork(n)
    BY <2>1, NoRejection
  <2> QED BY <1>1, <2>1 DEF Watchdog, HandleFailedSelect, PoolAvailableSlots,
                            HandlePendingSelect, PurgeDeletedSessions
<1>2. ASSUME NEW n \in Nodes, NodeFault(n) PROVE UNCHANGED rowVars
  BY <1>2 DEF NodeFault, Crash, WatchdogRollback, CreateExecutorRaises
<1>3. ASSUME NEW e \in Execs, Executor(e) \/ ExecFault(e), ~ClaimTask(e), ~UpdateTaskWrite(e)
      PROVE UNCHANGED rowVars
  BY <1>3 DEF Executor, ExecFault, RunInnerSucceeds, RunInnerFails, UpdateTaskRead,
              ReleaseSlot, Released, ClaimTaskError, UpdateTaskReadError, UpdateTaskWriteError
<1>4. ASSUME NEW t \in Tasks, Environment(t), ~AgeBeat(t) PROVE UNCHANGED rowVars
  BY <1>4 DEF Environment, DeleteSession, RestoreSession, TunnelChange
<1>5. CASE UNCHANGED vars
  BY <1>5 DEF vars
<1> QED BY <1>1, <1>2, <1>3, <1>4, <1>5 DEF Next

\* Sessions: deleted, restored or purged only while nobody holds the lock.
LEMMA SessionFrame ==
  ASSUME TypeInv, [Next]_vars, NEW t \in Tasks
  PROVE  sess'[t] = sess[t] \/ (~Locked(t) /\ (sess[t] = "purged" => sess'[t] = "purged"))
<1> USE DEF TypeInv, Types, envVars
<1>1. ASSUME NEW n \in Nodes, Watchdog(n), ~PurgeDeletedSessions(n) PROVE UNCHANGED sess
  BY <1>1 DEF Watchdog, HandleFailedSelect, HandleFailedCommit, PoolAvailableSlots,
              HandlePendingSelect, HandlePendingClaim, SubmitWork
<1>2. ASSUME NEW n \in Nodes, PurgeDeletedSessions(n)
      PROVE  sess'[t] = sess[t] \/ (~Locked(t) /\ (sess[t] = "purged" => sess'[t] = "purged"))
  BY <1>2 DEF PurgeDeletedSessions
<1>3. ASSUME NEW n \in Nodes, NodeFault(n) PROVE UNCHANGED sess
  BY <1>3 DEF NodeFault, Crash, WatchdogRollback, CreateExecutorRaises
<1>4. ASSUME NEW e \in Execs, Executor(e) \/ Heartbeat(e) \/ ExecFault(e) PROVE UNCHANGED sess
  BY <1>4 DEF Executor, ExecFault, ClaimTask, MayClaim, RunInnerSucceeds, RunInnerFails, UpdateTaskRead,
              UpdateTaskWrite, ReleaseSlot, Released, Heartbeat, ClaimTaskError, UpdateTaskReadError, UpdateTaskWriteError
<1>5. ASSUME NEW u \in Tasks, Environment(u)
      PROVE  sess'[t] = sess[t] \/ (~Locked(t) /\ (sess[t] = "purged" => sess'[t] = "purged"))
  <2>1. CASE AgeBeat(u) \/ TunnelChange(u)
    BY <2>1 DEF AgeBeat, TunnelChange
  <2>2. CASE DeleteSession(u) \/ RestoreSession(u)
    BY <2>2 DEF DeleteSession, RestoreSession
  <2> QED BY <1>5, <2>1, <2>2 DEF Environment
<1>6. CASE UNCHANGED vars
  BY <1>6 DEF vars
<1> QED BY <1>1, <1>2, <1>3, <1>4, <1>5, <1>6 DEF Next

LocksInv ==
  /\ \A n, m \in Nodes : n # m => batch[n] \cap batch[m] = {}
  /\ \A n \in Nodes : \A t \in batch[n] :
       /\ wpc[n] = "failedTx" => RetryDue(t)
       /\ wpc[n] = "pendingTx" => Runnable(t)

LEMMA LocksInvInit == Init => LocksInv
BY DEF Init, LocksInv

\* A row that a transaction has locked before and after a step still qualifies.
LEMMA LockedRowKept ==
  ASSUME TypeInv, PoolInv, LocksInv, [Next]_vars,
         NEW n \in Nodes, NEW t \in batch[n],
         ~HandleFailedCommit(n), ~HandlePendingClaim(n)
  PROVE  (RetryDue(t) => RetryDue(t)') /\ (Runnable(t) => Runnable(t)')
<1>1. t \in Tasks /\ Locked(t)
  BY DEF TypeInv, Types, Locked
<1>2. sess'[t] = sess[t]
  BY <1>1, SessionFrame
<1>3. status'[t] = status[t] /\ (OldBeat(t) => OldBeat(t)')
  <2> USE DEF TypeInv, Types, OldBeat
  <2>1. CASE UNCHANGED rowVars
    BY <2>1 DEF rowVars
  <2>2. ASSUME NEW m \in Nodes, HandleFailedCommit(m) PROVE status'[t] = status[t] /\ beat'[t] = beat[t]
    <3>1. t \notin batch[m]
      BY <2>2 DEF LocksInv
    <3> QED BY <1>1, <2>2, <3>1 DEF HandleFailedCommit, Retried, Exhausted
  <2>3. ASSUME NEW m \in Nodes, HandlePendingClaim(m) PROVE status'[t] = status[t] /\ beat'[t] = beat[t]
    <3>1. t \notin batch[m]
      BY <2>3 DEF LocksInv
    <3> QED BY <1>1, <2>3, <3>1 DEF HandlePendingClaim, Startable
  <2>4. ASSUME NEW e \in Execs, ClaimTask(e) \/ Heartbeat(e)
        PROVE status'[t] = status[t] /\ beat'[t] = beat[t]
    BY <1>1, <2>4 DEF ClaimTask, MayClaim, Heartbeat
  <2>5. ASSUME NEW e \in Execs, UpdateTaskWrite(e)
        PROVE status'[t] = status[t] /\ beat'[t] = beat[t]
    BY <1>1, <2>5 DEF UpdateTaskWrite
  <2>6. ASSUME NEW u \in Tasks, AgeBeat(u) PROVE status'[t] = status[t] /\ (OldBeat(t) => OldBeat(t)')
    BY <1>1, <2>6 DEF AgeBeat
  <2> QED BY <2>1, <2>2, <2>3, <2>4, <2>5, <2>6, RowFrame
<1> QED BY <1>2, <1>3 DEF RetryDue, Runnable

LEMMA LocksInvStep ==
  TypeInv /\ WatchdogSteps /\ PoolInv /\ LocksInv /\ [Next]_vars => LocksInv'
<1> SUFFICES ASSUME TypeInv, WatchdogSteps, PoolInv, LocksInv, [Next]_vars PROVE LocksInv'
  OBVIOUS
<1> USE DEF TypeInv, Types
<1> DEFINE Kept(m) == batch'[m] = {} \/ UNCHANGED <<batch[m], wpc[m]>>
           Took(m) == \E S \in SUBSET {t \in Tasks : ~Locked(t)} :
                        /\ batch'[m] = S /\ UNCHANGED rowVars /\ UNCHANGED envVars
                        /\ \A t \in S : /\ wpc'[m] = "failedTx" => RetryDue(t)
                                        /\ wpc'[m] = "pendingTx" => Runnable(t)
\* A node's transaction is closed, goes on, or was opened by this step.
<1>1. /\ \A m \in Nodes : Kept(m) \/ Took(m)
      /\ \A m, k \in Nodes : m # k => Kept(m) \/ Kept(k)
  <2>1. CASE UNCHANGED dogVars
    BY <2>1 DEF dogVars
  <2>2. ASSUME NEW n \in Nodes, Watchdog(n) \/ NodeFault(n)
        PROVE  (Kept(n) \/ Took(n)) /\ \A m \in Nodes \ {n} : Kept(m)
    <3>1. CASE HandleFailedSelect(n)
      <4>1. \A m \in Nodes \ {n} : Kept(m)
        BY <3>1 DEF HandleFailedSelect
      <4> DEFINE S == {t \in Tasks : RetryDue(t) /\ ~Locked(t)}
      <4>2. batch'[n] = S /\ wpc'[n] = "failedTx" /\ UNCHANGED <<rowVars, envVars>>
        BY <3>1 DEF HandleFailedSelect
      <4>3. Took(n)
        BY <4>2
      <4> QED BY <4>1, <4>3
    <3>2. CASE HandlePendingSelect(n)
      <4>1. \A m \in Nodes \ {n} : Kept(m)
        BY <3>2 DEF HandlePendingSelect
      <4>2. Took(n)
        BY <3>2 DEF HandlePendingSelect, Slice
      <4> QED BY <4>1, <4>2
    <3>3. CASE HandleFailedCommit(n) \/ HandlePendingClaim(n)
      BY <3>3 DEF HandleFailedCommit, HandlePendingClaim
    <3>4. CASE PoolAvailableSlots(n) \/ PurgeDeletedSessions(n)
      BY <3>4 DEF PoolAvailableSlots, PurgeDeletedSessions, WatchdogSteps
    <3>5. CASE SubmitWork(n)
      <4>1. UNCHANGED batch /\ batch[n] = {}
        BY <3>5 DEF SubmitWork, WatchdogSteps
      <4>2. \A m \in Nodes \ {n} : wpc'[m] = wpc[m]
        BY <3>5 DEF SubmitWork
      <4> QED BY <4>1, <4>2
    <3>6. CASE NodeFault(n)
      BY <3>6 DEF NodeFault, Crash, WatchdogRollback, CreateExecutorRaises, WatchdogSteps
    <3> QED BY <2>2, <3>1, <3>2, <3>3, <3>4, <3>5, <3>6 DEF Watchdog
  <2> QED BY <2>1, <2>2, WatchdogFrame
<1>2. ASSUME NEW n \in Nodes, NEW m \in Nodes, n # m PROVE batch'[n] \cap batch'[m] = {}
  <2>1. CASE Kept(n) /\ Kept(m)
    BY <1>2, <2>1 DEF LocksInv
  <2>2. CASE Kept(n) /\ Took(m)
    BY <2>2 DEF Locked
  <2>3. CASE Took(n) /\ Kept(m)
    BY <2>3 DEF Locked
  <2> QED BY <1>1, <1>2, <2>1, <2>2, <2>3
<1>3. ASSUME NEW n \in Nodes, NEW t \in batch'[n]
      PROVE  /\ wpc'[n] = "failedTx" => RetryDue(t)'
             /\ wpc'[n] = "pendingTx" => Runnable(t)'
  <2>1. CASE Took(n)
    BY <1>3, <2>1 DEF RetryDue, Runnable, OldBeat, rowVars, envVars
  <2>2. CASE Kept(n)
    <3>1. t \in batch[n] /\ wpc'[n] = wpc[n]
      BY <1>3, <2>2
    <3>2. ~HandleFailedCommit(n) /\ ~HandlePendingClaim(n)
      BY <1>3 DEF HandleFailedCommit, HandlePendingClaim
    <3>3. (RetryDue(t) => RetryDue(t)') /\ (Runnable(t) => Runnable(t)')
      BY <3>1, <3>2, LockedRowKept
    <3> QED BY <3>1, <3>3 DEF LocksInv
  <2> QED BY <1>1, <2>1, <2>2
<1> QED BY <1>2, <1>3 DEF LocksInv

(***************************************************************************)
(* Rows and executors together.                                            *)
(***************************************************************************)
\* A task in the hands of a watchdog, or of an executor that has not claimed it,
\* is running or still names an earlier owner: it is not a never-started one.
InHand(t) == \/ \E n \in Nodes : t \in toRun[n]
             \/ \E e \in Execs : pc[e] = "queued" /\ job[e] = t

HandedOut == \A t \in Tasks : InHand(t) /\ owner[t] = NoExec => status[t] = "running"

RowInv == RowConsistent /\ OwnerSeesRunning /\ HandedOut

LEMMA RowInvInit == Init => RowInv
BY ConstantsAssumption
   DEF Init, RowInv, RowConsistent, OwnerSeesRunning, HandedOut, InHand, Claimed

LEMMA RowConsistentStep ==
  TypeInv /\ PoolInv /\ LocksInv /\ RowInv /\ [Next]_vars => RowConsistent'
<1> SUFFICES ASSUME TypeInv, PoolInv, LocksInv, RowInv, [Next]_vars PROVE RowConsistent'
  OBVIOUS
<1> USE ConstantsAssumption DEF TypeInv, Types, RowInv, RowConsistent
<1>1. CASE UNCHANGED rowVars
  BY <1>1 DEF rowVars
<1>2. ASSUME NEW n \in Nodes, HandleFailedCommit(n) PROVE RowConsistent'
  <2>1. \A t \in batch[n] : status[t] = "failed"
    BY <1>2 DEF HandleFailedCommit, LocksInv, RetryDue
  <2>2. UNCHANGED owner
    BY <1>2 DEF HandleFailedCommit
  <2>3. ASSUME NEW t \in Retried(n) PROVE status'[t] = "pending"
    BY <1>2, <2>3 DEF HandleFailedCommit, Retried
  <2>4. ASSUME NEW t \in Exhausted(n)
        PROVE  /\ retries'[t] = MaxRetries /\ beat'[t] = beat[t]
               /\ status[t] = "failed"
    <3>1. t \in Tasks /\ t \notin Retried(n) /\ retries[t] = MaxRetries /\ status[t] = "failed"
      BY <2>1, <2>4 DEF Retried, Exhausted
    <3>2. retries'[t] = retries[t] /\ beat'[t] = beat[t]
      BY <1>2, <3>1 DEF HandleFailedCommit
    <3> QED BY <3>1, <3>2
  <2>5. ASSUME NEW t \in Tasks \ batch[n]
        PROVE  UNCHANGED <<status[t], beat[t], retries[t]>>
    BY <1>2, <2>5 DEF HandleFailedCommit, Retried, Exhausted
  <2> QED BY <2>2, <2>3, <2>4, <2>5 DEF Exhausted
<1>3. ASSUME NEW n \in Nodes, HandlePendingClaim(n) PROVE RowConsistent'
  BY <1>3 DEF HandlePendingClaim
<1>4. ASSUME NEW e \in Execs, ClaimTask(e) PROVE RowConsistent'
  <2>1. UNCHANGED <<status, beat, retries>> /\ \A t \in Tasks : owner'[t] = owner[t] \/ owner'[t] = e
    BY <1>4 DEF ClaimTask, MayClaim
  <2> QED BY <2>1
<1>5. ASSUME NEW e \in Execs, Heartbeat(e) PROVE RowConsistent'
  BY <1>5 DEF Heartbeat
<1>6. ASSUME NEW e \in Execs, UpdateTaskWrite(e) PROVE RowConsistent'
  <2>1. CASE UpdateMatches(e)
    <3>1. job[e] \in Tasks /\ status[job[e]] = "running" /\ owner[job[e]] = e
      BY <1>6, <2>1 DEF UpdateTaskWrite, UpdateMatches, ExecPlaced, OwnerSeesRunning, Claimed
    <3> QED BY <1>6, <2>1, <3>1 DEF UpdateTaskWrite
  <2>2. CASE ~UpdateMatches(e)
    BY <1>6, <2>2 DEF UpdateTaskWrite
  <2> QED BY <2>1, <2>2
<1>7. ASSUME NEW t \in Tasks, AgeBeat(t) PROVE RowConsistent'
  BY <1>7 DEF AgeBeat
<1> QED BY <1>1, <1>2, <1>3, <1>4, <1>5, <1>6, <1>7, RowFrame

\* The threads that a step leaves claimed were claimed, of the same task, before
\* it, except the one that claims now.
LEMMA ClaimedFrame ==
  ASSUME TypeInv, PoolInv, [Next]_vars, NEW f \in Execs, Claimed(f)'
  PROVE  \/ Claimed(f) /\ job'[f] = job[f]
         \/ ClaimTask(f) /\ owner[job[f]] = NoExec /\ Row(job[f]) /\ job'[f] = job[f]
<1> USE DEF TypeInv, Types, Claimed, execVars
<1>1. ASSUME NEW n \in Nodes, Watchdog(n) PROVE Claimed(f) /\ job'[f] = job[f]
  <2>1. CASE SubmitWork(n)
    BY <2>1, NoRejection
  <2> QED BY <1>1, <2>1 DEF Watchdog, HandleFailedSelect, HandleFailedCommit, PoolAvailableSlots,
                            HandlePendingSelect, HandlePendingClaim, PurgeDeletedSessions
<1>2. ASSUME NEW n \in Nodes, NodeFault(n) PROVE Claimed(f) /\ job'[f] = job[f]
  BY <1>2, ZenonT(30) DEF NodeFault, Crash, WatchdogRollback, CreateExecutorRaises
<1>3. ASSUME NEW e \in Execs, ClaimTask(e)
      PROVE  \/ Claimed(f) /\ job'[f] = job[f]
             \/ ClaimTask(f) /\ owner[job[f]] = NoExec /\ Row(job[f]) /\ job'[f] = job[f]
  <2>1. CASE e = f
    BY <1>3, <2>1 DEF ClaimTask, MayClaim
  <2>2. CASE e # f
    BY <1>3, <2>2 DEF ClaimTask, MayClaim
  <2> QED BY <2>1, <2>2
<1>4. ASSUME NEW e \in Execs, Executor(e), ~ClaimTask(e) PROVE Claimed(f) /\ job'[f] = job[f]
  <2>1. CASE RunInnerSucceeds(e) \/ RunInnerFails(e)
    BY <2>1 DEF RunInnerSucceeds, RunInnerFails
  <2>2. CASE UpdateTaskRead(e)
    BY <2>2 DEF UpdateTaskRead, Raises
  <2>3. CASE UpdateTaskWrite(e) \/ ReleaseSlot(e)
    BY <2>3 DEF UpdateTaskWrite, ReleaseSlot, Released
  <2> QED BY <1>4, <2>1, <2>2, <2>3 DEF Executor
<1>5. ASSUME NEW e \in Execs, Heartbeat(e) \/ ExecFault(e) PROVE Claimed(f) /\ job'[f] = job[f]
  BY <1>5 DEF Heartbeat, ExecFault, ClaimTaskError, UpdateTaskReadError, UpdateTaskWriteError, Raises
<1>6. ASSUME NEW t \in Tasks, Environment(t) PROVE Claimed(f) /\ job'[f] = job[f]
  BY <1>6 DEF Environment, AgeBeat, DeleteSession, RestoreSession, TunnelChange
<1>7. CASE UNCHANGED vars
  BY <1>7 DEF vars
<1> QED BY <1>1, <1>2, <1>3, <1>4, <1>5, <1>6, <1>7 DEF Next

LEMMA OwnerSeesRunningStep ==
  TypeInv /\ PoolInv /\ LocksInv /\ RowInv /\ [Next]_vars => OwnerSeesRunning'
<1> SUFFICES ASSUME TypeInv, PoolInv, LocksInv, RowInv, [Next]_vars,
                    NEW f \in Execs, Claimed(f)', Row(job[f])', owner'[job'[f]] = f
             PROVE  status'[job'[f]] = "running"
  BY DEF OwnerSeesRunning, Row
<1> USE ConstantsAssumption DEF TypeInv, Types
<1>1. job'[f] = job[f] /\ job[f] \in Tasks /\ Row(job[f])
  <2>1. job'[f] = job[f] /\ job[f] \in Tasks
    BY ClaimedFrame DEF Claimed, ExecPlaced, ClaimTask, MayClaim
  <2> QED BY <2>1, SessionFrame DEF Row
<1>2. CASE ClaimTask(f)
  <2>1. pc[f] = "queued" /\ UNCHANGED status
    BY <1>2 DEF ClaimTask, MayClaim
  <2>2. owner[job[f]] = NoExec
    BY <1>2, <2>1, ClaimedFrame DEF Claimed
  <2> QED BY <1>1, <2>1, <2>2 DEF RowInv, HandedOut, InHand
<1>3. CASE ~ClaimTask(f)
  <2>1. Claimed(f)
    BY <1>3, ClaimedFrame
  <2>2. owner[job[f]] = f => status[job[f]] = "running"
    BY <1>1, <2>1 DEF RowInv, OwnerSeesRunning
  <2>3. CASE UNCHANGED rowVars
    BY <1>1, <2>2, <2>3 DEF rowVars
  <2>4. ASSUME NEW n \in Nodes, HandleFailedCommit(n) PROVE status'[job[f]] = "running"
    <3>1. UNCHANGED owner /\ \A t \in batch[n] : status[t] = "failed"
      BY <2>4 DEF HandleFailedCommit, LocksInv, RetryDue
    <3> QED BY <1>1, <2>2, <2>4, <3>1 DEF HandleFailedCommit, Retried, Exhausted
  <2>5. ASSUME NEW n \in Nodes, HandlePendingClaim(n) PROVE status'[job[f]] = "running"
    BY <1>1, <2>2, <2>5 DEF HandlePendingClaim
  <2>6. ASSUME NEW e \in Execs, ClaimTask(e) PROVE status'[job[f]] = "running"
    <3>1. e # f
      BY <1>3, <2>6
    <3> QED BY <1>1, <2>2, <2>6, <3>1 DEF ClaimTask, MayClaim
  <2>7. ASSUME NEW e \in Execs, UpdateTaskWrite(e) PROVE status'[job[f]] = "running"
    <3>1. e # f
      BY <2>7 DEF UpdateTaskWrite, Claimed
    <3>2. UNCHANGED owner
      BY <2>7 DEF UpdateTaskWrite
    <3> QED BY <1>1, <2>2, <2>7, <3>1, <3>2 DEF UpdateTaskWrite, UpdateMatches
  <2>8. ASSUME NEW e \in Execs, Heartbeat(e) PROVE status'[job[f]] = "running"
    BY <1>1, <2>2, <2>8 DEF Heartbeat
  <2>9. ASSUME NEW t \in Tasks, AgeBeat(t) PROVE status'[job[f]] = "running"
    BY <1>1, <2>2, <2>9 DEF AgeBeat
  <2> QED BY <1>1, <2>3, <2>4, <2>5, <2>6, <2>7, <2>8, <2>9, RowFrame
<1> QED BY <1>2, <1>3

\* Only the claim of _handle_pending_sessions takes a task in hand.
LEMMA InHandFrame ==
  ASSUME TypeInv, PoolInv, [Next]_vars, NEW t \in Tasks, InHand(t)'
  PROVE  InHand(t) \/ \E n \in Nodes : HandlePendingClaim(n) /\ t \in Startable(n)
<1> USE DEF TypeInv, Types, InHand, dogVars, execVars
<1>1. ASSUME NEW n \in Nodes, Watchdog(n), ~HandlePendingClaim(n) PROVE InHand(t)
  <2>1. CASE SubmitWork(n)
    <3>1. PICK u \in toRun[n], e \in Execs :
              /\ toRun' = [toRun EXCEPT ![n] = @ \ {u}]
              /\ pc'   = [pc EXCEPT ![e] = "queued"]
              /\ job'  = [job EXCEPT ![e] = u]
      BY <2>1, NoRejection
    <3> QED BY <3>1
  <2>2. CASE UNCHANGED <<toRun, execVars>>
    BY <2>2
  <2> QED BY <1>1, <2>1, <2>2 DEF Watchdog, HandleFailedSelect, HandleFailedCommit,
                                  PoolAvailableSlots, HandlePendingSelect, PurgeDeletedSessions
<1>2. ASSUME NEW n \in Nodes, HandlePendingClaim(n)
      PROVE  InHand(t) \/ t \in Startable(n)
  BY <1>2 DEF HandlePendingClaim
<1>3. ASSUME NEW n \in Nodes, NodeFault(n) PROVE InHand(t)
  BY <1>3, ZenonT(60) DEF NodeFault, Crash, WatchdogRollback, CreateExecutorRaises
<1>4. ASSUME NEW e \in Execs, Executor(e) \/ Heartbeat(e) \/ ExecFault(e) PROVE InHand(t)
  <2>1. CASE ClaimTask(e)
    BY <2>1 DEF ClaimTask, MayClaim
  <2>2. CASE RunInnerSucceeds(e) \/ RunInnerFails(e)
    BY <2>2 DEF RunInnerSucceeds, RunInnerFails
  <2>3. CASE UpdateTaskRead(e)
    BY <2>3 DEF UpdateTaskRead, Raises
  <2>4. CASE UpdateTaskWrite(e) \/ ReleaseSlot(e)
    BY <2>4 DEF UpdateTaskWrite, ReleaseSlot, Released
  <2>5. CASE Heartbeat(e) \/ ExecFault(e)
    BY <2>5 DEF Heartbeat, ExecFault, ClaimTaskError, UpdateTaskReadError, UpdateTaskWriteError, Raises
  <2> QED BY <1>4, <2>1, <2>2, <2>3, <2>4, <2>5 DEF Executor
<1>5. ASSUME NEW u \in Tasks, Environment(u) PROVE InHand(t)
  BY <1>5 DEF Environment, AgeBeat, DeleteSession, RestoreSession, TunnelChange
<1>6. CASE UNCHANGED vars
  BY <1>6 DEF vars
<1> QED BY <1>1, <1>2, <1>3, <1>4, <1>5, <1>6 DEF Next

LEMMA HandedOutStep ==
  TypeInv /\ PoolInv /\ LocksInv /\ RowInv /\ [Next]_vars => HandedOut'
<1> SUFFICES ASSUME TypeInv, PoolInv, LocksInv, RowInv, [Next]_vars,
                    NEW t \in Tasks, InHand(t)', owner'[t] = NoExec
             PROVE  status'[t] = "running"
  BY DEF HandedOut
<1> USE ConstantsAssumption DEF TypeInv, Types
<1>1. ASSUME NEW n \in Nodes, HandlePendingClaim(n) PROVE status'[t] = "running"
  <2>1. CASE t \in Startable(n)
    BY <1>1, <2>1 DEF HandlePendingClaim
  <2>2. CASE t \notin Startable(n)
    <3>1. InHand(t)
      BY <1>1, <2>2 DEF HandlePendingClaim, InHand, execVars
    <3> QED BY <1>1, <2>2, <3>1 DEF HandlePendingClaim, RowInv, HandedOut
  <2> QED BY <2>1, <2>2
<1>2. CASE \A n \in Nodes : ~HandlePendingClaim(n)
  <2>1. InHand(t)
    BY <1>2, InHandFrame
  <2>2. owner[t] = NoExec => status[t] = "running"
    BY <2>1 DEF RowInv, HandedOut
  <2>3. CASE UNCHANGED rowVars
    BY <2>2, <2>3 DEF rowVars
  <2>4. ASSUME NEW n \in Nodes, HandleFailedCommit(n) PROVE status'[t] = "running"
    <3>1. UNCHANGED owner /\ \A u \in batch[n] : status[u] = "failed"
      BY <2>4 DEF HandleFailedCommit, LocksInv, RetryDue
    <3> QED BY <2>2, <2>4, <3>1 DEF HandleFailedCommit, Retried, Exhausted
  <2>5. ASSUME NEW e \in Execs, ClaimTask(e) PROVE status'[t] = "running"
    <3>1. UNCHANGED status /\ (owner'[t] = owner[t] \/ owner'[t] = e)
      BY <2>5 DEF ClaimTask, MayClaim
    <3> QED BY <2>2, <3>1
  <2>6. ASSUME NEW e \in Execs, UpdateTaskWrite(e) PROVE status'[t] = "running"
    <3>1. UNCHANGED owner /\ (UpdateMatches(e) => owner[job[e]] = e)
      BY <2>6 DEF UpdateTaskWrite, UpdateMatches
    <3> QED BY <2>2, <2>6, <3>1 DEF UpdateTaskWrite
  <2>7. ASSUME NEW e \in Execs, Heartbeat(e) PROVE status'[t] = "running"
    BY <2>2, <2>7 DEF Heartbeat
  <2>8. ASSUME NEW u \in Tasks, AgeBeat(u) PROVE status'[t] = "running"
    BY <2>2, <2>8 DEF AgeBeat
  <2> QED BY <1>2, <2>3, <2>4, <2>5, <2>6, <2>7, <2>8, RowFrame
<1> QED BY <1>1, <1>2

(***************************************************************************)
(* The inductive invariant, and what follows from it.                      *)
(***************************************************************************)
Inv == TypeInv /\ WatchdogSteps /\ PoolInv /\ LocksInv /\ RowInv

LEMMA InvInit == Init => Inv
BY TypeInvInit, WatchdogStepsInit, PoolInvInit, LocksInvInit, RowInvInit DEF Inv

LEMMA InvStep == Inv /\ [Next]_vars => Inv'
BY TypeInvStep, WatchdogStepsStep, PoolInvStep, LocksInvStep, RowConsistentStep,
   OwnerSeesRunningStep, HandedOutStep DEF Inv, RowInv

THEOREM Invariance == Spec => []Inv
BY InvInit, InvStep, PTL DEF Spec

LEMMA InvTypeOK == Inv => TypeOK
<1> SUFFICES ASSUME Inv PROVE TypeOK
  OBVIOUS
<1>1. ASSUME NEW n \in Nodes PROVE free[n] \in 0..MaxSlots /\ avail[n] \in 0..MaxSlots
  <2>1. /\ free[n] \in Int /\ avail[n] \in Int /\ MaxSlots \in Nat
        /\ Cardinality(Threads(n)) \in Nat /\ Cardinality(toRun[n]) \in Nat
    BY Finite, ConstantsAssumption DEF Inv, TypeInv, Types, Threads
  <2> QED BY <2>1 DEF Inv, PoolInv
<1>2. /\ free \in [Nodes -> 0..MaxSlots] /\ avail \in [Nodes -> 0..MaxSlots]
  BY <1>1 DEF Inv, TypeInv, Types
<1> QED BY <1>2 DEF TypeOK, Inv, TypeInv, Types

\* The type invariant, with the bounds of the pool.
THEOREM TypeCorrect == Spec => []TypeOK
BY Invariance, InvTypeOK, PTL

\* The columns of a row always agree with each other.
THEOREM RowsStayConsistent == Spec => []RowConsistent
<1>1. Inv => RowConsistent
  BY DEF Inv, RowInv
<1> QED BY <1>1, Invariance, PTL

\* A task is still running for the executor it names.
THEOREM OwnersSeeRunning == Spec => []OwnerSeesRunning
<1>1. Inv => OwnerSeesRunning
  BY DEF Inv, RowInv
<1> QED BY <1>1, Invariance, PTL

\* No pool leaks a slot or gains one, whatever the number of nodes and slots.
THEOREM SlotsConserved == Spec => []SlotConservation
<1>1. Inv => SlotConservation
  BY DEF Inv, PoolInv, SlotConservation, Threads
<1> QED BY <1>1, Invariance, PTL

\* Claims fit the pool, so the branch that rejects an executor is dead.
THEOREM ClaimsFit == Spec => []NeverRejected
<1>1. Inv => NeverRejected
  BY DEF Inv, PoolInv, NeverRejected
<1> QED BY <1>1, Invariance, PTL

\* Only the executor the row names ends a task, and only from running.
THEOREM OnlyOwnersEnd == Spec => EndedByOwner
<1> DEFINE Ended(t) == status'[t] \in {"completed", "failed"} /\ status'[t] # status[t]
           ByOwner(t) == /\ status[t] = "running"
                         /\ owner[t] \in Execs
                         /\ pc[owner[t]] = "write" /\ pc'[owner[t]] = "exit"
<1>1. ASSUME Inv, [Next]_vars, NEW t \in Tasks, Ended(t) PROVE ByOwner(t)
  <2> USE DEF Inv, TypeInv, Types
  <2>1. CASE UNCHANGED rowVars
    BY <1>1, <2>1 DEF rowVars
  <2>2. ASSUME NEW n \in Nodes, HandleFailedCommit(n) \/ HandlePendingClaim(n) PROVE FALSE
    BY <1>1, <2>2 DEF HandleFailedCommit, HandlePendingClaim
  <2>3. ASSUME NEW e \in Execs, ClaimTask(e) \/ Heartbeat(e) PROVE FALSE
    BY <1>1, <2>3 DEF ClaimTask, MayClaim, Heartbeat
  <2>4. ASSUME NEW e \in Execs, UpdateTaskWrite(e) PROVE ByOwner(t)
    <3>1. UpdateMatches(e) /\ t = job[e]
      BY <1>1, <2>4 DEF UpdateTaskWrite
    <3>2. owner[job[e]] = e /\ Row(job[e]) /\ pc[e] = "write" /\ pc'[e] = "exit"
      BY <1>1, <2>4, <3>1 DEF UpdateTaskWrite, UpdateMatches
    <3>3. status[job[e]] = "running"
      BY <1>1, <3>2 DEF RowInv, OwnerSeesRunning, Claimed
    <3> QED BY <3>1, <3>2, <3>3
  <2>5. ASSUME NEW u \in Tasks, AgeBeat(u) PROVE FALSE
    BY <1>1, <2>5 DEF AgeBeat
  <2> QED BY <1>1, <2>1, <2>2, <2>3, <2>4, <2>5, RowFrame
<1>2. Inv /\ [Next]_vars => [\A t \in Tasks : Ended(t) => ByOwner(t)]_vars
  BY <1>1
<1> QED BY <1>2, Invariance, PTL DEF Spec, EndedByOwner

(***************************************************************************)
(* Refinement of the lifecycle of MANUAL.md 7.3.                           *)
(***************************************************************************)
LEMMA LifecycleInit == Init => Lifecycle!Init
BY DEF Init, Lifecycle!Init

LEMMA LifecycleStep == Inv /\ [Next]_vars => [Lifecycle!Next]_(Lifecycle!vars)
<1> SUFFICES ASSUME Inv, [Next]_vars
             PROVE  Lifecycle!Next \/ UNCHANGED <<status, owner, retries>>
  BY DEF Lifecycle!vars
<1> USE ConstantsAssumption DEF Inv, TypeInv, Types
<1>1. CASE UNCHANGED rowVars
  BY <1>1 DEF rowVars
<1>2. ASSUME NEW n \in Nodes, HandleFailedCommit(n) PROVE Lifecycle!Next
  <2>1. batch[n] \in SUBSET Tasks
    OBVIOUS
  <2>2. \A t \in batch[n] : status[t] = "failed" /\ owner[t] # NoExec
    BY <1>2 DEF HandleFailedCommit, LocksInv, RetryDue, RowInv, RowConsistent
  <2>3. Lifecycle!Sort(batch[n])
    BY <1>2, <2>1, <2>2 DEF HandleFailedCommit, Retried, Exhausted, Lifecycle!Sort
  <2> QED BY <2>1, <2>3 DEF Lifecycle!Next
<1>3. ASSUME NEW n \in Nodes, HandlePendingClaim(n) PROVE Lifecycle!Next
  <2>1. Startable(n) \in SUBSET Tasks
    BY DEF Startable
  <2>2. \A t \in Startable(n) : status[t] \in {"pending", "running"}
    BY <1>3 DEF HandlePendingClaim, LocksInv, Runnable, Startable
  <2>3. Lifecycle!HandOut(Startable(n))
    BY <1>3, <2>1, <2>2 DEF HandlePendingClaim, Lifecycle!HandOut
  <2> QED BY <2>1, <2>3 DEF Lifecycle!Next
<1>4. ASSUME NEW e \in Execs, ClaimTask(e)
      PROVE  Lifecycle!Next \/ UNCHANGED <<status, owner, retries>>
  <2>1. CASE Row(job[e]) /\ owner[job[e]] = NoExec
    <3>1. job[e] \in Tasks /\ InHand(job[e])
      BY <1>4 DEF ClaimTask, MayClaim, ExecPlaced, InHand
    <3>2. status[job[e]] = "running"
      BY <2>1, <3>1 DEF RowInv, HandedOut
    <3>3. Lifecycle!Own(job[e], e)
      BY <1>4, <2>1, <3>2 DEF ClaimTask, MayClaim, Lifecycle!Own
    <3> QED BY <3>1, <3>3 DEF Lifecycle!Next
  <2>2. CASE ~(Row(job[e]) /\ owner[job[e]] = NoExec)
    BY <1>4, <2>2 DEF ClaimTask, MayClaim
  <2> QED BY <2>1, <2>2
<1>5. ASSUME NEW e \in Execs, UpdateTaskWrite(e)
      PROVE  Lifecycle!Next \/ UNCHANGED <<status, owner, retries>>
  <2>1. CASE UpdateMatches(e)
    <3>1. job[e] \in Tasks /\ owner[job[e]] = e /\ status[job[e]] = "running"
      BY <1>5, <2>1 DEF UpdateTaskWrite, UpdateMatches, ExecPlaced, RowInv, OwnerSeesRunning, Claimed
    <3>2. /\ status' = [status EXCEPT ![job[e]] = verdict[e]]
          /\ verdict[e] \in {"completed", "failed"} /\ UNCHANGED <<owner, retries>>
      BY <1>5, <2>1 DEF UpdateTaskWrite
    <3>3. Lifecycle!Finish(job[e])
      BY <3>1, <3>2 DEF Lifecycle!Finish
    <3> QED BY <3>1, <3>3 DEF Lifecycle!Next
  <2>2. CASE ~UpdateMatches(e)
    BY <1>5, <2>2 DEF UpdateTaskWrite
  <2> QED BY <2>1, <2>2
<1>6. ASSUME NEW e \in Execs, Heartbeat(e) PROVE UNCHANGED <<status, owner, retries>>
  BY <1>6 DEF Heartbeat
<1>7. ASSUME NEW t \in Tasks, AgeBeat(t) PROVE UNCHANGED <<status, owner, retries>>
  BY <1>7 DEF AgeBeat
<1> QED BY <1>1, <1>2, <1>3, <1>4, <1>5, <1>6, <1>7, RowFrame

\* The watchdogs and executors together implement the task lifecycle.
THEOREM LifecycleImplemented == Spec => ImplementsLifecycle
BY LifecycleInit, LifecycleStep, Invariance, PTL
   DEF Spec, ImplementsLifecycle, Lifecycle!Spec
=============================================================================
