----------------------- MODULE WorkerTasksExclusion -----------------------
(***************************************************************************)
(* While no live thread stalls (Timely), a task is never in two hands: a   *)
(* heartbeat that is never found stale makes the claim a mutual exclusion. *)
(***************************************************************************)
EXTENDS WorkerTasksProofs

\* The claim is a lease: whoever has a task in hand keeps its row running, with a
\* fresh heartbeat, so no watchdog selects it.
HeldIsFresh ==
  \A t \in Tasks : Held(t) /\ Row(t) => status[t] = "running" /\ beat[t] = "fresh"

\* At most one watchdog or executor has the task.
Exclusive(t) ==
  /\ \A e, f \in Execs : Active(e) /\ Active(f) /\ job[e] = t /\ job[f] = t => e = f
  /\ \A n, m \in Nodes : t \in toRun[n] /\ t \in toRun[m] => n = m
  /\ \A e \in Execs, n \in Nodes : ~(Active(e) /\ job[e] = t /\ t \in toRun[n])

LeaseInv == HeldIsFresh /\ \A t \in Tasks : Exclusive(t)

LEMMA LeaseInit == Init => LeaseInv
BY DEF Init, LeaseInv, HeldIsFresh, Exclusive, Held, Active

\* A task in nobody's hand is exclusive.
LEMMA UnheldExclusive == ASSUME NEW t, ~Held(t) PROVE Exclusive(t)
BY DEF Held, Exclusive

\* A locked row is in nobody's hand.
LEMMA LockedNotHeld ==
  ASSUME Inv, LeaseInv, NEW n \in Nodes, NEW t \in batch[n],
         wpc[n] \in {"failedTx", "pendingTx"}
  PROVE  ~Held(t)
<1>1. t \in Tasks
  BY DEF Inv, TypeInv, Types
<1>2. RetryDue(t) \/ Runnable(t)
  BY DEF Inv, LocksInv
<1> QED BY <1>1, <1>2 DEF RetryDue, Runnable, OldBeat, LeaseInv, HeldIsFresh, Row

\* Except for a claim and a submission, a step only takes tasks out of hands.
LEMMA HoldFrame ==
  ASSUME Inv, [Next]_vars,
         \A n \in Nodes : ~HandlePendingClaim(n) /\ ~SubmitWork(n)
  PROVE  /\ \A n \in Nodes : toRun'[n] \subseteq toRun[n]
         /\ \A f \in Execs : Active(f)' => Active(f) /\ job'[f] = job[f]
<1> DEFINE Shrinks == /\ \A n \in Nodes : toRun'[n] \subseteq toRun[n]
                      /\ \A f \in Execs : Active(f)' => Active(f) /\ job'[f] = job[f]
<1> USE DEF Inv, TypeInv, Types, Active, dogVars, execVars
<1>1. ASSUME NEW n \in Nodes, Watchdog(n) PROVE Shrinks
  BY <1>1 DEF Watchdog, HandleFailedSelect, HandleFailedCommit, PoolAvailableSlots,
              HandlePendingSelect, PurgeDeletedSessions
<1>2. ASSUME NEW n \in Nodes, NodeFault(n) PROVE Shrinks
  <2>1. CASE Crash(n)
    <3>1. \A m \in Nodes : toRun'[m] \subseteq toRun[m]
      BY <2>1 DEF Crash
    <3>2. \A f \in Execs : Active(f)' => Active(f) /\ job'[f] = job[f]
      BY <2>1 DEF Crash
    <3> QED BY <3>1, <3>2
  <2> QED BY <1>2, <2>1 DEF NodeFault, WatchdogRollback, CreateExecutorRaises
<1>3. ASSUME NEW e \in Execs, Executor(e) \/ Heartbeat(e) \/ ExecFault(e) PROVE Shrinks
  <2>1. CASE ClaimTask(e)
    BY <2>1 DEF ClaimTask, MayClaim
  <2>2. CASE RunInnerSucceeds(e) \/ RunInnerFails(e)
    BY <2>2 DEF RunInnerSucceeds, RunInnerFails
  <2>3. CASE UpdateTaskRead(e)
    BY <2>3 DEF UpdateTaskRead, Raises
  <2>4. CASE UpdateTaskWrite(e) \/ ReleaseSlot(e)
    BY <2>4 DEF UpdateTaskWrite, ReleaseSlot, Released
  <2>5. CASE Heartbeat(e) \/ ExecFault(e)
    BY <2>5 DEF Heartbeat, ExecFault, ClaimTaskError, UpdateTaskReadError, UpdateTaskWriteError, Raises
  <2> QED BY <1>3, <2>1, <2>2, <2>3, <2>4, <2>5 DEF Executor
<1>4. ASSUME NEW t \in Tasks, Environment(t) PROVE Shrinks
  BY <1>4 DEF Environment, AgeBeat, DeleteSession, RestoreSession, TunnelChange
<1>5. CASE UNCHANGED vars
  BY <1>5 DEF vars
<1> QED BY <1>1, <1>2, <1>3, <1>4, <1>5 DEF Next

\* A purged row does not come back.
LEMMA RowStays == ASSUME Inv, [Next]_vars, NEW t \in Tasks, Row(t)' PROVE Row(t)
BY SessionFrame DEF Row, Inv

LEMMA LeaseStep == Timely /\ Inv /\ LeaseInv /\ [Next]_vars => LeaseInv'
<1> SUFFICES ASSUME Timely, Inv, LeaseInv, [Next]_vars, NEW t \in Tasks
             PROVE  /\ Exclusive(t)'
                    /\ Held(t)' /\ Row(t)' => status'[t] = "running" /\ beat'[t] = "fresh"
  BY DEF LeaseInv, HeldIsFresh
<1> USE DEF Inv, TypeInv, Types
<1>1. ASSUME NEW n \in Nodes, HandlePendingClaim(n)
      PROVE  /\ Exclusive(t)'
             /\ Held(t)' /\ Row(t)' => status'[t] = "running" /\ beat'[t] = "fresh"
  <2>1. /\ UNCHANGED <<pc, job>> /\ toRun'[n] = Startable(n)
        /\ \A m \in Nodes : m # n => toRun'[m] = toRun[m]
    BY <1>1 DEF HandlePendingClaim, execVars
  <2>2. \A f \in Execs : Active(f)' = Active(f)
    BY <2>1 DEF Active
  <2>3. CASE t \in Startable(n)
    <3>1. ~Held(t)
      BY <1>1, <2>3, LockedNotHeld DEF HandlePendingClaim, Startable
    <3>2. Exclusive(t)'
      BY <2>1, <2>2, <2>3, <3>1 DEF Exclusive, Held
    <3> QED BY <1>1, <2>3, <3>2 DEF HandlePendingClaim
  <2>4. CASE t \notin Startable(n)
    <3>1. \A m \in Nodes : t \in toRun'[m] => t \in toRun[m]
      BY <2>1, <2>4
    <3>2. Exclusive(t)' /\ (Held(t)' => Held(t))
      BY <2>1, <2>2, <3>1 DEF Exclusive, Held, LeaseInv
    <3>3. UNCHANGED <<status[t], beat[t]>>
      BY <1>1, <2>4 DEF HandlePendingClaim
    <3> QED BY <3>2, <3>3, RowStays DEF LeaseInv, HeldIsFresh
  <2> QED BY <2>3, <2>4
<1>2. ASSUME NEW n \in Nodes, SubmitWork(n)
      PROVE  /\ Exclusive(t)'
             /\ Held(t)' /\ Row(t)' => status'[t] = "running" /\ beat'[t] = "fresh"
  <2>1. PICK u \in toRun[n], e \in Execs :
              /\ Fresh(e)
              /\ toRun' = [toRun EXCEPT ![n] = @ \ {u}]
              /\ pc'   = [pc EXCEPT ![e] = "queued"]
              /\ job'  = [job EXCEPT ![e] = u]
    BY <1>2, NoRejection
  <2>2. UNCHANGED rowVars
    BY <1>2, NoRejection
  <2>3. ~Active(e) /\ Active(e)' /\ job'[e] = u
    BY <2>1 DEF Fresh, Active
  <2>4. \A f \in Execs : f # e => Active(f)' = Active(f) /\ job'[f] = job[f]
    BY <2>1 DEF Active
  <2>5. \A m \in Nodes : toRun'[m] = IF m = n THEN toRun[n] \ {u} ELSE toRun[m]
    BY <2>1
  <2>6. Exclusive(t)
    BY DEF LeaseInv
  <2>7. Exclusive(t)'
    <3>1. CASE t = u
      BY <2>1, <2>3, <2>4, <2>5, <2>6, <3>1 DEF Exclusive
    <3>2. CASE t # u
      BY <2>1, <2>3, <2>4, <2>5, <2>6, <3>2 DEF Exclusive
    <3> QED BY <3>1, <3>2
  <2>8. Held(t)' => Held(t)
    BY <2>1, <2>3, <2>4, <2>5 DEF Held
  <2> QED BY <2>2, <2>7, <2>8, RowStays DEF LeaseInv, HeldIsFresh, rowVars
<1>3. CASE \A n \in Nodes : ~HandlePendingClaim(n) /\ ~SubmitWork(n)
  <2>1. /\ \A n \in Nodes : toRun'[n] \subseteq toRun[n]
        /\ \A f \in Execs : Active(f)' => Active(f) /\ job'[f] = job[f]
    BY <1>3, HoldFrame
  <2>2. Exclusive(t)' /\ (Held(t)' => Held(t))
    BY <2>1 DEF LeaseInv, Exclusive, Held
  <2>3. ASSUME Held(t)', Row(t)' PROVE status'[t] = "running" /\ beat'[t] = "fresh"
    <3>1. Held(t) /\ status[t] = "running" /\ beat[t] = "fresh"
      BY <2>2, <2>3, RowStays DEF LeaseInv, HeldIsFresh
    <3>2. CASE UNCHANGED rowVars
      BY <3>1, <3>2 DEF rowVars
    <3>3. ASSUME NEW n \in Nodes, HandleFailedCommit(n)
          PROVE  status'[t] = "running" /\ beat'[t] = "fresh"
      <4>1. t \notin batch[n]
        BY <3>1, <3>3, LockedNotHeld DEF HandleFailedCommit
      <4> QED BY <3>1, <3>3, <4>1 DEF HandleFailedCommit, Retried, Exhausted
    <3>4. ASSUME NEW e \in Execs, ClaimTask(e) \/ Heartbeat(e)
          PROVE  status'[t] = "running" /\ beat'[t] = "fresh"
      BY <3>1, <3>4 DEF ClaimTask, MayClaim, Heartbeat
    <3>5. ASSUME NEW e \in Execs, UpdateTaskWrite(e)
          PROVE  status'[t] = "running" /\ beat'[t] = "fresh"
      <4>1. Active(e) /\ ~Active(e)' /\ UNCHANGED <<toRun, job>>
        BY <3>5 DEF UpdateTaskWrite, Active, dogVars
      <4>2. job[e] # t
        <5>1. ASSUME job[e] = t PROVE FALSE
          <6>1. \A f \in Execs : Active(f) /\ job[f] = t => f = e
            BY <4>1, <5>1 DEF LeaseInv, Exclusive
          <6>2. \A n \in Nodes : t \notin toRun[n]
            BY <4>1, <5>1 DEF LeaseInv, Exclusive
          <6> QED BY <2>1, <2>3, <4>1, <6>1, <6>2 DEF Held
        <5> QED BY <5>1
      <4> QED BY <3>1, <3>5, <4>2 DEF UpdateTaskWrite
    <3>6. ASSUME NEW u \in Tasks, AgeBeat(u)
          PROVE  status'[t] = "running" /\ beat'[t] = "fresh"
      BY <3>1, <3>6 DEF AgeBeat
    <3> QED BY <1>3, <3>2, <3>3, <3>4, <3>5, <3>6, RowFrame
  <2> QED BY <2>2, <2>3
<1> QED BY <1>1, <1>2, <1>3

\* With live threads that never stall, run_inner of a task runs in one place at a time.
THEOREM ExclusionHolds == Spec => []ExclusiveExecution
<1>1. CASE Timely
  <2>1. Init => LeaseInv
    BY LeaseInit
  <2>2. Inv /\ LeaseInv /\ [Next]_vars => LeaseInv'
    BY <1>1, LeaseStep
  <2>3. LeaseInv => ExclusiveExecution
    BY DEF LeaseInv, Exclusive, ExclusiveExecution
  <2> QED BY <2>1, <2>2, <2>3, Invariance, PTL DEF Spec
<1>2. CASE ~Timely
  <2>1. ExclusiveExecution
    BY <1>2 DEF ExclusiveExecution
  <2> QED BY <2>1, PTL
<1> QED BY <1>1, <1>2
=============================================================================
