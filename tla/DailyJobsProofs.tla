-------------------------- MODULE DailyJobsProofs --------------------------
(***************************************************************************)
(* DailyJobs keeps its types, passes over no session and runs no job twice *)
(* at a time, for every set of nodes, threads, sessions and users, every   *)
(* marker life and period, and every bound.                                *)
(***************************************************************************)
EXTENDS DailyJobs, TLAPS

(***************************************************************************)
(* Types.                                                                  *)
(***************************************************************************)
LEMMA IdleThread == Idle \in Threads
BY DEF Idle, Threads, RunPcs, Jobs

LEMMA OtherJobs == \A j \in Jobs : OtherJob(j) \in Jobs
BY DEF OtherJob, Jobs

\* What a thread is made of, and what replacing a part of it gives.
LEMMA ThreadParts ==
  ASSUME NEW t \in Threads
  PROVE  /\ t.pc \in RunPcs /\ t.job \in Jobs /\ t.home \in Nodes \cup {NoNode}
         /\ t.from \in Nat /\ t.began \in Nat /\ t.claimed \in Nat
         /\ t.todo \in SUBSET Users
         /\ \A b \in Nat, p \in RunPcs :
              [t EXCEPT !.began = b, !.pc = p] \in Threads
         /\ \A U \in SUBSET Users, p \in RunPcs :
              [t EXCEPT !.todo = U, !.pc = p] \in Threads
BY DEF Threads

LEMMA Times ==
  ASSUME TypeOK
  PROVE  /\ now \in Nat
         /\ \A r \in Runs : /\ run[r].from \in Nat /\ run[r].began \in Nat
                           /\ run[r].claimed \in Nat /\ run[r].job \in Jobs
<1>1. now \in Nat
  BY JobConstants DEF TypeOK
<1>2. \A r \in Runs : run[r] \in Threads
  BY DEF TypeOK
<1> QED BY <1>1, <1>2, ThreadParts

LEMMA TypeInit == Init => TypeOK
<1> SUFFICES ASSUME Init PROVE TypeOK
  OBVIOUS
<1>1. Day \in Nat /\ Day + MaxTime \in Nat /\ Day <= Day + MaxTime
  BY JobConstants
<1>2. run \in [Runs -> Threads]
  BY IdleThread DEF Init
<1>3. /\ now \in Day..(Day + MaxTime)
      /\ faults \in 0..MaxFaults /\ failures \in 0..MaxFailures /\ resets \in 0..MaxResets
  BY <1>1, JobConstants DEF Init
<1>4. lastRun \in [Jobs -> {Never} \cup Nat] /\ marker \in [Jobs -> {Never} \cup Nat]
  BY DEF Init
<1>5. /\ npc \in [Nodes -> NodePcs] /\ kind \in [Nodes -> Jobs]
      /\ created \in [Sessions -> {Never} \cup Nat]
  BY DEF Init, NodePcs, Jobs
<1> QED BY <1>2, <1>3, <1>4, <1>5 DEF Init, TypeOK

LEMMA TypeStep == TypeOK /\ [Next]_vars => TypeOK'
<1> SUFFICES ASSUME TypeOK, [Next]_vars PROVE TypeOK'
  OBVIOUS
<1> USE JobConstants DEF TypeOK, cfgVars, nodeVars, sessVars, tally
<1>1. ASSUME NEW n \in Nodes, NextJob(n)
      PROVE npc' \in [Nodes -> NodePcs] /\ kind' \in [Nodes -> Jobs]
  BY <1>1, OtherJobs DEF NextJob, NodePcs
<1>2. ASSUME NEW n \in Nodes, CheckDue(n) PROVE TypeOK'
  BY <1>2, <1>1 DEF CheckDue, NodePcs
<1>3. ASSUME NEW n \in Nodes, LockConfig(n) PROVE TypeOK'
  BY <1>3, <1>1 DEF LockConfig, NodePcs
<1>4. ASSUME NEW n \in Nodes, ClaimJob(n) PROVE TypeOK'
  <2>1. npc' \in [Nodes -> NodePcs] /\ kind' \in [Nodes -> Jobs]
    BY <1>1, <1>4 DEF ClaimJob
  <2>2. kind[n] \in Jobs /\ now \in Nat
    OBVIOUS
  <2>3. SinceDt(kind[n]) \in Nat
    BY <2>2 DEF SinceDt
  <2>4. PICK r \in Runs :
          run' = [run EXCEPT ![r] =
            [Idle EXCEPT !.pc = "start", !.job = kind[n], !.home = n,
                         !.from = SinceDt(kind[n]), !.claimed = now]]
    BY <1>4 DEF ClaimJob
  <2>5. [Idle EXCEPT !.pc = "start", !.job = kind[n], !.home = n,
                     !.from = SinceDt(kind[n]), !.claimed = now] \in Threads
    BY <2>2, <2>3 DEF Idle, Threads, RunPcs
  <2>6. run' \in [Runs -> Threads]
    BY <2>4, <2>5
  <2>7. marker' \in [Jobs -> {Never} \cup Nat]
    BY <1>4, <2>2 DEF ClaimJob
  <2> QED BY <1>4, <2>1, <2>6, <2>7 DEF ClaimJob
<1>5. ASSUME NEW r \in Runs, JobStart(r) PROVE TypeOK'
  <2>1. now \in Nat /\ run[r] \in Threads
    OBVIOUS
  <2>2. run' \in [Runs -> Threads]
    BY <1>5, <2>1, ThreadParts DEF JobStart, RunPcs
  <2> QED BY <1>5, <2>2 DEF JobStart
<1>6. ASSUME NEW r \in Runs, NEW U \in SUBSET Users, WorkOn(r, U)
      PROVE run' \in [Runs -> Threads]
  <2>1. run[r] \in Threads
    OBVIOUS
  <2> QED BY <1>6, <2>1, ThreadParts DEF WorkOn, RunPcs
<1>7. ASSUME NEW r \in Runs, JobUsers(r) PROVE TypeOK'
  BY <1>7, <1>6 DEF JobUsers
<1>8. ASSUME NEW r \in Runs, JobUser(r) PROVE TypeOK'
  <2>1. PICK u \in run[r].todo :
          /\ \E lost \in SUBSET SessionsSince(r, u) :
               /\ lost = {} \/ failures < MaxFailures
               /\ scanned' = scanned \cup (SessionsSince(r, u) \ lost)
               /\ failures' = IF lost = {} THEN failures ELSE failures + 1
          /\ WorkOn(r, run[r].todo \ {u})
    BY <1>8 DEF JobUser
  <2>2. run[r].todo \ {u} \in SUBSET Users
    BY ThreadParts
  <2>3. scanned' \in SUBSET Sessions /\ failures' \in 0..MaxFailures
    BY <2>1 DEF SessionsSince
  <2> QED BY <1>6, <1>8, <2>1, <2>2, <2>3 DEF JobUser
<1>9. ASSUME NEW r \in Runs, JobStamp(r) PROVE TypeOK'
  BY <1>9, ThreadParts, IdleThread DEF JobStamp, StampTime
<1>10. ASSUME NEW r \in Runs, JobRaises(r) PROVE TypeOK'
  BY <1>10, IdleThread DEF JobRaises, Fault
<1>11. ASSUME NEW n \in Nodes, Crash(n) PROVE TypeOK'
  BY <1>11, IdleThread DEF Crash, Fault, NodePcs, Jobs
<1>12. ASSUME NEW s \in Sessions, CreateSession(s) PROVE TypeOK'
  BY <1>12 DEF CreateSession
<1>13. CASE RunMemoryGenerationJob
  <2>1. now - Day \in Nat
    OBVIOUS
  <2>2. marker' \in [Jobs -> {Never} \cup Nat] /\ lastRun' \in [Jobs -> {Never} \cup Nat]
    BY <1>13, <2>1 DEF RunMemoryGenerationJob
  <2>3. resets' \in 0..MaxResets
    BY <1>13 DEF RunMemoryGenerationJob
  <2> QED BY <1>13, <2>2, <2>3 DEF RunMemoryGenerationJob
<1>14. CASE Tick
  BY <1>14 DEF Tick
<1>15. CASE UNCHANGED vars
  BY <1>15 DEF vars
<1> QED BY <1>2, <1>3, <1>4, <1>5, <1>7, <1>8, <1>9, <1>10, <1>11, <1>12, <1>13, <1>14, <1>15
        DEF Next, Watchdog, JobThread

\* Every variable keeps its type.
THEOREM TypeCorrect == Spec => []TypeOK
BY TypeInit, TypeStep, PTL DEF Spec

(***************************************************************************)
(* What the steps do to the threads.                                       *)
(***************************************************************************)
LEMMA ClaimEffect ==
  ASSUME TypeOK, NEW n \in Nodes, ClaimJob(n)
  PROVE  \E r \in Runs :
           /\ ~Running(r)
           /\ run'[r].pc = "start" /\ run'[r].job = kind[n] /\ run'[r].claimed = now
           /\ run'[r].from = SinceDt(kind[n]) /\ run'[r].began = 0
           /\ \A q \in Runs \ {r} : run'[q] = run[q]
<1>1. PICK r \in Runs :
        /\ ~Running(r)
        /\ run' = [run EXCEPT ![r] =
             [Idle EXCEPT !.pc = "start", !.job = kind[n], !.home = n,
                          !.from = SinceDt(kind[n]), !.claimed = now]]
  BY DEF ClaimJob
<1>2. run'[r] = [Idle EXCEPT !.pc = "start", !.job = kind[n], !.home = n,
                             !.from = SinceDt(kind[n]), !.claimed = now]
  BY <1>1 DEF TypeOK
<1>3. \A q \in Runs \ {r} : run'[q] = run[q]
  BY <1>1 DEF TypeOK
<1>4. /\ run'[r].pc = "start" /\ run'[r].job = kind[n] /\ run'[r].claimed = now
      /\ run'[r].from = SinceDt(kind[n]) /\ run'[r].began = 0
  BY <1>2 DEF Idle
<1> QED BY <1>1, <1>3, <1>4

\* A step of thread r leaves the other threads alone, and its own job, claim and
\* since_dt.
SameJob(r) ==
  /\ run'[r].job = run[r].job /\ run'[r].claimed = run[r].claimed
  /\ run'[r].from = run[r].from /\ Running(r) /\ run'[r].pc # "none"
  /\ \A q \in Runs \ {r} : run'[q] = run[q]

LEMMA StartEffect ==
  ASSUME TypeOK, NEW r \in Runs, JobStart(r)
  PROVE  /\ SameJob(r) /\ run'[r].began = now
         /\ run'[r].pc = IF run[r].job = "memory" THEN "users" ELSE "stamp"
<1>1. run[r] \in Threads /\ run \in [Runs -> Threads]
  BY DEF TypeOK
<1>2. run' = [run EXCEPT ![r] = [run[r] EXCEPT !.began = now,
                !.pc = IF run[r].job = "memory" THEN "users" ELSE "stamp"]]
  BY <1>1 DEF JobStart
<1>3. run'[r] = [run[r] EXCEPT !.began = now,
                   !.pc = IF run[r].job = "memory" THEN "users" ELSE "stamp"]
  BY <1>1, <1>2
<1> QED BY <1>1, <1>2, <1>3 DEF JobStart, SameJob, Running, Threads

LEMMA WorkEffect ==
  ASSUME TypeOK, NEW r \in Runs, NEW U, WorkOn(r, U), Running(r)
  PROVE  /\ SameJob(r) /\ run'[r].began = run[r].began
         /\ run'[r].todo = U /\ run'[r].pc = IF U = {} THEN "stamp" ELSE "work"
<1>1. run[r] \in Threads /\ run \in [Runs -> Threads]
  BY DEF TypeOK
<1>2. run' = [run EXCEPT ![r] = [run[r] EXCEPT !.todo = U,
                !.pc = IF U = {} THEN "stamp" ELSE "work"]]
  BY <1>1 DEF WorkOn
<1>3. run'[r] = [run[r] EXCEPT !.todo = U, !.pc = IF U = {} THEN "stamp" ELSE "work"]
  BY <1>1, <1>2
<1> QED BY <1>1, <1>2, <1>3 DEF SameJob, Running, Threads

\* The steps that end threads.
EndsOnly == \A r \in Runs : run'[r] = run[r] \/ run'[r] = Idle

LEMMA EndEffect ==
  ASSUME TypeOK,
         \/ \E r \in Runs : JobStamp(r) \/ JobRaises(r)
         \/ \E n \in Nodes : Crash(n)
  PROVE  EndsOnly
BY DEF TypeOK, JobStamp, JobRaises, Crash, EndsOnly

LEMMA IdleParts == Idle.pc = "none" /\ Idle.from = 0 /\ Idle.began = 0
BY DEF Idle

(***************************************************************************)
(* No session is passed over.  Nothing is in the future; what is older     *)
(* than a since_dt was scanned, and what a run will stamp as scanned is    *)
(* scanned or belongs to a user it has still to process.                   *)
(***************************************************************************)
NothingInTheFuture ==
  /\ \A s \in Sessions : created[s] <= now
  /\ \A j \in Jobs : lastRun[j] <= now
  /\ \A r \in Runs : run[r].from <= now /\ run[r].began <= now

MemoryRun(r) == Running(r) /\ run[r].job = "memory"

SinceCovered ==
  \A r \in Runs, s \in Sessions :
    MemoryRun(r) /\ created[s] # Never /\ created[s] < run[r].from => s \in scanned

TodoCovered ==
  \A r \in Runs, s \in Sessions :
    MemoryRun(r) /\ run[r].pc = "work" /\ created[s] # Never /\ created[s] < run[r].began
      => s \in scanned \/ Owner[s] \in run[r].todo

StampCovered ==
  \A r \in Runs, s \in Sessions :
    MemoryRun(r) /\ run[r].pc = "stamp" /\ created[s] # Never /\ created[s] < run[r].began
      => s \in scanned

Covered == NoSessionSkipped /\ SinceCovered /\ TodoCovered /\ StampCovered

CoverInv == NothingInTheFuture /\ (failures = 0 /\ resets = 0 => Covered)

LEMMA CoverInit == TypeOK /\ Init => CoverInv
BY JobConstants
   DEF Init, CoverInv, NothingInTheFuture, Covered, NoSessionSkipped, SinceCovered,
       TodoCovered, StampCovered, MemoryRun, Running, Idle, Jobs, Never

\* Nothing moves into the future.
LEMMA FutureStep == TypeOK /\ NothingInTheFuture /\ [Next]_vars => NothingInTheFuture'
<1> SUFFICES ASSUME TypeOK, NothingInTheFuture, [Next]_vars PROVE NothingInTheFuture'
  OBVIOUS
<1> USE JobConstants DEF NothingInTheFuture, cfgVars, nodeVars, sessVars, tally
<1>0. now \in Nat /\ "memory" \in Jobs
  BY DEF TypeOK, Jobs
<1>1. ASSUME NEW n \in Nodes, CheckDue(n) \/ LockConfig(n) PROVE NothingInTheFuture'
  BY <1>1 DEF CheckDue, LockConfig
<1>2. ASSUME NEW n \in Nodes, ClaimJob(n) PROVE NothingInTheFuture'
  <2>1. PICK r \in Runs :
          /\ run'[r].from = SinceDt(kind[n]) /\ run'[r].began = 0 /\ run'[r].job = kind[n]
          /\ \A q \in Runs \ {r} : run'[q] = run[q]
    BY <1>2, ClaimEffect
  <2>2. SinceDt(kind[n]) <= now
    <3>1. kind[n] \in Jobs
      BY DEF TypeOK
    <3>2. lastRun[kind[n]] <= now /\ 0 <= now
      BY <1>0, <3>1
    <3> QED BY <3>2 DEF SinceDt
  <2>3. \A q \in Runs : run'[q].from <= now /\ run'[q].began <= now
    BY <1>0, <2>1, <2>2
  <2>4. UNCHANGED <<now, lastRun, created>>
    BY <1>2 DEF ClaimJob
  <2> QED BY <2>3, <2>4
<1>3. ASSUME NEW r \in Runs, JobStart(r) PROVE NothingInTheFuture'
  <2>1. SameJob(r) /\ run'[r].began = now
    BY <1>3, StartEffect
  <2>2. UNCHANGED <<now, lastRun, created>>
    BY <1>3 DEF JobStart
  <2> QED BY <1>0, <2>1, <2>2 DEF SameJob
<1>4. ASSUME NEW r \in Runs, JobUsers(r) \/ JobUser(r) PROVE NothingInTheFuture'
  <2>1. PICK U : WorkOn(r, U)
    BY <1>4 DEF JobUsers, JobUser
  <2>2. Running(r)
    BY <1>4 DEF JobUsers, JobUser, Running
  <2>3. SameJob(r) /\ run'[r].began = run[r].began
    BY <2>1, <2>2, WorkEffect
  <2> QED BY <1>4, <2>3 DEF JobUsers, JobUser, SameJob
<1>5. ASSUME NEW r \in Runs, JobStamp(r) PROVE NothingInTheFuture'
  BY <1>0, <1>5, EndEffect, IdleParts DEF JobStamp, StampTime, EndsOnly, TypeOK
<1>6. ASSUME NEW r \in Runs, JobRaises(r) PROVE NothingInTheFuture'
  BY <1>0, <1>6, EndEffect, IdleParts DEF JobRaises, EndsOnly
<1>7. ASSUME NEW n \in Nodes, Crash(n) PROVE NothingInTheFuture'
  BY <1>0, <1>7, EndEffect, IdleParts DEF Crash, EndsOnly
<1>8. ASSUME NEW s \in Sessions, CreateSession(s) PROVE NothingInTheFuture'
  BY <1>0, <1>8 DEF CreateSession, TypeOK
<1>9. CASE RunMemoryGenerationJob
  BY <1>0, <1>9 DEF RunMemoryGenerationJob, TypeOK
<1>10. CASE Tick
  <2>1. \A s \in Sessions : created[s] \in Int
    BY DEF TypeOK, Never
  <2>2. \A j \in Jobs : lastRun[j] \in Int
    BY DEF TypeOK, Never
  <2>3. \A r \in Runs : run[r].from \in Nat /\ run[r].began \in Nat
    BY Times
  <2> QED BY <1>0, <1>10, <2>1, <2>2, <2>3 DEF Tick
<1>11. CASE UNCHANGED vars
  BY <1>11 DEF vars
<1> QED BY <1>1, <1>2, <1>3, <1>4, <1>5, <1>6, <1>7, <1>8, <1>9, <1>10, <1>11
        DEF Next, Watchdog, JobThread

\* A failed batch and "Run Now" are counted for good.
LEMMA CountersGrow ==
  TypeOK /\ [Next]_vars /\ failures' = 0 /\ resets' = 0 => failures = 0 /\ resets = 0
<1> SUFFICES ASSUME TypeOK, [Next]_vars, failures' = 0, resets' = 0
             PROVE failures = 0 /\ resets = 0
  OBVIOUS
<1>1. failures \in Nat /\ resets \in Nat
  BY JobConstants DEF TypeOK
<1>2. ASSUME NEW r \in Runs, JobUser(r) PROVE failures = 0 /\ resets = 0
  BY <1>1, <1>2 DEF JobUser
<1>3. CASE RunMemoryGenerationJob
  BY <1>1, <1>3 DEF RunMemoryGenerationJob
<1> USE DEF tally
<1>4. ASSUME NEW n \in Nodes, Watchdog(n) \/ Crash(n) PROVE failures = 0 /\ resets = 0
  BY <1>4 DEF Watchdog, CheckDue, LockConfig, ClaimJob, Crash
<1>5. ASSUME NEW r \in Runs, JobStart(r) \/ JobUsers(r) \/ JobStamp(r) \/ JobRaises(r)
      PROVE failures = 0 /\ resets = 0
  BY <1>5 DEF JobStart, JobUsers, JobStamp, JobRaises
<1>6. ASSUME NEW s \in Sessions, CreateSession(s) PROVE failures = 0 /\ resets = 0
  BY <1>6 DEF CreateSession
<1>7. CASE Tick \/ UNCHANGED vars
  BY <1>7 DEF Tick, vars
<1> QED BY <1>2, <1>3, <1>4, <1>5, <1>6, <1>7 DEF Next, JobThread

\* Steps that leave sessions and last_run alone and end threads at most.
LEMMA CoveredByEnding ==
  ASSUME TypeOK, Covered, EndsOnly, UNCHANGED <<lastRun, created, scanned>>
  PROVE  Covered'
BY IdleParts DEF Covered, NoSessionSkipped, SinceCovered, TodoCovered, StampCovered,
                 MemoryRun, Running, EndsOnly

LEMMA CoveredStep ==
  TypeOK /\ NothingInTheFuture /\ Covered /\ [Next]_vars /\ failures' = 0 /\ resets' = 0
    => Covered'
<1> SUFFICES ASSUME TypeOK, NothingInTheFuture, Covered, [Next]_vars, failures' = 0, resets' = 0
             PROVE Covered'
  OBVIOUS
<1> USE DEF cfgVars, nodeVars, sessVars, tally
<1>0. /\ now \in Nat /\ failures \in Nat /\ resets \in Nat /\ "memory" \in Jobs
      /\ \A s \in Sessions : created[s] = Never \/ created[s] \in Nat
      /\ \A j \in Jobs : lastRun[j] = Never \/ lastRun[j] \in Nat
      /\ \A r \in Runs : run[r].from \in Nat /\ run[r].began \in Nat
  <2>1. failures \in Nat /\ resets \in Nat
    BY JobConstants DEF TypeOK
  <2> QED BY <2>1, Times DEF TypeOK, Jobs
<1>1. ASSUME NEW n \in Nodes, CheckDue(n) \/ LockConfig(n) PROVE Covered'
  <2>1. EndsOnly /\ UNCHANGED <<lastRun, created, scanned>>
    BY <1>1 DEF CheckDue, LockConfig, EndsOnly
  <2> QED BY <2>1, CoveredByEnding
<1>2. ASSUME NEW n \in Nodes, ClaimJob(n) PROVE Covered'
  <2>1. PICK r \in Runs :
          /\ run'[r].pc = "start" /\ run'[r].job = kind[n]
          /\ run'[r].from = SinceDt(kind[n])
          /\ \A q \in Runs \ {r} : run'[q] = run[q]
    BY <1>2, ClaimEffect
  <2>2. UNCHANGED <<lastRun, created, scanned>>
    BY <1>2 DEF ClaimJob
  <2>3. \A s \in Sessions :
          kind[n] = "memory" /\ created[s] # Never /\ created[s] < SinceDt(kind[n])
            => s \in scanned
    BY <1>0 DEF SinceDt, Covered, NoSessionSkipped
  <2>4. SinceCovered'
    BY <2>1, <2>2, <2>3 DEF Covered, SinceCovered, MemoryRun, Running
  <2>5. NoSessionSkipped' /\ TodoCovered' /\ StampCovered'
    BY <2>1, <2>2 DEF Covered, NoSessionSkipped, TodoCovered, StampCovered, MemoryRun, Running
  <2> QED BY <2>4, <2>5 DEF Covered
<1>3. ASSUME NEW r \in Runs, JobStart(r) PROVE Covered'
  <2>1. SameJob(r) /\ run'[r].pc = IF run[r].job = "memory" THEN "users" ELSE "stamp"
    BY <1>3, StartEffect
  <2>2. UNCHANGED <<lastRun, created, scanned>>
    BY <1>3 DEF JobStart
  <2> QED BY <2>1, <2>2 DEF Covered, NoSessionSkipped, SinceCovered, TodoCovered, StampCovered,
                            MemoryRun, Running, SameJob
<1>4. ASSUME NEW r \in Runs, JobUsers(r) PROVE Covered'
  <2> DEFINE U == {u \in Users : SessionsSince(r, u) # {}}
  <2>1. /\ SameJob(r) /\ run'[r].began = run[r].began
        /\ run'[r].todo = U /\ run'[r].pc = IF U = {} THEN "stamp" ELSE "work"
    BY <1>4, WorkEffect DEF JobUsers, Running
  <2>2. UNCHANGED <<lastRun, created, scanned>>
    BY <1>4 DEF JobUsers
  <2>3. \A s \in Sessions :
          MemoryRun(r) /\ created[s] # Never => s \in scanned \/ Owner[s] \in U
    <3> SUFFICES ASSUME NEW s \in Sessions, MemoryRun(r), created[s] # Never, s \notin scanned
                 PROVE Owner[s] \in U
      OBVIOUS
    <3>1. created[s] >= run[r].from
      BY <1>0 DEF Covered, SinceCovered
    <3>2. s \in SessionsSince(r, Owner[s])
      BY <3>1 DEF SessionsSince
    <3> QED BY <3>2, JobConstants
  <2>4. TodoCovered' /\ StampCovered'
    BY <2>1, <2>2, <2>3
       DEF Covered, TodoCovered, StampCovered, MemoryRun, Running, SameJob
  <2>5. NoSessionSkipped' /\ SinceCovered'
    BY <2>1, <2>2 DEF Covered, NoSessionSkipped, SinceCovered, MemoryRun, Running, SameJob
  <2> QED BY <2>4, <2>5 DEF Covered
<1>5. ASSUME NEW r \in Runs, JobUser(r) PROVE Covered'
  <2>1. PICK u \in run[r].todo :
          /\ \E lost \in SUBSET SessionsSince(r, u) :
               /\ scanned' = scanned \cup (SessionsSince(r, u) \ lost)
               /\ failures' = IF lost = {} THEN failures ELSE failures + 1
          /\ WorkOn(r, run[r].todo \ {u})
    BY <1>5 DEF JobUser
  <2>2. scanned' = scanned \cup SessionsSince(r, u)
    BY <1>0, <2>1
  <2> DEFINE U == run[r].todo \ {u}
  <2>3. /\ SameJob(r) /\ run'[r].began = run[r].began
        /\ run'[r].todo = U /\ run'[r].pc = IF U = {} THEN "stamp" ELSE "work"
    BY <1>5, <2>1, WorkEffect DEF JobUser, Running
  <2>4. UNCHANGED <<lastRun, created>> /\ run[r].pc = "work"
    BY <1>5 DEF JobUser
  <2>5. \A s \in Sessions :
          MemoryRun(r) /\ created[s] # Never /\ created[s] < run[r].began
            => s \in scanned' \/ Owner[s] \in U
    <3> SUFFICES ASSUME NEW s \in Sessions, MemoryRun(r), created[s] # Never,
                        created[s] < run[r].began, s \notin scanned'
                 PROVE Owner[s] \in U
      OBVIOUS
    <3>1. s \notin scanned /\ s \notin SessionsSince(r, u)
      BY <2>2
    <3>2. created[s] >= run[r].from
      BY <1>0, <3>1 DEF Covered, SinceCovered
    <3>3. Owner[s] # u
      BY <3>1, <3>2 DEF SessionsSince
    <3>4. Owner[s] \in run[r].todo
      BY <2>4, <3>1 DEF Covered, TodoCovered
    <3> QED BY <3>3, <3>4
  <2>6. TodoCovered' /\ StampCovered'
    BY <2>2, <2>3, <2>4, <2>5
       DEF Covered, TodoCovered, StampCovered, MemoryRun, Running, SameJob
  <2>7. NoSessionSkipped' /\ SinceCovered'
    BY <2>2, <2>3, <2>4 DEF Covered, NoSessionSkipped, SinceCovered, MemoryRun, Running, SameJob
  <2> QED BY <2>6, <2>7 DEF Covered
<1>6. ASSUME NEW r \in Runs, JobStamp(r) PROVE Covered'
  <2>1. EndsOnly /\ UNCHANGED <<created, scanned>> /\ run[r].pc = "stamp"
    BY <1>6, EndEffect DEF JobStamp
  <2>2. lastRun' = [lastRun EXCEPT ![run[r].job] = run[r].began] /\ lastRun \in [Jobs -> {Never} \cup Nat]
    BY <1>6 DEF JobStamp, StampTime, TypeOK
  <2>3. NoSessionSkipped'
    <3>1. CASE run[r].job = "memory"
      BY <1>0, <2>1, <2>2, <3>1 DEF Covered, NoSessionSkipped, StampCovered, MemoryRun, Running
    <3>2. CASE run[r].job # "memory"
      BY <1>0, <2>1, <2>2, <3>2 DEF Covered, NoSessionSkipped
    <3> QED BY <3>1, <3>2
  <2>4. SinceCovered' /\ TodoCovered' /\ StampCovered'
    BY <2>1, IdleParts DEF Covered, SinceCovered, TodoCovered, StampCovered, MemoryRun, Running,
                           EndsOnly
  <2> QED BY <2>3, <2>4 DEF Covered
<1>7. ASSUME NEW r \in Runs, JobRaises(r) PROVE Covered'
  <2>1. EndsOnly /\ UNCHANGED <<lastRun, created, scanned>>
    BY <1>7, EndEffect DEF JobRaises
  <2> QED BY <2>1, CoveredByEnding
<1>8. ASSUME NEW n \in Nodes, Crash(n) PROVE Covered'
  <2>1. EndsOnly /\ UNCHANGED <<lastRun, created, scanned>>
    BY <1>8, EndEffect DEF Crash
  <2> QED BY <2>1, CoveredByEnding
<1>9. ASSUME NEW s \in Sessions, CreateSession(s) PROVE Covered'
  <2>1. created' = [created EXCEPT ![s] = now] /\ created \in [Sessions -> {Never} \cup Nat]
    BY <1>9 DEF CreateSession, TypeOK
  <2>2. UNCHANGED <<lastRun, run, scanned>>
    BY <1>9 DEF CreateSession
  <2>3. \A x \in Sessions : x # s => created'[x] = created[x]
    BY <2>1
  <2>4. created'[s] = now
    BY <2>1
  <2>5. ~(lastRun["memory"] > now)
    BY <1>0 DEF NothingInTheFuture, Never
  <2>6. \A r \in Runs : ~(now < run[r].from) /\ ~(now < run[r].began)
    BY <1>0 DEF NothingInTheFuture
  <2> QED BY <2>2, <2>3, <2>4, <2>5, <2>6
             DEF Covered, NoSessionSkipped, SinceCovered, TodoCovered, StampCovered, MemoryRun,
                 Running
<1>10. CASE RunMemoryGenerationJob
  BY <1>0, <1>10 DEF RunMemoryGenerationJob
<1>11. CASE Tick
  <2>1. EndsOnly /\ UNCHANGED <<lastRun, created, scanned>>
    BY <1>11 DEF Tick, EndsOnly
  <2> QED BY <2>1, CoveredByEnding
<1>12. CASE UNCHANGED vars
  <2>1. EndsOnly /\ UNCHANGED <<lastRun, created, scanned>>
    BY <1>12 DEF vars, EndsOnly
  <2> QED BY <2>1, CoveredByEnding
<1> QED BY <1>1, <1>2, <1>3, <1>4, <1>5, <1>6, <1>7, <1>8, <1>9, <1>10, <1>11, <1>12
        DEF Next, Watchdog, JobThread

LEMMA CoverStep == TypeOK /\ CoverInv /\ [Next]_vars => CoverInv'
<1> SUFFICES ASSUME TypeOK, CoverInv, [Next]_vars PROVE CoverInv'
  OBVIOUS
<1>1. NothingInTheFuture'
  BY FutureStep DEF CoverInv
<1>2. ASSUME failures' = 0, resets' = 0 PROVE Covered'
  BY <1>2, CountersGrow, CoveredStep DEF CoverInv
<1> QED BY <1>1, <1>2 DEF CoverInv

\* Unless a batch was given up or somebody pressed "Run Now", memories were
\* extracted from every session older than memory_last_run.
THEOREM NothingSkipped == Spec => []NoSessionSkippedUndisturbed
<1>1. CoverInv => NoSessionSkippedUndisturbed
  BY DEF CoverInv, Covered, NoSessionSkippedUndisturbed
<1> QED BY TypeCorrect, CoverInit, CoverStep, TypeInit, <1>1, PTL DEF Spec

(***************************************************************************)
(* No job runs twice at a time.  A node that is about to claim holds the   *)
(* lock; as long as no job is late, a job that runs is covered by its      *)
(* marker, so that no node gets to claim it.                               *)
(***************************************************************************)
OnTime == ~late /\ resets = 0

LockHeld == \A n \in Nodes : npc[n] = "claim" => holder = n

Marked ==
  \A r \in Runs :
    Running(r) => marker[run[r].job] = run[r].claimed /\ now - run[r].claimed < Hour

ClaimsAlone ==
  \A n \in Nodes, r \in Runs : npc[n] = "claim" /\ Running(r) => run[r].job # kind[n]

OneEach ==
  \A q, r \in Runs : Running(q) /\ Running(r) /\ run[q].job = run[r].job => q = r

Apart == Marked /\ ClaimsAlone /\ OneEach

OverlapInv == LockHeld /\ (OnTime => Apart)

LEMMA OverlapInit == Init => OverlapInv
BY DEF Init, OverlapInv, LockHeld, Apart, Marked, ClaimsAlone, OneEach, Running, Idle

\* A thread that runs after the step ran before it, for the same claim.
KeepsJobs ==
  \A r \in Runs : run'[r].pc # "none" =>
    Running(r) /\ run'[r].job = run[r].job /\ run'[r].claimed = run[r].claimed

LEMMA OnlyClaimsStart ==
  ASSUME TypeOK, [Next]_vars, \A n \in Nodes : ~ClaimJob(n)
  PROVE  KeepsJobs
<1> USE DEF cfgVars, nodeVars, sessVars, tally
<1>1. ASSUME UNCHANGED run PROVE KeepsJobs
  BY <1>1 DEF KeepsJobs, Running
<1>2. ASSUME NEW r \in Runs, SameJob(r) PROVE KeepsJobs
  BY <1>2 DEF KeepsJobs, SameJob, Running
<1>3. ASSUME EndsOnly PROVE KeepsJobs
  BY <1>3, IdleParts DEF KeepsJobs, EndsOnly, Running
<1>4. ASSUME NEW n \in Nodes, CheckDue(n) \/ LockConfig(n) PROVE KeepsJobs
  BY <1>1, <1>4 DEF CheckDue, LockConfig
<1>5. ASSUME NEW r \in Runs, JobStart(r) PROVE KeepsJobs
  BY <1>2, <1>5, StartEffect
<1>6. ASSUME NEW r \in Runs, JobUsers(r) \/ JobUser(r) PROVE KeepsJobs
  <2>1. PICK U : WorkOn(r, U)
    BY <1>6 DEF JobUsers, JobUser
  <2>2. Running(r)
    BY <1>6 DEF JobUsers, JobUser, Running
  <2> QED BY <1>2, <2>1, <2>2, WorkEffect
<1>7. ASSUME NEW r \in Runs, JobStamp(r) \/ JobRaises(r) PROVE KeepsJobs
  BY <1>3, <1>7, EndEffect
<1>8. ASSUME NEW n \in Nodes, Crash(n) PROVE KeepsJobs
  BY <1>3, <1>8, EndEffect
<1>9. ASSUME NEW s \in Sessions, CreateSession(s) PROVE KeepsJobs
  BY <1>1, <1>9 DEF CreateSession
<1>10. CASE RunMemoryGenerationJob \/ Tick \/ UNCHANGED vars
  BY <1>1, <1>10 DEF RunMemoryGenerationJob, Tick, vars
<1> QED BY <1>4, <1>5, <1>6, <1>7, <1>8, <1>9, <1>10 DEF Next, Watchdog, JobThread

\* A late job and "Run Now" are remembered for good.
LEMMA LatenessGrows == TypeOK /\ [Next]_vars /\ OnTime' => OnTime
<1> SUFFICES ASSUME TypeOK, [Next]_vars, OnTime' PROVE OnTime
  OBVIOUS
<1> USE DEF OnTime, tally
<1>1. resets \in Nat
  BY JobConstants DEF TypeOK
<1>2. CASE RunMemoryGenerationJob
  BY <1>1, <1>2 DEF RunMemoryGenerationJob
<1>3. CASE Tick \/ UNCHANGED vars
  <2>1. resets' = resets
    BY <1>3 DEF Tick, vars
  <2>2. late => late'
    BY <1>3, Zenon DEF Tick, vars
  <2> QED BY <2>1, <2>2
<1>4. ASSUME NEW n \in Nodes, Watchdog(n) \/ Crash(n) PROVE OnTime
  BY <1>4 DEF Watchdog, CheckDue, LockConfig, ClaimJob, Crash
<1>5. ASSUME NEW r \in Runs, JobThread(r) \/ JobRaises(r) PROVE OnTime
  BY <1>5 DEF JobThread, JobStart, JobUsers, JobUser, JobStamp, JobRaises
<1>6. ASSUME NEW s \in Sessions, CreateSession(s) PROVE OnTime
  BY <1>6 DEF CreateSession
<1> QED BY <1>2, <1>3, <1>4, <1>5, <1>6 DEF Next

\* Steps after which no new node is about to claim.
NoNewClaim ==
  \A n \in Nodes : npc'[n] = "claim" => npc[n] = "claim" /\ kind'[n] = kind[n] /\ holder' = holder

LEMMA ApartKept ==
  ASSUME Apart, KeepsJobs, NoNewClaim, UNCHANGED <<now, marker>>
  PROVE  Apart'
BY DEF Apart, Marked, ClaimsAlone, OneEach, Running, KeepsJobs, NoNewClaim

LEMMA LockHeldKept == ASSUME LockHeld, NoNewClaim PROVE LockHeld'
BY DEF LockHeld, NoNewClaim

LEMMA NextJobEffect ==
  ASSUME TypeOK, NEW n \in Nodes, NextJob(n)
  PROVE  /\ npc'[n] = "check"
         /\ \A m \in Nodes \ {n} : npc'[m] = npc[m] /\ kind'[m] = kind[m]
BY DEF TypeOK, NextJob

\* What a step of watchdog n does to who is about to claim.
LEMMA LockConfigEffect ==
  ASSUME TypeOK, NEW n \in Nodes, LockConfig(n)
  PROVE  \/ NoNewClaim
         \/ /\ holder = NoNode /\ holder' = n /\ Due(kind[n]) /\ UNCHANGED kind
            /\ \A m \in Nodes \ {n} : npc'[m] = npc[m]
<1>1. CASE holder = NoNode /\ StillDue(kind[n]) /\ \E r \in Runs : ~Running(r)
  BY <1>1 DEF LockConfig, StillDue, TypeOK
<1>2. CASE ~(holder = NoNode /\ StillDue(kind[n]) /\ \E r \in Runs : ~Running(r))
  <2>1. NextJob(n) /\ UNCHANGED holder
    BY <1>2 DEF LockConfig
  <2> QED BY <2>1, NextJobEffect DEF NoNewClaim
<1> QED BY <1>1, <1>2

LEMMA OverlapStep == TypeOK /\ OverlapInv /\ [Next]_vars => OverlapInv'
<1> SUFFICES ASSUME TypeOK, OverlapInv, [Next]_vars PROVE OverlapInv'
  OBVIOUS
<1> USE DEF OverlapInv, cfgVars, nodeVars, sessVars, tally
<1>0. OnTime' => OnTime
  BY LatenessGrows
<1>1. ASSUME KeepsJobs, NoNewClaim, UNCHANGED <<now, marker>> PROVE OverlapInv'
  BY <1>0, <1>1, ApartKept, LockHeldKept
<1>2. ASSUME NEW n \in Nodes, CheckDue(n) PROVE OverlapInv'
  <2>1. NoNewClaim
    <3>1. CASE Due(kind[n])
      BY <1>2, <3>1 DEF CheckDue, NoNewClaim, TypeOK
    <3>2. CASE ~Due(kind[n])
      BY <1>2, <3>2, NextJobEffect DEF CheckDue, NoNewClaim
    <3> QED BY <3>1, <3>2
  <2>2. UNCHANGED <<now, marker, run>>
    BY <1>2 DEF CheckDue
  <2> QED BY <1>1, <2>1, <2>2 DEF KeepsJobs, Running
<1>3. ASSUME NEW n \in Nodes, LockConfig(n) PROVE OverlapInv'
  <2>1. UNCHANGED <<now, marker, run, late, resets>>
    BY <1>3 DEF LockConfig
  <2>2. CASE NoNewClaim
    BY <1>1, <2>1, <2>2 DEF KeepsJobs, Running
  <2>3. CASE /\ holder = NoNode /\ holder' = n /\ Due(kind[n]) /\ UNCHANGED kind
             /\ \A m \in Nodes \ {n} : npc'[m] = npc[m]
    <3>1. \A m \in Nodes \ {n} : npc'[m] # "claim"
      BY <2>3, JobConstants DEF LockHeld
    <3>2. LockHeld'
      BY <2>3, <3>1 DEF LockHeld
    <3>3. ASSUME OnTime, NEW r \in Runs, Running(r) PROVE run[r].job # kind[n]
      <4>1. SUFFICES ASSUME run[r].job = kind[n] PROVE FALSE
        OBVIOUS
      <4>2. marker[kind[n]] = run[r].claimed /\ now - run[r].claimed < Hour
        BY <3>3, <4>1 DEF Apart, Marked
      <4>3. run[r].claimed \in Nat /\ now \in Nat
        BY Times
      <4>4. run[r].claimed = Never \/ now - run[r].claimed >= Hour
        BY <2>3, <4>2, Zenon DEF Due, MarkerFree
      <4>5. Hour \in Nat
        BY JobConstants
      <4> QED BY <4>2, <4>3, <4>4, <4>5 DEF Never
    <3>4. OnTime' => Marked' /\ OneEach'
      BY <1>0, <2>1 DEF Apart, Marked, OneEach, Running
    <3>5. OnTime' => ClaimsAlone'
      BY <1>0, <2>1, <2>3, <3>1, <3>3 DEF ClaimsAlone, Running
    <3> QED BY <3>2, <3>4, <3>5 DEF Apart
  <2> QED BY <1>3, <2>2, <2>3, LockConfigEffect
<1>4. ASSUME NEW n \in Nodes, ClaimJob(n) PROVE OverlapInv'
  <2>1. PICK r \in Runs :
          /\ ~Running(r)
          /\ run'[r].pc = "start" /\ run'[r].job = kind[n] /\ run'[r].claimed = now
          /\ \A q \in Runs \ {r} : run'[q] = run[q]
    BY <1>4, ClaimEffect
  <2>2. /\ npc[n] = "claim" /\ now' = now /\ NextJob(n)
        /\ marker' = [marker EXCEPT ![kind[n]] = now]
    BY <1>4 DEF ClaimJob
  <2>3. \A m \in Nodes : npc'[m] # "claim"
    BY <2>2, NextJobEffect DEF LockHeld
  <2>4. ASSUME OnTime PROVE OneEach'
    BY <2>1, <2>2, <2>4 DEF Apart, ClaimsAlone, OneEach, Running
  <2>5. ASSUME OnTime PROVE Marked'
    <3>1. \A j \in Jobs : j # kind[n] => marker'[j] = marker[j]
      BY <2>2 DEF TypeOK
    <3>2. marker'[kind[n]] = now /\ now - now < Hour
      BY <2>2, JobConstants DEF TypeOK
    <3>3. \A q \in Runs : run[q].job \in Jobs
      BY Times
    <3>4. \A q \in Runs : Running(q) => run[q].job # kind[n]
      BY <2>2, <2>5 DEF Apart, ClaimsAlone
    <3> QED BY <2>1, <2>2, <2>5, <3>1, <3>2, <3>3, <3>4 DEF Apart, Marked, Running
  <2> QED BY <1>0, <2>3, <2>4, <2>5 DEF Apart, ClaimsAlone, LockHeld
<1>5. ASSUME NEW r \in Runs, JobThread(r) \/ JobRaises(r) PROVE OverlapInv'
  <2>1. UNCHANGED <<now, marker, npc, kind, holder>>
    BY <1>5 DEF JobThread, JobStart, JobUsers, JobUser, JobStamp, JobRaises
  <2>2. NoNewClaim
    BY <2>1 DEF NoNewClaim
  <2>3. KeepsJobs
    <3>1. \A n \in Nodes : npc'[n] = npc[n]
      BY <2>1
    <3>2. \A n \in Nodes : ~ClaimJob(n)
      BY <3>1, NextJobEffect DEF ClaimJob
    <3> QED BY <3>2, OnlyClaimsStart
  <2> QED BY <1>1, <2>1, <2>2, <2>3
<1>6. ASSUME NEW n \in Nodes, Crash(n) PROVE OverlapInv'
  <2>1. UNCHANGED <<now, marker>> /\ KeepsJobs
    BY <1>6, EndEffect, IdleParts DEF Crash, EndsOnly, KeepsJobs, Running
  <2>2. NoNewClaim
    BY <1>6 DEF Crash, NoNewClaim, LockHeld, TypeOK
  <2> QED BY <1>1, <2>1, <2>2
<1>7. ASSUME NEW s \in Sessions, CreateSession(s) PROVE OverlapInv'
  BY <1>1, <1>7 DEF CreateSession, KeepsJobs, NoNewClaim, Running
<1>8. CASE RunMemoryGenerationJob
  <2>1. resets' # 0
    BY <1>8, JobConstants DEF RunMemoryGenerationJob, TypeOK
  <2> QED BY <1>8, <2>1 DEF RunMemoryGenerationJob, LockHeld, OnTime
<1>9. CASE Tick
  <2>1. UNCHANGED <<run, marker, holder, npc, kind>>
    BY <1>9 DEF Tick
  <2>2. ~late' => \A r \in Runs : Running(r) => ~(now' - run[r].claimed >= Hour)
    BY <1>9 DEF Tick
  <2>3. \A r \in Runs : run[r].claimed \in Nat
    BY Times
  <2>4. now' \in Nat /\ Hour \in Nat
    BY <1>9, JobConstants DEF Tick, TypeOK
  <2>5. OnTime' => Marked'
    BY <1>0, <2>1, <2>2, <2>3, <2>4 DEF OnTime, Apart, Marked, Running
  <2> QED BY <1>0, <2>1, <2>5 DEF Apart, ClaimsAlone, OneEach, LockHeld, Running
<1>10. CASE UNCHANGED vars
  BY <1>1, <1>10 DEF vars, KeepsJobs, NoNewClaim, Running
<1> QED BY <1>2, <1>3, <1>4, <1>5, <1>6, <1>7, <1>8, <1>9, <1>10 DEF Next, Watchdog

\* As long as jobs end within the life of their marker and nobody presses "Run
\* Now", no job runs twice at a time on any nodes.
THEOREM JobsApart == Spec => []NoOverlap
<1>1. OverlapInv => NoOverlap
  BY DEF OverlapInv, OnTime, Apart, OneEach, NoOverlap
<1> QED BY TypeCorrect, OverlapInit, OverlapStep, <1>1, PTL DEF Spec

(***************************************************************************)
(* The pace.  As long as jobs are on time, last_run of a job that is       *)
(* claimed or runs lies a period before the time it will be stamped with.  *)
(***************************************************************************)
\* A run of job j that starts at t starts a period after the last one.
PeriodBefore(j, t) ==
  lastRun[j] # Never =>
    IF j = "memory" THEN t - lastRun[j] >= Day ELSE t \div Day > lastRun[j] \div Day

ClaimsPaced == \A n \in Nodes : npc[n] = "claim" => PeriodBefore(kind[n], now)

RunsPaced ==
  \A r \in Runs :
    Running(r) => PeriodBefore(run[r].job, IF run[r].pc = "start" THEN now ELSE run[r].began)

PaceInv == OnTime => ClaimsPaced /\ RunsPaced

LEMMA DivGrows ==
  ASSUME NEW a \in Nat, NEW b \in Nat, NEW d \in Nat, a <= b, d > 0
  PROVE  a \div d <= b \div d
OBVIOUS

LEMMA PeriodGrows ==
  ASSUME TypeOK, NEW j \in Jobs, NEW a \in Nat, NEW b \in Nat, a <= b, PeriodBefore(j, a)
  PROVE  PeriodBefore(j, b)
<1>1. Day \in Nat /\ Day > 0
  BY JobConstants
<1>2. CASE lastRun[j] = Never
  BY <1>2 DEF PeriodBefore
<1>3. CASE lastRun[j] # Never
  <2>1. lastRun[j] \in Nat
    BY <1>3 DEF TypeOK
  <2>2. CASE j = "memory"
    BY <1>1, <1>3, <2>1, <2>2 DEF PeriodBefore
  <2>3. CASE j # "memory"
    <3>1. a \div Day <= b \div Day /\ a \div Day > lastRun[j] \div Day
      BY <1>1, <1>3, <2>3, DivGrows DEF PeriodBefore
    <3>2. a \div Day \in Int /\ b \div Day \in Int /\ lastRun[j] \div Day \in Int
      BY <1>1, <2>1
    <3> QED BY <2>3, <3>1, <3>2 DEF PeriodBefore
  <2> QED BY <2>2, <2>3
<1> QED BY <1>2, <1>3

LEMMA PeriodStarts ==
  ASSUME TypeOK, NothingInTheFuture, NEW j \in Jobs, PeriodOver(j)
  PROVE  PeriodBefore(j, now)
<1>1. Day \in Nat /\ Day > 0 /\ now \in Nat
  BY JobConstants, Times
<1>2. CASE lastRun[j] = Never
  BY <1>2 DEF PeriodBefore
<1>3. CASE lastRun[j] # Never /\ j = "memory"
  BY <1>3 DEF PeriodBefore, PeriodOver
<1>4. CASE lastRun[j] # Never /\ j # "memory"
  <2>1. lastRun[j] \in Nat /\ lastRun[j] <= now
    BY <1>4 DEF TypeOK, NothingInTheFuture
  <2>2. lastRun[j] \div Day <= now \div Day /\ now \div Day # lastRun[j] \div Day
    BY <1>1, <1>4, <2>1, DivGrows DEF PeriodOver
  <2>3. now \div Day \in Int /\ lastRun[j] \div Day \in Int
    BY <1>1, <2>1
  <2> QED BY <1>4, <2>2, <2>3 DEF PeriodBefore
<1> QED BY <1>2, <1>3, <1>4

LEMMA PaceInit == Init => PaceInv
BY DEF Init, PaceInv, ClaimsPaced, RunsPaced, Running, Idle

\* A thread that runs after the step ran before it, with the same job and start.
KeepsRuns ==
  \A r \in Runs : run'[r].pc # "none" =>
    /\ Running(r) /\ run'[r].job = run[r].job /\ run'[r].began = run[r].began
    /\ run'[r].pc = "start" <=> run[r].pc = "start"

LEMMA PacedKept ==
  ASSUME ClaimsPaced, RunsPaced, KeepsRuns, NoNewClaim, UNCHANGED <<now, lastRun>>
  PROVE  ClaimsPaced' /\ RunsPaced'
<1>1. \A j, t : PeriodBefore(j, t)' <=> PeriodBefore(j, t')
  BY DEF PeriodBefore
<1> QED BY <1>1 DEF ClaimsPaced, RunsPaced, KeepsRuns, NoNewClaim, Running

LEMMA PaceStep ==
  TypeOK /\ CoverInv /\ OverlapInv /\ PaceInv /\ [Next]_vars => PaceInv'
<1> SUFFICES ASSUME TypeOK, CoverInv, OverlapInv, PaceInv, [Next]_vars, OnTime'
             PROVE ClaimsPaced' /\ RunsPaced'
  BY DEF PaceInv
<1> USE DEF cfgVars, nodeVars, sessVars, tally
<1>0. /\ OnTime /\ Apart /\ LockHeld /\ ClaimsPaced /\ RunsPaced /\ NothingInTheFuture
      /\ now \in Nat
  BY LatenessGrows, Times DEF OverlapInv, PaceInv, CoverInv
<1>1. ASSUME KeepsRuns, NoNewClaim, UNCHANGED <<now, lastRun>>
      PROVE ClaimsPaced' /\ RunsPaced'
  BY <1>0, <1>1, PacedKept
<1>2. ASSUME NEW n \in Nodes, CheckDue(n) PROVE ClaimsPaced' /\ RunsPaced'
  <2>1. NoNewClaim
    <3>1. CASE Due(kind[n])
      BY <1>2, <3>1 DEF CheckDue, NoNewClaim, TypeOK
    <3>2. CASE ~Due(kind[n])
      BY <1>2, <3>2, NextJobEffect DEF CheckDue, NoNewClaim
    <3> QED BY <3>1, <3>2
  <2>2. UNCHANGED <<now, lastRun, run>>
    BY <1>2 DEF CheckDue
  <2> QED BY <1>1, <2>1, <2>2 DEF KeepsRuns, Running
<1>3. ASSUME NEW n \in Nodes, LockConfig(n) PROVE ClaimsPaced' /\ RunsPaced'
  <2>1. UNCHANGED <<now, lastRun, run>>
    BY <1>3 DEF LockConfig
  <2>2. CASE NoNewClaim
    BY <1>1, <2>1, <2>2 DEF KeepsRuns, Running
  <2>3. CASE /\ holder = NoNode /\ holder' = n /\ Due(kind[n]) /\ UNCHANGED kind
             /\ \A m \in Nodes \ {n} : npc'[m] = npc[m]
    <3>1. PeriodBefore(kind[n], now)
      BY <1>0, <2>3, PeriodStarts DEF Due, TypeOK
    <3>2. ClaimsPaced'
      BY <1>0, <2>1, <2>3, <3>1 DEF ClaimsPaced, PeriodBefore
    <3>3. RunsPaced'
      BY <1>0, <2>1 DEF RunsPaced, Running, PeriodBefore
    <3> QED BY <3>2, <3>3
  <2> QED BY <1>3, <2>2, <2>3, LockConfigEffect
<1>4. ASSUME NEW n \in Nodes, ClaimJob(n) PROVE ClaimsPaced' /\ RunsPaced'
  <2>1. PICK r \in Runs :
          /\ run'[r].pc = "start" /\ run'[r].job = kind[n]
          /\ \A q \in Runs \ {r} : run'[q] = run[q]
    BY <1>4, ClaimEffect
  <2>2. npc[n] = "claim" /\ NextJob(n) /\ UNCHANGED <<now, lastRun>>
    BY <1>4 DEF ClaimJob
  <2>3. \A m \in Nodes : npc'[m] # "claim"
    BY <1>0, <2>2, NextJobEffect DEF LockHeld
  <2>4. PeriodBefore(kind[n], now)
    BY <1>0, <2>2 DEF ClaimsPaced
  <2>5. RunsPaced'
    BY <1>0, <2>1, <2>2, <2>4 DEF RunsPaced, Running, PeriodBefore
  <2> QED BY <2>3, <2>5 DEF ClaimsPaced
<1>5. ASSUME NEW r \in Runs, JobStart(r) PROVE ClaimsPaced' /\ RunsPaced'
  <2>1. SameJob(r) /\ run'[r].began = now /\ run'[r].pc # "start"
    BY <1>5, StartEffect
  <2>2. UNCHANGED <<now, lastRun, npc, kind>> /\ run[r].pc = "start"
    BY <1>5 DEF JobStart
  <2>3. RunsPaced'
    BY <1>0, <2>1, <2>2 DEF RunsPaced, Running, SameJob, PeriodBefore
  <2>4. ClaimsPaced'
    BY <1>0, <2>2 DEF ClaimsPaced, PeriodBefore
  <2> QED BY <2>3, <2>4
<1>6. ASSUME NEW r \in Runs, JobUsers(r) \/ JobUser(r) PROVE ClaimsPaced' /\ RunsPaced'
  <2>1. PICK U : WorkOn(r, U)
    BY <1>6 DEF JobUsers, JobUser
  <2>2. run[r].pc \in {"users", "work"} /\ UNCHANGED <<now, lastRun, npc, kind, holder>>
    BY <1>6 DEF JobUsers, JobUser
  <2>3. SameJob(r) /\ run'[r].began = run[r].began /\ run'[r].pc # "start"
    BY <2>1, <2>2, WorkEffect DEF Running
  <2>4. KeepsRuns /\ NoNewClaim
    BY <2>2, <2>3 DEF KeepsRuns, NoNewClaim, SameJob, Running
  <2> QED BY <1>1, <2>2, <2>4
<1>7. ASSUME NEW r \in Runs, JobStamp(r) PROVE ClaimsPaced' /\ RunsPaced'
  <2>1. /\ run' = [run EXCEPT ![r] = Idle] /\ run[r].pc = "stamp" /\ holder = NoNode
        /\ lastRun' = [lastRun EXCEPT ![run[r].job] = run[r].began]
        /\ UNCHANGED <<now, npc, kind>>
    BY <1>7 DEF JobStamp, StampTime
  <2>2. \A n \in Nodes : npc[n] # "claim"
    BY <1>0, <2>1, JobConstants DEF LockHeld
  <2>3. \A q \in Runs \ {r} : run'[q] = run[q]
    BY <2>1 DEF TypeOK
  <2>4. run'[r].pc = "none"
    BY <2>1, IdleParts DEF TypeOK
  <2>5. \A q \in Runs \ {r} : Running(q) => lastRun'[run[q].job] = lastRun[run[q].job]
    <3>1. \A q \in Runs \ {r} : Running(q) => run[q].job # run[r].job
      BY <1>0, <2>1 DEF Apart, OneEach, Running
    <3>2. \A q \in Runs : run[q].job \in Jobs
      BY Times
    <3> QED BY <2>1, <3>1, <3>2 DEF TypeOK
  <2>6. RunsPaced'
    BY <1>0, <2>1, <2>3, <2>4, <2>5 DEF RunsPaced, Running, PeriodBefore
  <2> QED BY <2>1, <2>2, <2>6 DEF ClaimsPaced
<1>8. ASSUME NEW r \in Runs, JobRaises(r) PROVE ClaimsPaced' /\ RunsPaced'
  <2>1. EndsOnly /\ UNCHANGED <<now, lastRun, npc, kind, holder>>
    BY <1>8, EndEffect DEF JobRaises
  <2>2. KeepsRuns /\ NoNewClaim
    BY <2>1, IdleParts DEF KeepsRuns, NoNewClaim, EndsOnly, Running
  <2> QED BY <1>1, <2>1, <2>2
<1>9. ASSUME NEW n \in Nodes, Crash(n) PROVE ClaimsPaced' /\ RunsPaced'
  <2>1. EndsOnly /\ UNCHANGED <<now, lastRun>>
    BY <1>9, EndEffect DEF Crash
  <2>2. KeepsRuns
    BY <2>1, IdleParts DEF KeepsRuns, EndsOnly, Running
  <2>3. NoNewClaim
    BY <1>0, <1>9 DEF Crash, NoNewClaim, LockHeld, TypeOK
  <2> QED BY <1>1, <2>1, <2>2, <2>3
<1>10. ASSUME NEW s \in Sessions, CreateSession(s) PROVE ClaimsPaced' /\ RunsPaced'
  BY <1>1, <1>10 DEF CreateSession, KeepsRuns, NoNewClaim, Running
<1>11. CASE RunMemoryGenerationJob
  BY <1>0, <1>11, JobConstants DEF RunMemoryGenerationJob, OnTime, TypeOK
<1>12. CASE Tick
  <2>1. now' = now + 1 /\ UNCHANGED <<lastRun, run, npc, kind>>
    BY <1>12 DEF Tick
  <2>2. \A j \in Jobs : PeriodBefore(j, now) => PeriodBefore(j, now')
    BY <1>0, <2>1, PeriodGrows
  <2>3. \A n \in Nodes : kind[n] \in Jobs
    BY DEF TypeOK
  <2>4. \A r \in Runs : run[r].job \in Jobs
    BY Times
  <2>5. \A j, t : PeriodBefore(j, t)' <=> PeriodBefore(j, t')
    BY <2>1 DEF PeriodBefore
  <2>6. ClaimsPaced'
    BY <1>0, <2>1, <2>2, <2>3, <2>5 DEF ClaimsPaced
  <2>7. RunsPaced'
    BY <1>0, <2>1, <2>2, <2>4, <2>5 DEF RunsPaced, Running
  <2> QED BY <2>6, <2>7
<1>13. CASE UNCHANGED vars
  BY <1>1, <1>13 DEF vars, KeepsRuns, NoNewClaim, Running
<1> QED BY <1>2, <1>3, <1>4, <1>5, <1>6, <1>7, <1>8, <1>9, <1>10, <1>11, <1>12, <1>13
        DEF Next, Watchdog, JobThread

\* Only the stamp moves last_run, when nobody presses "Run Now".
LEMMA PacedSteps ==
  TypeOK /\ PaceInv /\ [Next]_vars => (~late /\ resets' = 0 => \A j \in Jobs : Paced(j))
<1> SUFFICES ASSUME TypeOK, PaceInv, [Next]_vars, ~late, resets' = 0, NEW j \in Jobs
             PROVE Paced(j)
  OBVIOUS
<1> USE DEF cfgVars, tally
<1>1. ASSUME UNCHANGED lastRun PROVE Paced(j)
  BY <1>1 DEF Paced
<1>2. ASSUME NEW r \in Runs, JobStamp(r) PROVE Paced(j)
  <2>1. /\ lastRun' = [lastRun EXCEPT ![run[r].job] = run[r].began]
        /\ run[r].pc = "stamp" /\ UNCHANGED resets
    BY <1>2 DEF JobStamp, StampTime
  <2>2. PeriodBefore(run[r].job, run[r].began)
    BY <2>1 DEF PaceInv, OnTime, RunsPaced, Running
  <2>3. CASE j = run[r].job
    <3>1. lastRun'[j] = run[r].began
      BY <2>1, <2>3 DEF TypeOK
    <3> QED BY <2>2, <2>3, <3>1 DEF Paced, PeriodBefore
  <2>4. CASE j # run[r].job
    BY <2>1, <2>4 DEF Paced, TypeOK
  <2> QED BY <2>3, <2>4
<1>3. CASE RunMemoryGenerationJob
  BY <1>3, JobConstants DEF RunMemoryGenerationJob, TypeOK
<1>4. ASSUME NEW n \in Nodes, Watchdog(n) \/ Crash(n) PROVE Paced(j)
  BY <1>1, <1>4 DEF Watchdog, CheckDue, LockConfig, ClaimJob, Crash
<1>5. ASSUME NEW r \in Runs, JobStart(r) \/ JobUsers(r) \/ JobUser(r) \/ JobRaises(r)
      PROVE Paced(j)
  BY <1>1, <1>5 DEF JobStart, JobUsers, JobUser, JobRaises
<1>6. ASSUME NEW s \in Sessions, CreateSession(s) PROVE Paced(j)
  BY <1>1, <1>6 DEF CreateSession
<1>7. CASE Tick \/ UNCHANGED vars
  BY <1>1, <1>7 DEF Tick, vars
<1> QED BY <1>2, <1>3, <1>4, <1>5, <1>6, <1>7 DEF Next, JobThread

\* As long as jobs are on time and nobody presses "Run Now", the successful runs
\* of a job lie a period apart, and last_run never goes back.
THEOREM JobsPaced == Spec => DailyPace
<1>1. TypeOK /\ PaceInv /\ [Next]_vars => [~late /\ resets' = 0 => \A j \in Jobs : Paced(j)]_vars
  BY PacedSteps
<1> QED BY TypeCorrect, TypeInit, CoverInit, CoverStep, OverlapInit, OverlapStep, PaceInit, PaceStep,
           <1>1, PTL DEF Spec, DailyPace
=============================================================================
