----------------------------- MODULE DailyJobs -----------------------------
(***************************************************************************)
(* The two daily jobs of the watchdog (apps.py): memory generation and the *)
(* offload to cold storage.  Every node looks whether a job is due, claims *)
(* it with a marker in the one SiteConfiguration row, which it locks with  *)
(* NOWAIT, and runs it in a thread that stamps last_run when it succeeds.  *)
(* The memory job extracts memories from the sessions created since its    *)
(* last run (logic/memory.py).  The database locks rows (PostgreSQL) and    *)
(* both jobs are enabled.                                                  *)
(***************************************************************************)
EXTENDS Integers

CONSTANTS
  Nodes, NoNode,
  Runs,          \* job threads
  Sessions,
  Users,         \* Pro-tier users
  Owner,         \* Owner[s]: the user of session s
  Hour, Day,     \* life of a marker, period of the jobs
  MaxTime,       \* bound on the clock, counted from the start
  MaxFaults,     \* bound on crashes and database errors
  MaxFailures,   \* bound on batches whose LLM calls fail for good
  MaxResets      \* bound on "Run Memory Generation Job Now"

ASSUME JobConstants ==
  /\ NoNode \notin Nodes
  /\ Owner \in [Sessions -> Users]
  /\ Hour \in Nat \ {0} /\ Day \in Nat /\ Hour <= Day
  /\ MaxTime \in Nat /\ MaxFaults \in Nat /\ MaxFailures \in Nat /\ MaxResets \in Nat

VARIABLES
  now,
  lastRun, marker,   \* columns *_last_run and *_worker_start, by job
  holder,            \* node that has the configuration row locked
  npc, kind,         \* watchdog of node n: its step, the job it looks at
  run,               \* job threads
  created, scanned,  \* sessions: created_at, memories were extracted from it
  late,              \* a job has outlived its marker
  faults, failures, resets

cfgVars  == <<lastRun, marker>>
nodeVars == <<npc, kind>>
sessVars == <<created, scanned>>
tally    == <<faults, failures, resets>>
vars     == <<now, cfgVars, holder, nodeVars, run, sessVars, late, tally>>

Jobs    == {"memory", "offload"}
Never   == -1   \* NULL
NodePcs == {"check", "lock", "claim"}
RunPcs  == {"none", "start", "users", "work", "stamp"}

\* A thread has its job and node, since_dt, start_time, the time its node
\* claimed the job, and the users it has still to process.
Threads ==
  [pc : RunPcs, job : Jobs, home : Nodes \cup {NoNode}, from : Nat, began : Nat,
   claimed : Nat, todo : SUBSET Users]

Idle == [pc |-> "none", job |-> "memory", home |-> NoNode, from |-> 0, began |-> 0,
         claimed |-> 0, todo |-> {}]

OtherJob(j) == IF j = "memory" THEN "offload" ELSE "memory"

Running(r) == run[r].pc # "none"

Init ==
  /\ now = Day
  /\ lastRun = [j \in Jobs |-> Never]
  /\ marker  = [j \in Jobs |-> Never]
  /\ holder  = NoNode
  /\ npc  = [n \in Nodes |-> "check"]
  /\ kind = [n \in Nodes |-> "memory"]
  /\ run  = [r \in Runs |-> Idle]
  /\ created = [s \in Sessions |-> Never]
  /\ scanned = {}
  /\ late = FALSE
  /\ faults = 0 /\ failures = 0 /\ resets = 0

(***************************************************************************)
(* _should_memory_worker_run and _should_offload_run.                      *)
(***************************************************************************)
\* The memory job waits a day, the offload job for another calendar day.
PeriodOver(j) ==
  \/ lastRun[j] = Never
  \/ j = "memory" /\ now - lastRun[j] >= Day
  \/ j = "offload" /\ now \div Day # lastRun[j] \div Day

MarkerFree(j) == marker[j] = Never \/ now - marker[j] >= Hour

\* Variant: the marker alone decides.
DueByMarker(j) == MarkerFree(j)

Due(j) == PeriodOver(j) /\ MarkerFree(j)

(***************************************************************************)
(* Watchdog: _handle_memory_generation, then                               *)
(* _offload_attached_files_to_cold_storage, in each scan.                  *)
(***************************************************************************)
NextJob(n) ==
  /\ npc'  = [npc EXCEPT ![n] = "check"]
  /\ kind' = [kind EXCEPT ![n] = OtherJob(@)]

CheckDue(n) ==
  /\ npc[n] = "check"
  /\ IF Due(kind[n])
     THEN npc' = [npc EXCEPT ![n] = "lock"] /\ UNCHANGED kind
     ELSE NextJob(n)
  /\ UNCHANGED <<now, cfgVars, holder, run, sessVars, late, tally>>

\* Variant: the condition is not looked at again under the lock.
NoRecheck(j) == TRUE

StillDue(j) == Due(j)

\* SELECT FOR UPDATE NOWAIT and the second look at the row, now locked.  A row
\* that another node holds raises OperationalError, one that is not due any more
\* is released at once.  (Bound: so is a row that finds no thread of Runs free.)
LockConfig(n) ==
  /\ npc[n] = "lock"
  /\ IF holder = NoNode /\ StillDue(kind[n]) /\ \E r \in Runs : ~Running(r)
     THEN holder' = n /\ npc' = [npc EXCEPT ![n] = "claim"] /\ UNCHANGED kind
     ELSE NextJob(n) /\ UNCHANGED holder
  /\ UNCHANGED <<now, cfgVars, run, sessVars, late, tally>>

\* Variant: a first run has no since_dt.
RawSince(j) == lastRun[j]

\* memory_last_run, or 1970.
SinceDt(j) == IF lastRun[j] = Never THEN 0 ELSE lastRun[j]

\* Set the marker and commit (since_dt was read under the same lock);
\* _run_job_and_update then starts the thread.
ClaimJob(n) ==
  /\ npc[n] = "claim"
  /\ marker' = [marker EXCEPT ![kind[n]] = now]
  /\ holder' = NoNode
  /\ \E r \in Runs :
       /\ ~Running(r)
       /\ run' = [run EXCEPT ![r] =
            [Idle EXCEPT !.pc = "start", !.job = kind[n], !.home = n,
                         !.from = SinceDt(kind[n]), !.claimed = now]]
  /\ NextJob(n)
  /\ UNCHANGED <<now, lastRun, sessVars, late, tally>>

(***************************************************************************)
(* The job thread.                                                         *)
(***************************************************************************)
JobStart(r) ==
  /\ run[r].pc = "start"
  /\ run' = [run EXCEPT ![r].began = now,
                        ![r].pc = IF run[r].job = "memory" THEN "users" ELSE "stamp"]
  /\ UNCHANGED <<now, cfgVars, holder, nodeVars, sessVars, late, tally>>

\* Sessions of u with created_at >= since_dt, as a query of thread r sees them.
SessionsSince(r, u) ==
  {s \in Sessions : Owner[s] = u /\ created[s] # Never /\ created[s] >= run[r].from}

\* Thread r goes on with the users in U.
WorkOn(r, U) ==
  run' = [run EXCEPT ![r].todo = U, ![r].pc = IF U = {} THEN "stamp" ELSE "work"]

\* run_memory_generation_job: the users who have such sessions.
JobUsers(r) ==
  /\ run[r].pc = "users"
  /\ WorkOn(r, {u \in Users : SessionsSince(r, u) # {}})
  /\ UNCHANGED <<now, cfgVars, holder, nodeVars, sessVars, late, tally>>

\* generate_memories_for_user: the sessions are queried again and memories are
\* extracted batch by batch; a batch that fails is logged and left out.
JobUser(r) ==
  /\ run[r].pc = "work"
  /\ \E u \in run[r].todo :
       /\ \E lost \in SUBSET SessionsSince(r, u) :
            /\ lost = {} \/ failures < MaxFailures
            /\ scanned' = scanned \cup (SessionsSince(r, u) \ lost)
            /\ failures' = IF lost = {} THEN failures ELSE failures + 1
       /\ WorkOn(r, run[r].todo \ {u})
  /\ UNCHANGED <<now, cfgVars, holder, nodeVars, created, late, faults, resets>>

\* Variant: stamped with the time at the end.
StampEnd(r) == now

StampTime(r) == run[r].began

\* The UPDATE waits for the lock of a node that is claiming.
JobStamp(r) ==
  /\ run[r].pc = "stamp"
  /\ holder = NoNode
  /\ lastRun' = [lastRun EXCEPT ![run[r].job] = StampTime(r)]
  /\ run' = [run EXCEPT ![r] = Idle]
  /\ UNCHANGED <<now, marker, holder, nodeVars, sessVars, late, tally>>

(***************************************************************************)
(* Faults, users, administrators, time.                                    *)
(***************************************************************************)
Fault == faults < MaxFaults /\ faults' = faults + 1

\* The job raises, or its thread is not started: nothing is stamped.
JobRaises(r) ==
  /\ Fault
  /\ Running(r)
  /\ run' = [run EXCEPT ![r] = Idle]
  /\ UNCHANGED <<now, cfgVars, holder, nodeVars, sessVars, late, failures, resets>>

\* A node dies with its job threads and comes back.
Crash(n) ==
  /\ Fault
  /\ npc'  = [npc EXCEPT ![n] = "check"]
  /\ kind' = [kind EXCEPT ![n] = "memory"]
  /\ holder' = IF holder = n THEN NoNode ELSE holder
  /\ run' = [r \in Runs |-> IF run[r].home = n THEN Idle ELSE run[r]]
  /\ UNCHANGED <<now, cfgVars, sessVars, late, failures, resets>>

CreateSession(s) ==
  /\ created[s] = Never
  /\ created' = [created EXCEPT ![s] = now]
  /\ UNCHANGED <<now, cfgVars, holder, nodeVars, run, scanned, late, tally>>

\* SiteConfigurationAdmin: "Run Memory Generation Job Now".
RunMemoryGenerationJob ==
  /\ resets < MaxResets /\ holder = NoNode
  /\ marker'  = [marker EXCEPT !["memory"] = Never]
  /\ lastRun' = [lastRun EXCEPT !["memory"] = now - Day]
  /\ resets' = resets + 1
  /\ UNCHANGED <<now, holder, nodeVars, run, sessVars, late, faults, failures>>

\* A job is late when its marker runs out before it ends.
Tick ==
  /\ now < Day + MaxTime
  /\ now' = now + 1
  /\ late' = (late \/ \E r \in Runs : Running(r) /\ now' - run[r].claimed >= Hour)
  /\ UNCHANGED <<cfgVars, holder, nodeVars, run, sessVars, tally>>

Watchdog(n)  == CheckDue(n) \/ LockConfig(n) \/ ClaimJob(n)
JobThread(r) == JobStart(r) \/ JobUsers(r) \/ JobUser(r) \/ JobStamp(r)

Next ==
  \/ \E n \in Nodes : Watchdog(n) \/ Crash(n)
  \/ \E r \in Runs : JobThread(r) \/ JobRaises(r)
  \/ \E s \in Sessions : CreateSession(s)
  \/ RunMemoryGenerationJob
  \/ Tick

Spec == Init /\ [][Next]_vars

(***************************************************************************)
(* Properties.                                                             *)
(***************************************************************************)
\* Type invariant of the configuration row, the watchdogs and the job threads.
TypeOK ==
  /\ now \in Day..(Day + MaxTime)
  /\ lastRun \in [Jobs -> {Never} \cup Nat]
  /\ marker \in [Jobs -> {Never} \cup Nat]
  /\ holder \in Nodes \cup {NoNode}
  /\ npc \in [Nodes -> NodePcs]
  /\ kind \in [Nodes -> Jobs]
  /\ run \in [Runs -> Threads]
  /\ created \in [Sessions -> {Never} \cup Nat]
  /\ scanned \in SUBSET Sessions
  /\ late \in BOOLEAN
  /\ faults \in 0..MaxFaults /\ failures \in 0..MaxFailures /\ resets \in 0..MaxResets

\* As long as jobs end within the hour of their marker, and nobody resets it, no
\* job runs twice at a time: the check, the lock and the second check of two
\* nodes, crashes and the shared row included.
NoOverlap ==
  ~late /\ resets = 0 =>
    \A q, r \in Runs : Running(q) /\ Running(r) /\ run[q].job = run[r].job => q = r

\* Two successful runs of a job are a period apart, and last_run never goes back.
Paced(j) ==
  lastRun'[j] # lastRun[j] /\ lastRun[j] # Never =>
    IF j = "memory" THEN lastRun'[j] - lastRun[j] >= Day
    ELSE lastRun'[j] \div Day > lastRun[j] \div Day
DailyPace == [][~late /\ resets' = 0 => \A j \in Jobs : Paced(j)]_vars

\* No session is passed over: when memory_last_run is later than its creation,
\* memories were extracted from it, whatever crashed, overlapped or was created
\* in the middle of a run.
NoSessionSkipped ==
  \A s \in Sessions :
    created[s] # Never /\ lastRun["memory"] > created[s] => s \in scanned

\* The same, as long as no batch was given up and nobody pressed "Run Now".
NoSessionSkippedUndisturbed == failures = 0 /\ resets = 0 => NoSessionSkipped
=============================================================================
