# TLA+ models of aiworks-core

aiworks-core is a Django library for applications that run LLM agents in the
background: sessions, a watchdog that hands their tasks to executor threads,
files with cold storage, user memories, desktop tunnels, MCP servers with OAuth.
The models here are translated from the Python source (paths below are relative
to `aiworks_core/`). `PROJECT.json` maps every definition to its lines.

## The system: inventory

| component | state | operations | what is hard |
|---|---|---|---|
| **Worker tasks** (`apps.py`, `logic/executor.py`, `models.py` WorkerTask) | one row per session: status, executor_id, alive_beat, retry_count; per process a semaphore and a thread pool | watchdog scan: retry failed, claim pending/stale, submit; executor: claim, heartbeat, run, write result | several nodes and threads on one row, crashes, slow threads, read-then-write, bounded pool |
| **Sessions and snapshots** (`logic/session_snapshot.py`, `apps.py` purge) | Session.is_deleted, SessionSnapshot rows, ZIPs in cold storage | delete, restore, purge; create and restore a snapshot | row and ZIP are not one transaction; purge against restore |
| **Files and cold storage** (`logic/files.py`, `logic/cold_storage.py`) | binary_content, the cold copy, TextAttachedFile cache | set, read, extract, summarise, daily offload, orphan purge | two stores without a common transaction, a cache invalidated without a lock |
| **Memories and background** (`logic/memory.py`, `logic/user_background.py`, signals in `apps.py`) | MemoryEntry rows, User.llm_generated_background | extract, compress, import, edit; recompute the background | read, minutes of LLM call, write; signals that bulk operations do not send |
| **Daily jobs** (`apps.py` `_handle_memory_generation`, `_offload_…`) | last_run and worker_start markers | claim under NOWAIT lock, run in a thread, stamp | markers that expire, overlapping runs |
| **Desktop tunnels** (`logic/mcp_tunnel.py`, `consumers.py`) | Tunnel row and alive_beat, `_relay_sync`, channel groups | connect, ping, relay a call, answer, time out | asynchronous messages, late and early answers, reconnects |
| **OAuth tokens** (`logic/mcp_tools.py`, `logic/oauth.py`) | MCPServer.token, refresh_token | read, refresh on 401, refresh on validation | refresh tokens rotate: a second use is rejected, a lost one is final |
| **Deep agent** (`logic/deepagent_utils.py`) | resume_state, agent result, output files | run, quality check, retry, resume | a crash between any two saves |
| **LLM calls** (`logic/llm.py`) | provider chain, attempt counters | retry, fall back, repair | many error paths |
| **Authentication** (`views/auth_views.py`, `views/jwt.py`) | VerificationToken, JWT blacklist | issue, confirm, expire | tokens that are read, used and deleted in separate statements by several requests |
| Conversions (`pptx_*`, `export`, `document_parser`), generators, e-mail | none | stateless | none for a model checker |

How they interact: the watchdog thread of each node (`_run_watchdog_step`, every
30 s) calls the worker-task, token, memory, purge and offload steps one after the
other. Executors read the session, run host code (`run_inner`), create snapshots
and write their row. Everything is shared through the database; rows are locked
only by `select_for_update`. Tunnels additionally use channel groups, and the
executor pool a process-wide semaphore.

What makes the parts correct:

* worker tasks: a task runs in one place at a time; an executor that lost its
  claim cannot write the row; slots neither leak nor are released twice; a task
  ends completed or fatally failed, whatever crashes;
* files: bytes once written stay readable from one of the two stores, for downloads,
  snapshots, the text cache and the agents that look into them;
* memories: what was stored is remembered, what was deleted is forgotten; a background
  that is not empty reflects the profile and memories it stands beside;
* daily jobs: no two runs of a job at a time, no session skipped;
* tunnels: a call gets its own answer or a failure, ends, and leaves nothing behind;
* OAuth: the stored refresh token is one its provider accepts;
* deep agents: a run ends with a report that is fit or an error, its files belong to the
  report, and every LLM call leaves its audit row;
* accounts: a password that was reset stays so, a mail resets it no more often than
  requests overlap or die, and who has registered can get in.

## Modules and plan

| part | modules | composition | runs | proofs |
|---|---|---|---|---|
| worker tasks | `WorkerTasks`, `WorkerTasksAdmin`, `TaskLifecycle` (abstract) | `WorkerTasks` implements `TaskLifecycle` | `tasks_*` | `WorkerTasksProofs`, `WorkerTasksExclusion` |
| daily jobs | `DailyJobs` | | `jobs_*` | `DailyJobsProofs` |
| files, cold storage, snapshots | `FileStore` | | `files` | `FileStoreProofs` |
| deep agent and its LLM calls | `LlmInvoke`, `DeepAgent`, `AgentRun` (abstract) | `DeepAgent` extends `LlmInvoke` and implements `AgentRun` | `agent_run` | `DeepAgentProofs` |
| desktop tunnels | `TunnelRelay`, `RemoteCall` (abstract) | `TunnelRelay` implements `RemoteCall` | `tunnel` | `TunnelRelayProofs` |
| OAuth tokens | `OAuthTokens` | `MCUserRows` | `user_rows` | `OAuthTokensProofs` |
| memories, background | `UserContext` | `MCUserRows` | `user_rows` | `UserRowsProofs` |
| accounts | `Accounts` | `MCUserRows` | `user_rows` | `UserRowsProofs` |

The parts meet in the database: `DailyJobs` says when the two jobs run that are a
process of `FileStore` and one of `UserContext`; an executor of `WorkerTasks` is, for
the time of `run_inner`, the thread of `DeepAgent`, whose `SaveFiles` is the writer of
`FileStore`; `TunnelChange` of `WorkerTasks` is what `tunnel.fresh` of `TunnelRelay`
is read for. Each model leaves the others' state to choice, which admits at least what
the composition does.

Every invariant and action property a passing run checks is proved for all values of the
constants, and the safety part of the three refinements (that of `WorkerTasks` has no
other part). What TLC alone checks is liveness: `EventuallyDecided`, `SlotsComeBack`, and that
a deep agent's run and a call through the tunnel end, which `ImplementsRun` and
`ImplementsRemoteCall` say besides; and the three violations.

## Worker tasks

### Modules

* **`TaskLifecycle`** – what the machinery promises of a row: the state machine of
  MANUAL.md 7.3 with the owner column. A task is handed out (possibly again, when
  its executor is believed dead), owned by one executor, ended by its owner,
  sorted into pending or fatal_failure. Restarting a stale task keeps it `running`:
  MANUAL.md 7.1 ("resets stale tasks … back to pending") describes it otherwise.
* **`WorkerTasks`** – the detailed model; implements `TaskLifecycle` with the identity mapping.
* **`WorkerTasksAdmin`** – the same with the admin change form, which loads a row
  and later writes all its columns.
* **`MCWorkerTasks`**, **`MCWorkerTasksAdmin`** – symmetry sets for TLC.
* **`WorkerTasksProofs`**, **`WorkerTasksExclusion`** – TLAPS proofs.

### State and actions

| model | code |
|---|---|
| `status owner beat retries` | columns status, executor_id, alive_beat, retry_count |
| `sess` | Session.is_deleted, and "purged" once the row is gone |
| `linked` | all `desktop_tunnel_servers` are connected |
| `wpc batch avail toRun` | the node's watchdog thread: where it is, the rows its open transaction has locked, available_slots, tasks_to_run |
| `free` | `_pool_semaphore._value` |
| `pc job home verdict caught` | an executor thread: where it is, task, node, the status it wants to write, whether it is in the except clause |

A watchdog scan is cut where other threads can interleave: the locking SELECT
(`HandleFailedSelect`, `HandlePendingSelect`), the commit (`HandleFailedCommit`,
`HandlePendingClaim`), the count of free slots before the transaction
(`PoolAvailableSlots`) and each submission after it (`SubmitWork`). An executor is
cut at each database statement: `ClaimTask` (lookup and conditional UPDATE),
`UpdateTaskRead` (SELECT and guards of `_update_task`), `UpdateTaskWrite` (its UPDATE,
fenced by executor_id), `ReleaseSlot` (the `finally` clauses). `Heartbeat` is its
second thread, which may beat once more after the last write. Progress updates use
the same `_update_task` but change no column a query reads, so they are stutters.

A row locked by a watchdog is skipped by another SELECT, blocks UPDATEs and does not
block reads. Its SELECT joins the session, so the session is locked too.

Time is one bit: `AgeBeat` makes a beat older than the 60 s thresholds. With `Timely`
it does so only when neither an executor nor a watchdog has the task in hand: beats
come every 5 s, and the watchdog submits right after it claims. Without `Timely` any
thread may stall, so that live executors are taken for dead.

Faults (`MaxFaults` bounds their number): a node crashes and restarts with an empty
pool; a watchdog transaction is rolled back; `create_executor` raises in the middle of
the loop; an executor's lookup or claim of its task fails (the thread ends);
`_update_task` fails in its read (raises) or in its UPDATE (swallowed).

### Runs and what they show

| run | instance | shows |
|---|---|---|
| `tasks_rows` | 1 task, 2 nodes, 3 executors, 1 slot each, 1 retry, 1 fault, desktop and deletion, stalls allowed | types, `RowConsistent`, `OwnerSeesRunning`, `EndedByOwner`, refinement of `TaskLifecycle` |
| `tasks_exclusive` | 2 tasks, 2 nodes, 4 executors, 1 slot each, 1 retry, 1 fault, timely | `ExclusiveExecution` |
| `tasks_pool` | 2 tasks, 1 node with 2 slots, 3 executors, 1 retry, 1 fault, timely, fair | `NeverRejected`, `SlotConservation`, `EventuallyDecided`, `SlotsComeBack` |
| `tasks_starvation` | 2 tasks, one of them waiting for its desktop, 1 slot, fair | violates `PendingPickedUp` |
| `tasks_cancel` | 1 task, 1 node, admin form | violates `CancelledStaysTerminal` |

Bounds. Rows interact only through slots and batches, so one task carries the
per-row properties and two tasks the rest; two nodes give every race of two scans,
and an old executor, a new one and a third that takes over from both need three
executors. One retry reaches both branches of the retry limit (MAX_RETRIES is 3);
one fault in every place, combined with stalls, gives an abandoned claim. Two slots
let a slot be returned while the other is taken. Executor ids are recycled only when
no row mentions them, so a small set stands for uuid4. Deadlock is checked in every
run: the watchdog never stops.

Fairness (`FairSpec`): weak fairness of each watchdog, which loops for ever and
swallows every exception; of each executor thread, which assumes that `run_inner`
returns; and of time. Users, desktops, heartbeats and faults owe nothing.
`EventuallyDecided` asks only that from some time on the session stays live and its
desktops connected. Its run has at least as many slots as tasks: the scan has no
ORDER BY, and `tasks_starvation` shows what a shorter slice does.

Findings: `_update_task` promises not to overwrite a cancelled task, but checks and
writes in two statements; sessions that wait for a desktop use up the sliced scan,
so that runnable tasks starve. Each is described in `PROJECT.json`.

### Proofs

All theorems are about `Spec` for any sets of tasks, nodes and executors (tasks and
executors finite), any pool size, retry limit and number of faults; the assumption is
`ConstantsAssumption` of `WorkerTasks`.

`WorkerTasksProofs`. Inductive invariant `Inv`:

* `TypeInv`: types, and every executor that is not idle has a task and a node. The upper
  bound of `free` in `TypeOK` is not inductive alone; it follows from slot conservation.
* `WatchdogSteps`: at which step of the scan batch, avail and toRun may be non-empty.
* `PoolInv`: `free[n]` plus the executors of n is the pool size, and avail and toRun of a
  watchdog never exceed `free[n]`: only the watchdog takes slots, so the count it read
  can only have grown. This gives `SlotConservation` and `NeverRejected`.
* `LocksInv`: batches of different nodes are disjoint, and rows in a batch are such as
  the query of that step selected; a lock protects this until the commit.
* `RowInv`: `RowConsistent`, `OwnerSeesRunning`, and that a task in `toRun` of a node was
  handed out. `OwnerSeesRunning` is what makes the others inductive: the owner's final
  UPDATE finds `running`, so that a failed row is never failed again or retried beneath it.

From `Inv` each step of `WorkerTasks` is a step of `TaskLifecycle` or a stutter
(`LifecycleImplemented`), and only the owner ends a task (`OnlyOwnersEnd`).

`WorkerTasksExclusion` adds the lease argument for `ExclusiveExecution`: under `Timely`
a task that a watchdog or an executor has in hand has a fresh beat and is running
(`HeldIsFresh`), so no scan selects it; therefore no second hand is added (`Exclusive`).

Only model-checked: the liveness properties `EventuallyDecided` and `SlotsComeBack`
(TLAPS as used here does not prove liveness), and the two violations.

## Daily jobs

`DailyJobs` models both daily jobs of the watchdog and, for the memory job, which
sessions it reads; `MCDailyJobs` instantiates it and `DailyJobsProofs` holds the proofs.

| model | code |
|---|---|
| `lastRun marker` | memory_last_run / offload_last_run, mem_worker_start / offload_worker_start of the one SiteConfiguration row |
| `holder` | the node whose open transaction has that row locked |
| `npc kind` | the watchdog of a node: where it is, and in which of the two jobs |
| `run` | the threads of `_run_job_and_update`: step, job, since_dt, start_time, users to go |
| `created scanned` | Session.created_at, and whether an extraction over the session succeeded |
| `late failures resets` | history: a job outlived its marker, batches given up, presses of "Run Memory Generation Job Now" |

The watchdog is cut at the first look at the row (`CheckDue`), the locking SELECT with
the second look (`LockConfig`; a locked row or one that is not due any more ends the
step) and the UPDATE with the start of the thread (`ClaimJob`). A thread notes its
start time (`JobStart`), queries the users (`JobUsers`), handles them in any order
(`JobUser`: the sessions are queried again, any part of them may be given up), and
stamps (`JobStamp`, which waits for the row lock). `JobRaises` covers every
exception before the stamp, `Crash` a dying process. Time is a clock; a session counts
as visible from its created_at on. Row locks are those of PostgreSQL (SQLite has none),
and memory generation is switched on.

| run | instance | shows |
|---|---|---|
| `jobs_claims` | 2 nodes, 2 threads, no sessions, markers of 2, days of 3, clock 3..6, 1 fault, 1 press of Run Now | types, `NoOverlap`, `DailyPace` |
| `jobs_sessions` | 1 node, 2 threads, 2 sessions of 2 users, same clock, 1 fault, 1 failed batch | `NoSessionSkippedUndisturbed` |
| `jobs_skipped` | the same without faults | violates `NoSessionSkipped` |

Bounds. Claims and sessions meet only through since_dt and the stamp, so that two
instances replace one that is too large. Two threads overlap, two nodes race for the
row. The clock lets a marker expire under a running job (3 to 5) and a second daily
run follow the first (3 to 6); markers live less long than the period. No fairness:
nothing here promises that a job runs.

Finding: a batch that fails is swallowed, the job counts as a success and last_run
advances, although the watchdog's docstring promises not to skip work silently.
"Run Now" sets memory_last_run to a day ago even when it was older; what the
properties say holds up to the first press.

Proofs (assumption `JobConstants`, any sets and periods). `TypeOK` is inductive.
`NothingSkipped` rests on `CoverInv`: no time lies in the future, everything older
than a since_dt was scanned (`SinceCovered`), everything older than the start of a
run was scanned or belongs to a user it has still to process (`TodoCovered`), and all
of it once the thread is about to stamp (`StampCovered`). Overlapping runs do not
disturb it, and therefore neither do late jobs. `JobsApart` rests on `OverlapInv`: a
node about to claim holds the lock (`LockHeld`), a job that runs on time is covered by
its marker (`Marked`), hence no node is about to claim a job that runs
(`ClaimsAlone`). `JobsPaced` adds `PaceInv`: last_run of a job that is claimed or
runs lies a period before the time it will be stamped with; for the offload job that
is a day number, by `DivGrows`.

## Files

`FileStore` models the attached files of one session: `MCFileStore`, `files.cfg`.

| model | code |
|---|---|
| `row` | AttachedFile rows: whether there, name, binary_content |
| `cold` | the folder attached_files of cold storage, by primary key |
| `text` | TextAttachedFile rows, and what bytes they were made from |
| `zip` | SessionSnapshot rows and their ZIPs |
| `online` | cold storage is configured and not offline |
| `wr` | one thread that does what the session's executor and its user do, in sequence: agent output (`SaveOutput`, `Append`, `DeleteOld`, `Create`), images, uploads, `set_binary_content` (`SetClear`, `SetStore`, `SetSave`), purge of unused images, snapshots and restores |
| `rd` | a download or `get_text_content`, which loads the row, reads bytes, caches text |
| `off orph sweep` | the watchdog: offload of one row under its lock, orphan purge, purge of the session |
| `want` | history: the bytes of the last finished write of a file |

A content is the set of the writes it is made of, so that appending to memory.md and an
empty file show. Every access to cold storage may fail (swallowed by the helpers), every
process die, cold storage go offline and come back, the session be deleted and restored.

* `ContentKept`: bytes written are in the column, or under the key in cold storage.
* `ReadsFind`: a reader that loaded the row before the offload still finds them.
* `TextFresh`: cached text is of the bytes the file has, unless a reader overlapped a
  replacement: `get_text_content` caches without a lock, and what it then caches stays stale.
* `SnapshotComplete`: a ZIP has what the session had when listed, unless a read failed;
  one that fails goes into the ZIP as an empty file (session_snapshot.py:80-82).
* `NothingOverlooked`: appended memories and referenced images survive, unless a read
  failed; then memory.md starts with "None" and a report refers to no image.

Bounds: two files, so that one is replaced, restored or read while another stands beside
it; one snapshot; the four kinds of files the code treats differently; two writes and one
fault. Assumptions: only reports refer to images, each that is not empty to the one there
is; the session's purge finds its last run over (the cutoff is days); hosts replace files
without offload_immediately. A restore that is cut off loses files, and purging removes
ZIPs of a session that is restored just then: the code promises nothing else. Dropping the
cached text and the cold copy is one step of `SetClear`, and `Append` does not cache the
text it reads, whose row goes with the file in the next step.

Proofs (assumption `FileConstants`: names are of the four kinds, Null is no file and no
content; any sets of files and snapshots, any bounds). `FileInv` has two layers.

`CoreInv` is about the bytes. `FilesInv`: what was never used has nothing, what was written
empty has nothing in cold storage, texts go with their rows, and `ContentKept`.
`OffloadInv`: the row the offload has locked keeps its column until the commit, and then
cold storage has the same bytes, unless a replacement has begun that brings its own.
`OrphanInv`: keys the orphan purge removes belong to rows that are gone, and rows do not
come back (keys are never used again; restoring makes new ones). `SetInv`: while a file is
replaced, its new bytes are in the writer's hands or in cold storage under an empty column.
`ReaderInv` and `TextFresh`: what a reader that nothing overlaps holds is what the file
has, or can be read with the column it loaded. The layer is inductive by itself: the
offload changes where bytes are but not what `get_binary_data` finds.

`PlanInv` is about the writer's plans: `NamesInv` (one file of a name), `ZipsInv` with
`SnapshotComplete`, and `WorkInv` with `NothingOverlooked`: it can read what it has loaded
(`LoadedInv`, from the layer below), what it owes is read or still to be read (`DueInv`),
and the names of new rows are free (`FreshInv`). From these follow the six theorems.

The attempt showed that `NothingOverlooked` was too strong as it stood, for three or more
faults: a session deleted and purged after the writer had loaded memory.md, whose object
the orphan purge then removes, makes it read nothing without an error. The property now
excepts a purged session, where what is appended goes nowhere.

## Deep agents and LLM calls

`LlmInvoke` is `invoke_llm` as one executor thread uses it, `DeepAgent` extends it by
`run_deep_agent_on_session`, `AgentRun` states what a run promises. `agent_run.cfg` checks
the invariants and the refinement.

| model | code |
|---|---|
| `config` | LLMConfiguration, LLMOperationConfig and prompts: usable, unset, set for the executor's own operations only, without the template, without a key |
| `call` | the top call and those of `spawn_subagent` in threads of their own: attempt, exception, answer, the attempt's backend (the agent's file system) and the context variable `_agent_backend_var` |
| `unlogged` | attempts that have no LLMDebugLog row yet |
| `run` | where `run_deep_agent` is: asking, checking, judged, saving; round, files merged so far, verdict |
| `out` | output_files of the present call, kept over its attempts |
| `session` | agent_result, prev_agent_result, is_agent_finished, output files |

An attempt resolves provider and prompts outside the try statement (`Unresolved`),
builds the agent (`Keyless` when that fails), runs, and ends in `Over`, where tenacity
retries what is not a ValueError. `ToolTimeout` ends the agent's wait for a sub-agent
but not the sub-agent. A report is fit or unfit (empty, or not accepted by schema and
validator); with a quality prompt another agent judges it; what does not pass goes back
up to `MaxRecoveries` times. Result and files are saved in two steps. The host may put a
report among the files (`Given`), fit or not, and force a run, or a clean one, which does
not start from the previous result. An agent may leave that report as it is, or write it
once more (`Left`): then it counts as written, and its text as the result, but
`Unlike` drops it from the files to save (deepagent_utils.py:192-195). An administrator
changes the configuration at any time, prompts only between processes.

* `AuditOwed`: each attempt that reached a provider leaves one row. (An attempt whose
  configuration cannot be resolved leaves none.)
* `BackendOfSpawner`: a sub-agent works on the files of the agent that spawned it,
  also on retries and after its parent ended.
* `FilesFollowResult`: a report of an agent that is shown is the one in the files, unless
  the run was cut off between the two saves. A text of the host that the agent wrote once
  more, or an edit that a later recovery undid, is the exception: it is shown and not
  saved, and the files keep the report of an earlier run, or none. The docstring of
  `invoke_llm` (llm.py:1428-1430) reads otherwise: seed files "are not re-persisted unless
  the agent overwrites them".
* `AssertOnlyUntouched`: the assertions after the checks fail only for an acceptable
  report that the agent was given and left alone.
* `MemoryKept`: memory.md has the traces of all calls of a run.
* `ImplementsRun` (safety and liveness): at most 1 + MaxRecoveries questions, then a fit
  report or an error; a finished report stays until it is refined or made again.

Bounds: two attempts and one recovery (the code's limits are 3 and 3: a first and a last
one have to be told apart, as `SaveLast` and `MergeReplacing` show), one sub-agent, one
tool call, two runs, one fault; with recovery and quality check and no template, and
without them and a template that is fit or not. TLC looks for cycles in this run, which
limits the number of states. The theorems hold for any number of recoveries and all kinds
of hosts; only that runs end is checked for these alone.
Backends are told apart from the one before by two names. Fairness: the thread of the run
and those of sub-agents go on, since requests have timeouts and an agent's loop a
recursion_limit (ChatOllama is built without a timeout, llm.py:360-364: with that provider
it is an assumption about the server); users, administrators and faults owe nothing.

Left out: calls without an agent, images, video and audio; the validation tools; prompt
compression; `auto_update_session=False`; sub-agents of sub-agents
(there is one thread). Writing the audit row is one step with the end of its attempt.

Proofs (assumptions `InvokeConstants`, `AgentConstants`: a finite set of sub-agents, at
least one attempt and one recovery). `AgentInv` is `CallInv`, which only steps of
`LlmInvoke` disturb, and what the handlers of the run disturb.

* `CallInv`: types, `AuditOwed`, and `BackendInv`: who runs has his backend in the context,
  a sub-agent's context is its origin's on every attempt, the executor's is empty when it
  does not run. `AuditOwed` is inductive on its own, once each step is shown to change at
  most one call (`OneCall`): the number of running attempts and of rows owed change
  together, also when a call is replaced, for which `TopInv` says that it is not running.
* `ReportInv`: a report that is checked by the agent, or was passed or found poor, is fit,
  be it written or given; one that is saved was written; between the two saves the result
  is that of the run; who wrote a report and what `Unlike` drops agree on the
  host's texts. From this `FilesFollowResult` and `AssertOnlyUntouched`.
* `TraceInv`: the traces told in this run are in its files, those from before it in the
  session's; a call's own memory has none from before. From this `MemoryKept`.

`RunRefines` maps each handler to a step of `AgentRun` or a stutter, from the same invariant.

## Desktop tunnels

`TunnelRelay` models one tunnel with its row, the consumers of its sockets and the calls
of one process; `RemoteCall` is what a caller is promised: `tunnel.cfg`.

| model | code |
|---|---|
| `tunnel` | the Tunnel row: exists, has an owner, alive_beat younger than 60 s |
| `joined` | the consumers in the tunnel's group |
| `call` | pull_tools, push_call and get_servers by call id; "failed" is build_tunnel_tools before its second attempt |
| `relay` | `_relay_sync` |
| `listener inbox` | `listen_for_call_result` and its channel |
| `request ran` | requests on their way to a desktop, and who has run them |

A call makes its entry and starts its listener as a task, sends to the tunnel's group, and
waits. A message reaches those that are in the group at that time, so an answer that
precedes `ListenerJoins` is lost. `TimeoutNears` lets the listener's and the call's
timeouts run out in either order; what reached the process before is handled first.

* `EntriesOfCalls`: a call has an entry exactly while it waits; only a request that could
  not be sent leaves one behind for ever (mcp_tunnel.py:200 has no cleanup).
* `TimelyAnswerTaken`: an answer the listener got in time is returned.
* `ImplementsRemoteCall` (safety and liveness): a call returns what a desktop answered to
  this very call, or a failure; every connection runs it at most once; it ends.

Two sockets of a desktop that reconnects may both run a call: the group has both.
`is_connected` is true for up to a minute after the last of them has gone; calls then
time out. Bounds: two calls (one may be the repetition of the other), two sockets, one
failure of the channel layer; desktops and calls meet nowhere else. Fairness: only of a
call's own steps (`Advance`), since the event loop runs and timeouts pass. Left out: a
second connect message with another tunnel, the timeout of 600 s that agents put around
tools, the death of the process, with which its `_relay_sync` goes too.

Proofs (assumption `RelayConstants`: the outcomes of a call are told apart; any calls,
sockets and number of failures). Each call has its own invariant (`RelayInv`): `EntryKept`,
it has no result before it ends, and its entry while it waits; `HeardKept`, what its
listener heard in time is in the entry until the call takes it; `RunsOnce`, a connection has
a request before it runs it and not again, and what is in the inbox or the entry comes
from a connection that ran this very call. `EntriesOfCalls` and `TimelyAnswerTaken` follow;
`RelayRefines` maps a call to new, asked or done and uses `RunsOnce` for its answer.

## Rows of a user

Three modules have in common that a request reads a row and writes it after somebody
else may have done so. `MCUserRows` runs one of them per behaviour (`focus`), since they
share no state; `user_rows.cfg`.

**`OAuthTokens`**: `server` is the MCPServer row (refresh token, and the provider that
oauth_metadata names, which a change of the URL alone leaves), `lock` its
SELECT FOR UPDATE, `proc` the processes, `live home last` the provider's side, which may
rotate refresh tokens at every exchange. Requests of agents hold the lock from reading to
saving; loaders (`oauth_refresh`) exchange first and lock for the save, although the
comment there speaks of preventing lost updates; updates hold no lock and check the
connection between exchange and save; they may bring new tokens from `discover_oauth` and
`oauth_exchange`. `RefreshTokenKept`: the row's token is accepted or its successor about
to be saved, unless it was revoked, lost with a process, dropped by an update whose check
failed (mcp_views.py:240), or overwritten by one of the unlocked ways (`spoilt` says
which). `QueuedRequestsServed`: requests that queued for the lock are not refused because
of each other. Bounds: two requests, a loader, an update, two sites, three rotations, one loss.

**`UserContext`**: `user` has profile_context and llm_generated_background, `memories`
what the MemoryEntry rows say. Generators load, gather and store (with an LLM call of
minutes between); keepers extract, compress and import; a patch writes the row it read.
`Unsignalled` and `Cleared` are `bulk_create`, which sends no signal, and deletion, which
does. `BackgroundCurrent`: a background is what profile and memories say, unless one of
them changed while it was made, a patch set it back, or memories came by `bulk_create`
(the help text at models.py:36-40 says it is cleared whenever a memory changes).
`MemoriesKept`: only what was stored or deleted during an LLM call on the memories is
lost or back. The LLM is taken to lose no fact that it is shown. Bounds: one generator
(they meet only in the row), two keepers, one patch, two facts, two profiles.

**`Accounts`**: `account` is the password and email_verified of the row of one address
(or no row), `mail` its VerificationTokens, `handlers` the requests under way, `access`
that somebody has an access token. Each request is cut between reading a row and writing
it, and may be cut off. `AccountKept` has two parts: `SettingsKept`, the password is the
one set last, except that a PATCH of other settings writes back the one it read
(auth_views.py:576), and verification is never undone; and `WayIn`, who registered has a
token to verify with. `MailUses` counts how often a reset mail sets the password. The
code does not make that once: requests that follow the mail at the same time all read the
token before one of them deletes it (auth_views.py:280-303), and one that dies between
saving and deleting leaves it. What holds is at most once for each request handled at a
time and each that is cut off; hence once, where requests come one by one and none dies.
Two reset requests at a time may leave two valid tokens. Bounds: two
requests, two passwords, two reset mails, one death.

Left out: deleting a server, other kinds of authorization; extraction retries that store
a memory twice; logout and the JWT library, throttling, deactivated accounts, changes of
the e-mail address. No fairness: these handlers promise no progress of their own.

Proofs (assumptions `TokenConstants`, `UserConstants`, `AccountConstants`: processes of
different kinds are different, special values are told apart; any number of processes,
sites, facts, profiles, passwords and mails, any bounds).

* `OAuthTokensProofs`: `TokenInv` says that tokens are named in the order they were issued
  (`Known`); that a request with the lock has read the row as it is (`Locked`); that nobody
  else has heard of a token just issued (`Private`), so that it is good until it is saved
  (`HeldGood`); and that the row's own is used up only by who has its successor (`Kept`),
  unless `spoilt` names the reason. `Kept` is `RefreshTokenKept` in the form that is inductive.
* `UserRowsProofs`, `UserContext`: what each thread has read is still so, or it knows itself
  late, or what changed is among what it has missed (`UpToDate`).
* `UserRowsProofs`, `Accounts`: what each handler has read still says something of the row
  (`StillSo`): it is not deleted, its address stays verified, mails are sent once; who is
  signed in has verified. `MailsFit` strengthens `MailUses` to an inductive invariant: as
  long as a token can be read, its uses and the requests that have read it are no more
  than the requests on it (`Working`) and the deaths. A use moves a request from those that
  only have read it (`Following`) to the count; deleting the token ends the claim.
  `MailsAreUsed` follows for every number of handlers, among them one.
* `RowsTypeCorrect` puts the types of the three together.

| run | distinct states | shows |
|---|---|---|
| `files` | 2.9 million | `ContentKept`, `ReadsFind`, `TextFresh`, `SnapshotComplete`, `NothingOverlooked` |
| `agent_run` | 0.46 million | `AuditOwed`, `BackendOfSpawner`, `FilesFollowResult`, `AssertOnlyUntouched`, `MemoryKept`, refinement of `AgentRun` |
| `tunnel` | 0.35 million | `EntriesOfCalls`, `TimelyAnswerTaken`, refinement of `RemoteCall` |
| `user_rows` | 3.0 million | `RefreshTokenKept`, `QueuedRequestsServed`, `BackgroundCurrent`, `MemoriesKept`, `AccountKept`, `MailUses` |

These runs check no deadlock: bounds on writes, runs, calls, tokens and mails let the
models stop.

## Not modelled

Conversions of documents (`pptx_reader.py`, `pptx_generator.py`, `export.py`,
`document_parser.py`) and the generators of outside services have no state that steps of
several actors share; they are functions of one input, whose formats a model would only
repeat. The storage back ends behind `ColdStorageManager` are put, get and remove.
Notifications, help and the list views are one statement each. The admin and serializer
declarations are declarative. What each modelled part leaves out stands in its section and
in `PROJECT.json`.
