----------------------------- MODULE DeepAgent -----------------------------
(***************************************************************************)
(* run_deep_agent_on_session: an executor has a deep agent write a report    *)
(* for its session.  The report is checked by its schema and a validator     *)
(* and, where the host asks for it, by another agent; one that does not      *)
(* pass is given back to the agent up to _RECOVERY_MAX_ATTEMPTS times.  The  *)
(* result and then the files are saved to the session.                      *)
(*                                                                         *)
(* Two of the agent's files matter: the report, and memory.md, the trace of  *)
(* what the agent thought and did.  Both are named by the call of the run    *)
(* they are of, 0 for the first and n for the nth recovery; what is of an    *)
(* earlier run is by Before, and a text that hosts supply by Host, whoever   *)
(* has written it down again.                                               *)
(***************************************************************************)
EXTENDS LlmInvoke

CONSTANTS
  MaxRecoveries,   \* _RECOVERY_MAX_ATTEMPTS
  Options,         \* how hosts call it: recovery and quality check prompts, and
                   \* the report they put among the files, if any, as a template
  MaxRuns          \* bound on the runs of the session

(* a report: fit, or unfit (empty, or not accepted by the schema or the      *)
(* validator), and the call that wrote it                                   *)
Report(kind, by) == [kind |-> kind, by |-> by]
Kinds == {"fit", "unfit"}
Before == -1
Host   == -2
Reports == [kind : Kinds, by : Host .. MaxRecoveries]

ASSUME AgentConstants ==
  /\ MaxRecoveries \in Nat \ {0} /\ MaxRuns \in Nat
  /\ Options \subseteq [recovery : BOOLEAN, quality : BOOLEAN,
                         template : {"none"} \cup Kinds]
  /\ Null \notin Reports

VARIABLES
  session,   \* the session's row and its output files
  run,       \* the run the executor is in
  out,       \* output_files of the call that is made
  told,      \* history: the traces of the agent calls of this run that returned
  cut        \* history: a run ended after the result and before its files
             \* were saved

runVars == <<session, run, out, told, cut>>
vars    == <<invokeVars, runVars>>

NoFiles == [report |-> Null, memory |-> {}]

NoRun == [stage |-> "off", opts |-> Null, round |-> 0, seed |-> Null,
          files |-> NoFiles, verdict |-> "", error |-> ""]

AgentInit ==
  /\ Init
  /\ session = [finished |-> FALSE, result |-> Null, prev |-> Null,
                runs |-> 0, saved |-> NoFiles]
  /\ run = NoRun /\ out = NoFiles /\ told = {} /\ cut = FALSE

(* what was written before this run *)
Older(report) == IF report = Null THEN Null
                 ELSE [report EXCEPT !.by = IF @ = Host THEN Host ELSE Before]
OlderTraces(traces) == IF traces = {} THEN {} ELSE {Before}

Ended(e) == [NoRun EXCEPT !.stage = "ended", !.error = e, !.seed = run.seed,
                          !.files = run.files]

-----------------------------------------------------------------------------
(* run_deep_agent_on_session, up to the first call                         *)

(* a session that is finished is not run again unless forced *)
AlreadyFinished ==
  /\ run.stage = "off" /\ session.finished /\ session.runs < MaxRuns
  /\ run' = Ended("")
  /\ session' = [session EXCEPT !.runs = @ + 1]
  /\ UNCHANGED <<invokeVars, out, told, cut>>

(* the report in additional_attached_files *)
Given(o) == IF o.template = "none" THEN Null ELSE Report(o.template, Host)

(* The report among the files the agent finds: the one it is to refine, or    *)
(* what the host put there.                                                 *)
Seed(o, clean) == IF session.prev # Null /\ ~clean THEN Older(session.prev) ELSE Given(o)

(* The agent is asked for the first time. *)
Begin(o, force, clean) ==
  /\ run.stage = "off" /\ session.runs < MaxRuns
  /\ session.finished => force
  /\ run' = [NoRun EXCEPT !.stage = "asking", !.opts = o, !.seed = Seed(o, clean)]
  /\ session' = [session EXCEPT !.runs = @ + 1, !.prev = Older(@), !.result = Older(@),
       !.saved = [report |-> Older(@.report), memory |-> OlderTraces(@.memory)]]
  /\ call' = [call EXCEPT ![Top] = Invoked(o.recovery)]
  /\ out' = NoFiles /\ told' = OlderTraces(session.saved.memory)
  /\ UNCHANGED <<config, unlogged, faults, cut>>

(* knowledge bases, servers or files of the session cannot be used *)
PrepareFails ==
  /\ run.stage = "off" /\ ~session.finished /\ session.runs < MaxRuns
  /\ faults < MaxFaults
  /\ faults' = faults + 1
  /\ session' = [session EXCEPT !.runs = @ + 1]
  /\ run' = Ended("prepare")
  /\ UNCHANGED <<config, call, unlogged, out, told, cut>>

-----------------------------------------------------------------------------
(* The agent's call                                                        *)

Asking == run.stage = "asking"

(* what the callbacks can have collected of an agent; one that wrote a file   *)
(* has used a tool                                                          *)
Collected(w) == IF w = "untouched" THEN BOOLEAN ELSE {TRUE}

(* _build_memory_md: nothing if the agent neither thought nor used a tool *)
TraceOf(trace) == IF trace THEN {run.round} ELSE out.memory

(* what the agent has left of the report: one of its own, the host's once     *)
(* more (written over it, or an edit undone), or what there was              *)
Left(w) == CASE w \in Kinds -> Report(w, run.round)
             [] w = "given"  -> Given(run.opts)
             [] OTHER        -> out.report

(* The agent ends its turn, having left the report alone or written it.  The *)
(* files are taken over before the answer is looked at, and stay in          *)
(* output_files when the call is retried.                                   *)
AgentAnswers ==
  /\ Asking
  /\ \E got \in {"text", "blank"}, w \in Kinds \cup {"given", "untouched"} :
     \E trace \in Collected(w) :
       /\ w = "given" => Given(run.opts) # Null
       /\ Answered(Top, got)
       /\ out' = [report |-> Left(w), memory |-> TraceOf(trace)]
  /\ UNCHANGED <<session, run, told, cut>>

(* Variant: memory.md is replaced like any other file *)
MergeReplacing(old, new) ==
  [report |-> IF new.report # Null THEN new.report ELSE old.report,
   memory |-> IF new.memory # {} THEN new.memory ELSE old.memory]

(* merged_files: what this call wrote over what the ones before it wrote;    *)
(* memory.md is appended to                                                 *)
Merge(old, new) ==
  [report |-> IF new.report # Null THEN new.report ELSE old.report,
   memory |-> old.memory \cup new.memory]

(* The deterministic part of _perform_quality_check: what is wrong with the  *)
(* answer and the report, which may be one the agent was given.             *)
Structure(answer, files, seed) ==
  LET report == IF files.report # Null THEN files.report ELSE seed
  IN IF answer # "blank" /\ (IF report = Null THEN FALSE ELSE report.kind = "fit")
     THEN "sound" ELSE "fatal"

AgentReturned ==
  /\ Asking /\ call[Top].pc = "returned"
  /\ LET files == IF run.round = 0 THEN out ELSE Merge(run.files, out)
         found == Structure(call[Top].got, files, run.seed)
         inspect == found = "sound" /\ run.opts.quality
     IN /\ run' = [run EXCEPT !.files = files,
                     !.verdict = IF found = "sound" /\ ~inspect THEN "pass" ELSE found,
                     !.stage = IF inspect THEN "checking" ELSE "judged"]
        /\ call' = [call EXCEPT ![Top] = IF inspect THEN Invoked(FALSE) ELSE Taken]
  /\ told' = told \cup out.memory
  /\ UNCHANGED <<config, unlogged, faults, session, out, cut>>

AgentRaised ==
  /\ Asking /\ call[Top].pc = "raised"
  /\ run' = Ended("call")
  /\ call' = [call EXCEPT ![Top] = Taken]
  /\ UNCHANGED <<config, unlogged, faults, session, out, told, cut>>

-----------------------------------------------------------------------------
(* The quality check's agent: it approves or not; its files are dropped     *)

Checking == run.stage = "checking"

CheckerAnswers ==
  /\ Checking
  /\ \E got \in Answers \ {"text"} : Answered(Top, got)
  /\ UNCHANGED runVars

(* a check that fails to run counts as not approved *)
CheckerDone ==
  /\ Checking /\ call[Top].pc \in {"returned", "raised"}
  /\ run' = [run EXCEPT !.stage = "judged",
               !.verdict = IF call[Top].pc = "returned" /\ call[Top].got = "yes"
                           THEN "pass" ELSE "poor"]
  /\ call' = [call EXCEPT ![Top] = Taken]
  /\ UNCHANGED <<config, unlogged, faults, session, out, told, cut>>

-----------------------------------------------------------------------------
(* What becomes of the report                                              *)

Judged == run.stage = "judged"

(* Variant: after the last recovery whatever there is *)
AcceptableAtLast == run.verdict = "pass" \/ run.round = MaxRecoveries

(* a report that passed, or that only the quality agent still objects to     *)
(* after the last recovery, is the result                                   *)
Acceptable ==
  \/ run.verdict = "pass"
  \/ run.verdict = "poor" /\ run.round = MaxRecoveries

(* Variant: the result is looked for in what the last call wrote *)
AcceptLast ==
  /\ Judged /\ Acceptable
  /\ run' = IF out.report = Null THEN Ended("assert")
            ELSE [run EXCEPT !.stage = "save"]
  /\ UNCHANGED <<invokeVars, session, out, told, cut>>

(* assert report_file_data is not None: the result is what the agent wrote,  *)
(* while the checks also took what it was given                             *)
Accept ==
  /\ Judged /\ Acceptable
  /\ run' = IF run.files.report = Null THEN Ended("assert")
            ELSE [run EXCEPT !.stage = "save"]
  /\ UNCHANGED <<invokeVars, session, out, told, cut>>

Recover ==
  /\ Judged /\ run.verdict # "pass" /\ run.opts.recovery
  /\ run.round < MaxRecoveries
  /\ run' = [run EXCEPT !.stage = "asking", !.round = @ + 1]
  /\ out' = NoFiles
  /\ call' = [call EXCEPT ![Top] = Invoked(TRUE)]
  /\ UNCHANGED <<config, unlogged, faults, session, told, cut>>

Reject ==
  /\ Judged /\ ~Acceptable
  /\ run.round = MaxRecoveries \/ ~run.opts.recovery
  /\ run' = Ended("quality")
  /\ UNCHANGED <<invokeVars, session, out, told, cut>>

-----------------------------------------------------------------------------
(* Saving: the session's row first, its output files after it              *)

SaveSession ==
  /\ run.stage = "save"
  /\ session' = [session EXCEPT !.finished = TRUE, !.result = run.files.report]
  /\ run' = [run EXCEPT !.stage = "files"]
  /\ UNCHANGED <<invokeVars, out, told, cut>>

(* a file that is as the host has put it there is not saved *)
Unlike(given, files) ==
  [files EXCEPT !.report = IF @ = given THEN Null ELSE @]

(* Variant: the files of the last call *)
SaveLast ==
  /\ run.stage = "files"
  /\ session' = [session EXCEPT !.saved = Merge(@, Unlike(Given(run.opts), out))]
  /\ run' = Ended("") /\ cut' = FALSE
  /\ UNCHANGED <<invokeVars, out, told>>

(* save_generation_output_files, whose steps are those of FileStore: the     *)
(* report replaces the one before, memory.md is appended to                 *)
SaveFiles ==
  /\ run.stage = "files"
  /\ session' = [session EXCEPT !.saved = Merge(@, Unlike(Given(run.opts), run.files))]
  /\ run' = Ended("") /\ cut' = FALSE
  /\ UNCHANGED <<invokeVars, out, told>>

(* the database fails, or the session was deleted meanwhile and may not be   *)
(* updated                                                                  *)
SaveFails ==
  /\ run.stage \in {"save", "files"} /\ faults < MaxFaults
  /\ faults' = faults + 1
  /\ run' = Ended("save")
  /\ cut' = (cut \/ run.stage = "files")
  /\ UNCHANGED <<config, call, unlogged, session, out, told>>

-----------------------------------------------------------------------------
(* The executor, the user and the process                                  *)

Leave ==
  /\ run.stage = "ended"
  /\ run' = NoRun /\ out' = NoFiles /\ told' = {}
  /\ UNCHANGED <<invokeVars, session, cut>>

(* the host's Refine button *)
Refine ==
  /\ run.stage = "off" /\ session.finished
  /\ session' = [session EXCEPT !.prev = session.result, !.finished = FALSE,
                                !.result = Null]
  /\ UNCHANGED <<invokeVars, run, out, told, cut>>

(* the process dies; the task is claimed again and the session run anew *)
ProcessDies ==
  /\ run.stage # "off" /\ faults < MaxFaults
  /\ faults' = faults + 1
  /\ run' = NoRun /\ out' = NoFiles /\ told' = {}
  /\ call' = [c \in Calls |-> NoCall] /\ unlogged' = 0
  /\ cut' = (cut \/ run.stage = "files")
  /\ UNCHANGED <<config, session>>

-----------------------------------------------------------------------------
RunStep ==
  \/ Step(Top) /\ UNCHANGED runVars
  \/ AgentAnswers \/ AgentReturned \/ AgentRaised
  \/ CheckerAnswers \/ CheckerDone
  \/ Accept \/ Recover \/ Reject \/ SaveSession \/ SaveFiles

World ==
  \/ AlreadyFinished \/ \E o \in Options, force, clean \in BOOLEAN : Begin(o, force, clean)
  \/ Refine \/ ProcessDies \/ SaveFails \/ PrepareFails \/ Leave
  \/ \E v \in Configs : Configure(v) /\ UNCHANGED runVars

AgentNext == \/ RunStep \/ World
             \/ \E s \in Subs : SubStep(s) /\ UNCHANGED runVars

(* An agent's loop is bounded by recursion_limit and each request and tool   *)
(* call by a timeout, so the thread of a run goes on, and so do those of its *)
(* sub-agents.                                                              *)
AgentSpec == /\ AgentInit /\ [][AgentNext]_vars
             /\ WF_vars(RunStep)
             /\ \A s \in Subs : WF_vars(SubStep(s) /\ UNCHANGED runVars)

-----------------------------------------------------------------------------
(* Properties                                                              *)

Files == [report : Reports \cup {Null},
          memory : SUBSET (Before .. MaxRecoveries)]

Sessions == [finished : BOOLEAN, result : Reports \cup {Null},
             prev : Reports \cup {Null}, runs : 0 .. MaxRuns, saved : Files]

Runs == [stage   : {"off", "asking", "checking", "judged", "save", "files", "ended"},
         opts    : Options \cup {Null}, round : 0 .. MaxRecoveries,
         seed    : Reports \cup {Null}, files : Files,
         verdict : {"", "sound", "pass", "fatal", "poor"},
         error   : {"", "prepare", "call", "assert", "quality", "save"}]

TypeOK ==
  /\ InvokeTypeOK
  /\ session \in Sessions /\ run \in Runs /\ out \in Files
  /\ told \subseteq Before .. MaxRecoveries /\ cut \in BOOLEAN

(* A report of an agent that a finished session shows is the one in its       *)
(* files, unless the run was cut off between the two saves: nothing but a    *)
(* forced run then brings the files back, since a finished session is not    *)
(* run again.  Not so a text that the host supplied and the agent wrote down *)
(* again: it is shown, but taken for a file of the host's and not saved, and *)
(* the files keep the report of an earlier run, or none.                     *)
FilesFollowResult ==
  session.finished /\ run.stage # "files" /\ ~cut
    => session.saved.report = session.result \/ session.result.by = Host

(* The assertions after the checks fail only for a report the agent was      *)
(* given (to refine, or by the host) and left as it was.                    *)
AssertOnlyUntouched ==
  run.error = "assert" => /\ run.seed # Null /\ run.seed.kind = "fit"
                          /\ run.files.report = Null

(* memory.md has the trace of every call of the run that returned one, also  *)
(* of those whose report was sent back, and what it had before.             *)
MemoryKept ==
  /\ run.stage \in {"save", "files"} => told \ {Before} \subseteq run.files.memory
  /\ run.stage = "ended" /\ run.error = "" /\ ~cut => told \subseteq session.saved.memory

(* The run, as AgentRun has it. *)
Phase == CASE run.stage = "off" -> "off"
           [] run.stage \in {"files", "ended"} -> "ended"
           [] OTHER -> "working"
Asked == IF Phase = "working" THEN run.round + 1 ELSE 0
Shown == IF session.result = Null THEN Null ELSE session.result.kind

Run == INSTANCE AgentRun WITH
  Fit <- {"fit"}, NoReport <- Null, phase <- Phase, asked <- Asked, report <- Shown

(* A run is a run of AgentRun: at most 1 + MaxRecoveries questions, an end,  *)
(* and only fit reports, also where the last recovery gives up.             *)
ImplementsRun == Run!Spec
=============================================================================
