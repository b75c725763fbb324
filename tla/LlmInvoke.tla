----------------------------- MODULE LlmInvoke -----------------------------
(***************************************************************************)
(* invoke_llm, through which every LLM call of the library goes, as one     *)
(* executor thread uses it for its deep agents: a call resolves its         *)
(* configuration, runs an agent on a backend (the agent's file system),     *)
(* checks the answer, writes a row of LLMDebugLog, and is retried by        *)
(* tenacity unless it raised a ValueError.                                  *)
(*                                                                         *)
(* While the agent of the top call runs, its tool spawn_subagent may make    *)
(* further calls, each in a thread with a copy of the caller's context       *)
(* variables.  They work on the caller's backend.  The tool gives up after   *)
(* DEFAULT_TOOL_TIMEOUT, but its thread goes on.                             *)
(*                                                                         *)
(* What the agents write is the composing module's: DeepAgent.               *)
(***************************************************************************)
EXTENDS Integers, FiniteSets

CONSTANTS
  Subs,        \* threads of spawn_subagent
  Null,
  Attempts,    \* _RETRY_ATTEMPTS
  MaxTurns,    \* tool calls of one agent run: bounded by recursion_limit
  MaxFaults    \* bound on changes of the configuration and other faults

(* Backends are told apart from the one before: a new one has the name that  *)
(* the last one did not have.                                               *)
Backends == {0, 1}

ASSUME InvokeConstants ==
  /\ Attempts \in Nat \ {0} /\ MaxTurns \in Nat /\ MaxFaults \in Nat
  /\ IsFiniteSet(Subs) /\ "top" \notin Subs /\ Null \notin Backends

VARIABLES
  config,     \* the LLM configuration and prompts, as an administrator left them
  call,       \* the top call and those of sub-agents
  unlogged,   \* attempts begun that have no LLMDebugLog row yet
  faults

invokeVars == <<config, call, unlogged, faults>>

Top   == "top"
Calls == {Top} \cup Subs

(* "unset": no provider or model; "override": only for the operations that    *)
(* the executor's own calls are of, by rows of LLMOperationConfig; "noprompt":  *)
(* the template is not in the prompts file; "keyless": the provider's key is   *)
(* missing                                                                  *)
Configs == {"ready", "unset", "override", "noprompt", "keyless"}

NoCall == [pc |-> "idle", attempt |-> 1, lenient |-> FALSE, turns |-> 0,
           exp |-> "none", got |-> "", backend |-> Null, ctx |-> Null,
           parent |-> Null, origin |-> Null, waited |-> FALSE]

Init == /\ config = "ready"
        /\ call = [c \in Calls |-> NoCall]
        /\ unlogged = 0 /\ faults = 0

NewBackend(k) == IF k.backend = 0 THEN 1 ELSE 0

(* Variant: one variable for the whole process *)
GlobalBackend(c) == call[Top].ctx

(* the context variable of a thread: a sub-agent's is a copy *)
GetAgentBackend(c) == call[c].ctx

(* the backend an attempt works on: a new one, or the caller's *)
Backend(c) == IF c = Top THEN NewBackend(call[c]) ELSE GetAgentBackend(c)

(* invoke_llm(...) is called by the executor, with fail_on_empty_response =  *)
(* ~lenient; and its result or exception is taken                           *)
Invoked(lenient) ==
  [NoCall EXCEPT !.pc = "resolve", !.lenient = lenient, !.backend = call[Top].backend]
Taken == [NoCall EXCEPT !.backend = call[Top].backend]

(* the sub-agents an agent still waits for *)
Awaited(c) == {s \in Subs : call[s].waited /\ call[s].parent = c}

(* Variant: retried without end *)
RetriedForever(c, k) ==
  CASE k.exp = "error" -> [k EXCEPT !.pc = "resolve", !.attempt = @ + 1,
                                    !.exp = "none", !.got = "", !.turns = 0]
    [] k.exp = "value" -> IF c = Top THEN [k EXCEPT !.pc = "raised"] ELSE NoCall
    [] k.exp = "none" -> IF c = Top THEN [k EXCEPT !.pc = "returned"] ELSE NoCall

(* Tenacity retries an exception other than ValueError.  A sub-agent's answer *)
(* or exception goes back to the agent as a string, and is forgotten here.   *)
Settled(c, k) ==
  CASE k.exp = "error" /\ k.attempt < Attempts
       -> [k EXCEPT !.pc = "resolve", !.attempt = @ + 1, !.exp = "none",
                    !.got = "", !.turns = 0]
    [] k.exp = "value" \/ (k.exp = "error" /\ k.attempt = Attempts)
       -> IF c = Top THEN [k EXCEPT !.pc = "raised"] ELSE NoCall
    [] k.exp = "none"
       -> IF c = Top THEN [k EXCEPT !.pc = "returned"] ELSE NoCall

(* there is a provider and a model for the operation *)
Resolvable(c) == config # "unset" /\ (config = "override" => c = Top)

(* the templates of the prompt are in the prompts file; a sub-agent has its   *)
(* prompt from its caller                                                   *)
Prompted(c) == config # "noprompt" \/ c # Top

(* the provider's client can be made *)
Buildable == config # "keyless"

(* Provider, model and prompts are resolved before the try statement: what   *)
(* goes wrong here, in the configuration or the database, leaves no row.     *)
Unresolved(c, e) ==
  /\ call[c].pc = "resolve"
  /\ \/ e = "value" /\ ~Resolvable(c) /\ UNCHANGED faults
     \/ e = "error" /\ Resolvable(c) /\ ~Prompted(c) /\ UNCHANGED faults
     \/ e = "error" /\ faults < MaxFaults /\ faults' = faults + 1
  /\ call' = [call EXCEPT ![c] = Settled(c, [@ EXCEPT !.exp = e])]
  /\ UNCHANGED <<config, unlogged>>

(* get_agent: an agent that works on the attempt's backend *)
AgentOn(c) == [call[c] EXCEPT !.pc = "running", !.backend = Backend(c)]

(* The agent is built, and the top call makes its backend known to the tools *)
(* that are about to run.                                                   *)
Resolved(c) ==
  /\ call[c].pc = "resolve" /\ Resolvable(c) /\ Prompted(c) /\ Buildable
  /\ call' = [call EXCEPT ![c] = AgentOn(c), ![c].ctx = IF c = Top THEN Backend(c) ELSE @]
  /\ unlogged' = unlogged + 1
  /\ UNCHANGED <<config, faults>>

(* the finally clauses: the thread's backend is reset, the row is written (a  *)
(* failure to write it is logged and swallowed)                             *)
ContextReset(c, k) == IF c = Top THEN [k EXCEPT !.ctx = Null] ELSE k
Audited == unlogged' = unlogged - 1

(* Variant: only what the caller gets to know is logged, not what is retried *)
OverUnlogged(c, got, e) ==
  /\ call[c].pc = "running" /\ Awaited(c) = {}
  /\ call' = [call EXCEPT ![c] =
       Settled(c, ContextReset(c, [@ EXCEPT !.got = got, !.exp = e]))]
  /\ unlogged' = IF call'[c].pc = "resolve" THEN unlogged ELSE unlogged - 1
  /\ UNCHANGED <<config, faults>>

(* an attempt that ran an agent ends *)
Over(c, got, e) ==
  /\ call[c].pc = "running" /\ Awaited(c) = {}
  /\ call' = [call EXCEPT ![c] =
       Settled(c, ContextReset(c, [@ EXCEPT !.got = got, !.exp = e]))]
  /\ Audited
  /\ UNCHANGED <<config, faults>>

(* What is made of the agent's last message: a text, "blank" if there is      *)
(* none, or, where JSON is demanded, a verdict or "junk", which the schema     *)
(* does not accept.                                                         *)
Answers == {"text", "blank", "yes", "no", "junk"}
Unparsed(got) == got = "junk"
Refused(c, got) == Unparsed(got) \/ (got = "blank" /\ ~call[c].lenient)

(* the agent has run *)
Answered(c, got) == Over(c, IF Refused(c, got) THEN "" ELSE got,
                            IF Refused(c, got) THEN "error" ELSE "none")

(* the provider or the agent framework raised *)
Crashed(c, e) == Over(c, "", e)

(* the provider's key is missing: the agent cannot be built *)
Keyless(c) ==
  /\ call[c].pc = "resolve" /\ Resolvable(c) /\ Prompted(c) /\ ~Buildable
  /\ call' = [call EXCEPT ![c] = Settled(c, [@ EXCEPT !.exp = "value"])]
  /\ UNCHANGED <<config, unlogged, faults>>   \* its row is written at once

-----------------------------------------------------------------------------
(* Sub-agents                                                              *)

(* spawn_subagent, from a running agent *)
Spawn(c, s) ==
  /\ call[c].pc = "running" /\ call[c].turns < MaxTurns
  /\ call[s].pc = "idle" /\ c # s
  /\ GetAgentBackend(c) # Null
  /\ call' = [call EXCEPT
       ![c].turns = @ + 1,
       ![s] = [NoCall EXCEPT !.pc = "resolve", !.parent = c, !.waited = TRUE,
                             !.ctx = GetAgentBackend(c),
                             !.origin = call[c].backend]]
  /\ UNCHANGED <<config, unlogged, faults>>

(* the tool's wait ends; its thread cannot be stopped *)
ToolTimeout(s) ==
  /\ call[s].waited
  /\ call' = [call EXCEPT ![s].waited = FALSE]
  /\ UNCHANGED <<config, unlogged, faults>>

(* An administrator changes the configuration, whose rows every call reads    *)
(* anew; the prompts file is read once by a process.                         *)
Configure(v) ==
  /\ v # config /\ faults < MaxFaults
  /\ "noprompt" \in {v, config} => \A c \in Calls : call[c].pc = "idle"
  /\ config' = v /\ faults' = faults + 1
  /\ UNCHANGED <<call, unlogged>>

Step(c) ==
  \/ Resolved(c) \/ Keyless(c)
  \/ \E e \in {"error", "value"} : Unresolved(c, e) \/ Crashed(c, e)
  \/ \E s \in Subs : Spawn(c, s)

SubStep(s) ==
  \/ Step(s) \/ ToolTimeout(s)
  \/ \E got \in {"text", "blank"} : Answered(s, got)

-----------------------------------------------------------------------------
(* Properties                                                              *)

CallStates ==
  [pc      : {"idle", "resolve", "running", "returned", "raised"},
   attempt : 1 .. Attempts, lenient : BOOLEAN, turns : 0 .. MaxTurns,
   exp     : {"none", "error", "value"}, got : {""} \cup Answers,
   backend : Backends \cup {Null}, ctx : Backends \cup {Null},
   parent  : Calls \cup {Null}, origin : Backends \cup {Null}, waited : BOOLEAN]

InvokeTypeOK ==
  /\ config \in Configs /\ unlogged \in Int /\ faults \in 0 .. MaxFaults
  /\ call \in [Calls -> CallStates]

(* Every attempt that got as far as a provider leaves one LLMDebugLog row,   *)
(* however it ends, is retried or outlives the agent that spawned it: what   *)
(* still owes its row is in progress.                                       *)
AuditOwed ==
  unlogged = Cardinality({c \in Calls : call[c].pc = "running"})

(* A sub-agent works on the file system of the agent that spawned it, on     *)
(* each of its attempts and also when its parent has given up waiting and    *)
(* another call runs by then; and outside agent.ainvoke the executor's own   *)
(* thread has no backend.                                                   *)
BackendOfSpawner ==
  /\ \A s \in Subs : call[s].pc = "running" =>
                    call[s].backend # Null /\ call[s].backend = call[s].origin
  /\ call[Top].ctx # Null => call[Top].pc = "running"
=============================================================================
