-------------------------- MODULE DeepAgentProofs ---------------------------
(***************************************************************************)
(* What a deep agent's run keeps, for every number of sub-agents, attempts,  *)
(* recoveries and runs.                                                     *)
(*                                                                         *)
(* The invariant has a part about the calls (CallInv: types, backends, log   *)
(* rows) that only the steps of LlmInvoke can disturb, and one about the run *)
(* (RunInv: the report, the traces) that the handlers of DeepAgent disturb.   *)
(***************************************************************************)
EXTENDS DeepAgent, FiniteSetTheorems, TLAPS

(***************************************************************************)
(* The inductive invariant.                                                *)
(***************************************************************************)
\* An agent runs with its backend in its context; the context of a sub-agent's thread
\* is that of the agent that spawned it, on every attempt.
OnItsBackend(c, k) ==
  /\ k.pc = "running" => k.ctx # Null /\ k.ctx = k.backend
  /\ c # Top /\ k.pc \in {"resolve", "running"} => k.ctx # Null /\ k.ctx = k.origin
  /\ c = Top /\ k.ctx # Null => k.pc = "running"

BackendInv == \A c \in Calls : OnItsBackend(c, call[c])

CallInv == InvokeTypeOK /\ BackendInv /\ AuditOwed

\* The executor's own call is made while the run asks or checks.
TopInv == run.stage \notin {"asking", "checking"} => call[Top].pc = "idle"

\* The report that was checked: the agent's, or the one it was given.
Checked == IF run.files.report # Null THEN run.files.report ELSE run.seed

PassedChecks == \/ run.stage = "checking"
                \/ run.stage = "judged" /\ run.verdict \in {"pass", "poor"}

\* What passed or was only found poor is fit; a result is saved before its files.
ReportInv ==
  /\ PassedChecks => Checked # Null /\ Checked.kind = "fit"
  /\ run.stage \in {"save", "files"} => run.files.report # Null /\ run.files.report.kind = "fit"
  /\ run.stage = "files" => session.finished /\ session.result = run.files.report
  /\ run.stage \in {"asking", "checking", "judged"} => run.opts \in Options
  /\ run.stage # "ended" => run.error = ""
  /\ FilesFollowResult /\ AssertOnlyUntouched

\* The traces of the run are among its files, those from before it in the session.
TraceInv ==
  /\ Before \notin out.memory
  /\ run.stage = "off" => told = {}
  /\ run.stage = "asking" /\ run.round = 0 => told \subseteq {Before}
  /\ run.stage \in {"asking", "checking", "judged", "save", "files"} =>
       /\ told \ {Before} \subseteq run.files.memory
       /\ told \cap {Before} \subseteq session.saved.memory
  /\ MemoryKept

RunTypes == /\ session \in Sessions /\ run \in Runs /\ out \in Files
            /\ told \subseteq Before .. MaxRecoveries /\ cut \in BOOLEAN

AgentInv == CallInv /\ RunTypes /\ TopInv /\ ReportInv /\ TraceInv
-----------------------------------------------------------------------------
(***************************************************************************)
(* Operators.                                                              *)
(***************************************************************************)
LEMMA TopIsNoSub == Top \in Calls /\ Top \notin Subs /\ \A c \in Calls : c # Top => c \in Subs
  BY InvokeConstants DEF InvokeConstants, Top, Calls

LEMMA BackendsAre == 0 \in Backends /\ 1 \in Backends /\ Null \notin Backends
  BY InvokeConstants DEF InvokeConstants, Backends

\* A thread that makes no call.
LEMMA NoCallIs ==
  /\ NoCall \in CallStates
  /\ NoCall.pc = "idle" /\ NoCall.attempt = 1 /\ NoCall.exp = "none" /\ NoCall.turns = 0
  /\ NoCall.ctx = Null /\ NoCall.backend = Null
  BY InvokeConstants DEF InvokeConstants, NoCall, CallStates

\* The executor makes its call, or takes its result.
LEMMA InvokedIs ==
  ASSUME call \in [Calls -> CallStates], NEW lenient \in BOOLEAN
  PROVE  /\ Invoked(lenient) \in CallStates /\ Taken \in CallStates
         /\ Invoked(lenient).pc = "resolve" /\ Taken.pc = "idle"
         /\ Invoked(lenient).ctx = Null /\ Taken.ctx = Null
<1>1. call[Top] \in CallStates
  BY TopIsNoSub
<1>2. call[Top].backend \in Backends \cup {Null}
  BY <1>1 DEF CallStates
<1>3. \A b \in Backends \cup {Null} :
        LET k == [NoCall EXCEPT !.backend = b]
        IN  k \in CallStates /\ k.pc = "idle" /\ k.ctx = Null
  BY NoCallIs DEF CallStates
<1>4. \A b \in Backends \cup {Null} :
        LET k == [NoCall EXCEPT !.pc = "resolve", !.lenient = lenient, !.backend = b]
        IN  k \in CallStates /\ k.pc = "resolve" /\ k.ctx = Null
  BY NoCallIs, ZenonT(30) DEF CallStates
<1> QED
  BY <1>2, <1>3, <1>4 DEF Invoked, Taken

\* A call that is tried again.
LEMMA TriedAgain ==
  ASSUME NEW k \in CallStates, NEW n \in 1 .. Attempts, NEW again,
         again = [k EXCEPT !.pc = "resolve", !.attempt = n, !.exp = "none",
                           !.got = "", !.turns = 0]
  PROVE  /\ again \in CallStates
         /\ again.pc = "resolve" /\ again.ctx = k.ctx /\ again.origin = k.origin
<1>1. 0 \in 0 .. MaxTurns
  BY InvokeConstants DEF InvokeConstants
<1> QED
  BY <1>1 DEF CallStates

\* An attempt that is over leaves its call to be tried again with what it had, or over:
\* no longer running in any case.
LEMMA SettledIs ==
  ASSUME NEW c \in Calls, NEW k \in CallStates
  PROVE  /\ Settled(c, k) \in CallStates
         /\ Settled(c, k).pc \in {"idle", "resolve", "returned", "raised"}
         /\ \/ Settled(c, k).ctx = k.ctx /\ Settled(c, k).origin = k.origin
            \/ c # Top /\ Settled(c, k) = NoCall
<1> DEFINE over == Settled(c, k)
<1>1. Attempts \in Nat \ {0} /\ k.attempt \in 1 .. Attempts /\ k.exp \in {"none", "error", "value"}
  BY InvokeConstants DEF InvokeConstants, CallStates
<1>2. CASE k.exp = "error" /\ k.attempt < Attempts
  <2>1. PICK n \in 1 .. Attempts : n = k.attempt + 1
    BY <1>1, <1>2
  <2>2. over = [k EXCEPT !.pc = "resolve", !.attempt = n, !.exp = "none",
                         !.got = "", !.turns = 0]
    BY <1>1, <1>2, <2>1 DEF Settled
  <2>3. over \in CallStates /\ over.pc = "resolve" /\ over.ctx = k.ctx /\ over.origin = k.origin
    <3> HIDE DEF over
    <3>1. k \in CallStates /\ n \in 1 .. Attempts
      OBVIOUS
    <3> QED
      BY <2>2, <3>1, TriedAgain, ZenonT(30)
  <2> QED
    BY <2>3
<1>3. CASE k.exp = "value" \/ (k.exp = "error" /\ k.attempt = Attempts)
  <2>1. over = IF c = Top THEN [k EXCEPT !.pc = "raised"] ELSE NoCall
    BY <1>1, <1>3 DEF Settled
  <2>2. CASE c = Top
    <3>1. over = [k EXCEPT !.pc = "raised"]
      BY <2>1, <2>2
    <3>2. over \in CallStates /\ over.pc = "raised" /\ over.ctx = k.ctx /\ over.origin = k.origin
      BY <3>1 DEF CallStates
    <3> QED
      BY <3>2
  <2> QED
    BY <2>1, <2>2, NoCallIs
<1>4. CASE k.exp = "none"
  <2>1. over = IF c = Top THEN [k EXCEPT !.pc = "returned"] ELSE NoCall
    BY <1>1, <1>4 DEF Settled
  <2>2. CASE c = Top
    <3>1. over = [k EXCEPT !.pc = "returned"]
      BY <2>1, <2>2
    <3>2. over \in CallStates /\ over.pc = "returned" /\ over.ctx = k.ctx /\ over.origin = k.origin
      BY <3>1 DEF CallStates
    <3> QED
      BY <3>2
  <2> QED
    BY <2>1, <2>2, NoCallIs
<1> QED
  BY <1>1, <1>2, <1>3, <1>4

-----------------------------------------------------------------------------
(***************************************************************************)
(* The calls.                                                              *)
(***************************************************************************)
Running == {c \in Calls : call[c].pc = "running"}

LEMMA RunningFinite == IsFiniteSet(Calls) /\ IsFiniteSet(Running)
<1>1. IsFiniteSet({Top})
  BY FS_Singleton
<1>2. IsFiniteSet(Calls)
  BY <1>1, FS_Union, InvokeConstants DEF InvokeConstants, Calls
<1>3. Running \subseteq Calls
  BY DEF Running
<1> QED
  BY <1>2, <1>3, FS_Subset

\* A step of one call keeps the invariant, if that call is still on its backend and
\* what it does to the rows owed is what it does to the running attempts.
LEMMA OneCall ==
  ASSUME CallInv, NEW c \in Calls, NEW k \in CallStates,
         call' = [call EXCEPT ![c] = k], OnItsBackend(c, k),
         config' \in Configs, faults' \in 0 .. MaxFaults,
         \/ call[c].pc = "running" /\ k.pc # "running" /\ unlogged' = unlogged - 1
         \/ call[c].pc # "running" /\ k.pc = "running" /\ unlogged' = unlogged + 1
         \/ (call[c].pc = "running" <=> k.pc = "running") /\ unlogged' = unlogged
  PROVE  CallInv'
<1>1. call \in [Calls -> CallStates] /\ unlogged \in Int
  BY DEF CallInv, InvokeTypeOK
<1>2. call' \in [Calls -> CallStates] /\ \A d \in Calls : call'[d] = IF d = c THEN k ELSE call[d]
  BY <1>1
<1>3. BackendInv'
  BY <1>2 DEF CallInv, BackendInv, OnItsBackend
<1>4. Running' = {d \in Calls : call'[d].pc = "running"}
  BY DEF Running
<1>5. unlogged = Cardinality(Running)
  BY DEF CallInv, AuditOwed, Running
<1>6. unlogged' = Cardinality(Running')
  <2>1. CASE call[c].pc = "running" /\ k.pc # "running" /\ unlogged' = unlogged - 1
    <3>1. c \in Running /\ Running' = Running \ {c}
      BY <1>2, <1>4, <2>1 DEF Running
    <3> QED
      BY <1>5, <2>1, <3>1, RunningFinite, FS_RemoveElement
  <2>2. CASE call[c].pc # "running" /\ k.pc = "running" /\ unlogged' = unlogged + 1
    <3>1. c \notin Running /\ Running' = Running \cup {c}
      BY <1>2, <1>4, <2>2 DEF Running
    <3> QED
      BY <1>5, <2>2, <3>1, RunningFinite, FS_AddElement
  <2>3. CASE (call[c].pc = "running" <=> k.pc = "running") /\ unlogged' = unlogged
    <3>1. Running' = Running
      BY <1>2, <1>4, <2>3 DEF Running
    <3> QED
      BY <1>5, <2>3, <3>1
  <2> QED
    BY <2>1, <2>2, <2>3
<1>7. unlogged' \in Int
  BY <1>1
<1> QED
  BY <1>2, <1>3, <1>4, <1>6, <1>7 DEF CallInv, InvokeTypeOK, AuditOwed

\* Nothing is said of the calls.
LEMMA NoCallMade ==
  ASSUME CallInv, call' = call, unlogged' = unlogged, config' \in Configs,
         faults' \in 0 .. MaxFaults
  PROVE  CallInv'
  BY DEF CallInv, InvokeTypeOK, BackendInv, OnItsBackend, AuditOwed

\* An attempt is over: Settled makes of the call what it makes of it.
LEMMA AttemptOver ==
  ASSUME CallInv, NEW c \in Calls, NEW k \in CallStates,
         k.ctx = IF c = Top THEN Null ELSE call[c].ctx, k.origin = call[c].origin,
         call[c].pc \in {"resolve", "running"},
         call' = [call EXCEPT ![c] = Settled(c, k)],
         unlogged' = IF call[c].pc = "running" THEN unlogged - 1 ELSE unlogged,
         UNCHANGED config, faults' \in 0 .. MaxFaults
  PROVE  CallInv'
<1>1. OnItsBackend(c, call[c])
  BY DEF CallInv, BackendInv
<1>2. OnItsBackend(c, Settled(c, k))
  BY <1>1, SettledIs, NoCallIs DEF OnItsBackend
<1>3. config' \in Configs /\ faults' \in 0 .. MaxFaults
  BY DEF CallInv, InvokeTypeOK
<1> QED
  BY <1>2, <1>3, SettledIs, OneCall

\* The agent of an attempt that ran has answered, or its provider raised.
LEMMA OverStep ==
  ASSUME CallInv, NEW c \in Calls, NEW got \in {""} \cup Answers,
         NEW e \in {"none", "error", "value"}, Over(c, got, e)
  PROVE  CallInv'
<1> DEFINE a == [call[c] EXCEPT !.got = got, !.exp = e]
           k == ContextReset(c, a)
<1>1. call[c] \in CallStates
  BY DEF CallInv, InvokeTypeOK
<1>2. a \in CallStates /\ a.ctx = call[c].ctx /\ a.origin = call[c].origin
  <2>1. \A m \in CallStates :
          LET n == [m EXCEPT !.got = got, !.exp = e]
          IN  n \in CallStates /\ n.ctx = m.ctx /\ n.origin = m.origin
    BY ZenonT(30) DEF CallStates
  <2> QED
    BY <1>1, <2>1
<1>3. k \in CallStates /\ k.origin = a.origin /\ k.ctx = IF c = Top THEN Null ELSE a.ctx
  <2>1. CASE c = Top
    <3> HIDE DEF a
    <3>1. k = [a EXCEPT !.ctx = Null]
      BY <2>1 DEF ContextReset
    <3> QED
      BY <1>2, <2>1, <3>1 DEF CallStates
  <2>2. CASE c # Top
    BY <1>2, <2>2 DEF ContextReset
  <2> QED
    BY <2>1, <2>2
<1>4. /\ call[c].pc = "running" /\ call' = [call EXCEPT ![c] = Settled(c, k)]
      /\ unlogged' = unlogged - 1 /\ UNCHANGED <<config, faults>>
      /\ faults' \in 0 .. MaxFaults
  BY DEF Over, Audited, CallInv, InvokeTypeOK
<1> HIDE DEF k, a
<1> QED
  BY <1>2, <1>3, <1>4, AttemptOver

\* Provider, model, prompts or key are missing, or the database cannot be read.
LEMMA UnresolvedStep ==
  ASSUME CallInv, NEW c \in Calls,
         \/ \E e \in {"error", "value"} : Unresolved(c, e)
         \/ Keyless(c)
  PROVE  CallInv'
<1>1. PICK e \in {"error", "value"} :
        /\ call[c].pc = "resolve" /\ call' = [call EXCEPT ![c] = Settled(c, [@ EXCEPT !.exp = e])]
        /\ UNCHANGED <<config, unlogged>>
        /\ faults' = faults \/ (faults < MaxFaults /\ faults' = faults + 1)
  BY DEF Unresolved, Keyless
<1>f. faults' \in 0 .. MaxFaults
  BY <1>1, InvokeConstants DEF InvokeConstants, CallInv, InvokeTypeOK
<1> DEFINE k == [call[c] EXCEPT !.exp = e]
<1>2. call[c] \in CallStates /\ OnItsBackend(c, call[c])
  BY DEF CallInv, InvokeTypeOK, BackendInv
<1>3. k \in CallStates /\ k.ctx = call[c].ctx /\ k.origin = call[c].origin
  BY <1>2 DEF CallStates
<1>4. c = Top => call[c].ctx = Null
  BY <1>1, <1>2 DEF OnItsBackend
<1>5. call' = [call EXCEPT ![c] = Settled(c, k)]
  BY <1>1
<1> HIDE DEF k
<1> QED
  BY <1>1, <1>f, <1>3, <1>4, <1>5, AttemptOver

\* The agent is built on its backend.
LEMMA ResolvedStep ==
  ASSUME CallInv, NEW c \in Calls, Resolved(c)
  PROVE  CallInv'
<1> DEFINE b == Backend(c)
           k == [call[c] EXCEPT !.pc = "running", !.backend = b,
                                !.ctx = IF c = Top THEN b ELSE @]
<1>1. call[c] \in CallStates /\ OnItsBackend(c, call[c]) /\ call[c].pc = "resolve"
  BY DEF CallInv, InvokeTypeOK, BackendInv, Resolved
<1>2. call[c].ctx \in Backends \cup {Null}
  BY <1>1 DEF CallStates
<1>3. b \in Backends /\ (c # Top => b = call[c].ctx)
  BY <1>1, <1>2, BackendsAre DEF Backend, NewBackend, GetAgentBackend, OnItsBackend
<1>4. call' = [call EXCEPT ![c] = k] /\ unlogged' = unlogged + 1 /\ UNCHANGED <<config, faults>>
  BY <1>1 DEF Resolved, AgentOn, CallInv, InvokeTypeOK, CallStates
<1> HIDE DEF b
<1>5. /\ k \in CallStates /\ k.pc = "running" /\ k.backend = b /\ k.origin = call[c].origin
      /\ k.ctx = IF c = Top THEN b ELSE call[c].ctx
  BY <1>1, <1>3 DEF CallStates
<1>6. OnItsBackend(c, k)
  BY <1>1, <1>3, <1>5, BackendsAre DEF OnItsBackend
<1>7. config' \in Configs /\ faults' \in 0 .. MaxFaults
  BY <1>4 DEF CallInv, InvokeTypeOK
<1> HIDE DEF k
<1> QED
  BY <1>1, <1>4, <1>5, <1>6, <1>7, OneCall

\* A running agent has another one do a part of its work.
LEMMA SpawnStep ==
  ASSUME CallInv, NEW c \in Calls, NEW s \in Subs, Spawn(c, s)
  PROVE  CallInv'
<1> DEFINE k == [call[c] EXCEPT !.turns = @ + 1]
           j == [NoCall EXCEPT !.pc = "resolve", !.parent = c, !.waited = TRUE,
                               !.ctx = GetAgentBackend(c), !.origin = call[c].backend]
<1>1. /\ call \in [Calls -> CallStates] /\ s \in Calls /\ call[c] \in CallStates
      /\ OnItsBackend(c, call[c])
  BY DEF CallInv, InvokeTypeOK, BackendInv, Calls
<1>2. /\ call[c].pc = "running" /\ call[c].turns < MaxTurns /\ call[s].pc = "idle" /\ c # s
      /\ call[c].ctx # Null /\ UNCHANGED <<config, unlogged, faults>>
      /\ call' = [call EXCEPT ![c] = k, ![s] = j]
  BY <1>1 DEF Spawn, GetAgentBackend
<1>3. call[c].turns + 1 \in 0 .. MaxTurns
  <2>1. call[c].turns \in 0 .. MaxTurns
    BY <1>1 DEF CallStates
  <2> QED
    BY <1>2, <2>1, InvokeConstants DEF InvokeConstants
<1>4. /\ k \in CallStates /\ k.pc = call[c].pc /\ k.ctx = call[c].ctx
      /\ k.backend = call[c].backend /\ k.origin = call[c].origin
  BY <1>1, <1>3 DEF CallStates
<1>5. call[c].ctx \in Backends \cup {Null} /\ call[c].backend \in Backends \cup {Null}
  BY <1>1 DEF CallStates
<1>6. /\ j \in CallStates /\ j.pc = "resolve" /\ j.ctx = call[c].ctx
      /\ j.origin = call[c].backend
  BY <1>5, NoCallIs DEF CallStates, GetAgentBackend
<1>7. OnItsBackend(c, k) /\ OnItsBackend(s, j)
  BY <1>1, <1>2, <1>4, <1>6, TopIsNoSub DEF OnItsBackend
<1> HIDE DEF k, j
<1>8. /\ call' \in [Calls -> CallStates]
      /\ \A d \in Calls : call'[d] = IF d = s THEN j ELSE IF d = c THEN k ELSE call[d]
  BY <1>1, <1>2, <1>4, <1>6
<1>9. BackendInv'
  BY <1>7, <1>8 DEF CallInv, BackendInv, OnItsBackend
<1>10. {d \in Calls : call'[d].pc = "running"} = {d \in Calls : call[d].pc = "running"}
  BY <1>2, <1>4, <1>6, <1>8
<1>11. AuditOwed'
  BY <1>2, <1>10 DEF CallInv, AuditOwed
<1> QED
  BY <1>2, <1>8, <1>9, <1>11 DEF CallInv, InvokeTypeOK

\* The tool that waits for a sub-agent gives up.
LEMMA ToolTimeoutStep ==
  ASSUME CallInv, NEW s \in Subs, ToolTimeout(s)
  PROVE  CallInv'
<1> DEFINE k == [call[s] EXCEPT !.waited = FALSE]
<1>1. s \in Calls /\ call[s] \in CallStates /\ OnItsBackend(s, call[s])
  BY DEF CallInv, InvokeTypeOK, BackendInv, Calls
<1>2. /\ k \in CallStates /\ k.pc = call[s].pc /\ k.ctx = call[s].ctx
      /\ k.backend = call[s].backend /\ k.origin = call[s].origin
  BY <1>1 DEF CallStates
<1>3. OnItsBackend(s, k)
  BY <1>1, <1>2 DEF OnItsBackend
<1>4. call' = [call EXCEPT ![s] = k] /\ UNCHANGED <<config, unlogged, faults>>
  BY DEF ToolTimeout
<1>5. config' \in Configs /\ faults' \in 0 .. MaxFaults
  BY <1>4 DEF CallInv, InvokeTypeOK
<1> HIDE DEF k
<1> QED
  BY <1>1, <1>2, <1>3, <1>4, <1>5, OneCall

\* A thread that is not in a call does not get into one by the steps of the calls.
LEMMA StepOfCall ==
  ASSUME CallInv, NEW c \in Calls, Step(c)
  PROVE  CallInv' /\ (call[Top].pc = "idle" => call'[Top].pc = "idle")
<1>1. call \in [Calls -> CallStates] /\ Top \in Calls
  BY TopIsNoSub DEF CallInv, InvokeTypeOK
<1>2. CASE Resolved(c)
  BY <1>1, <1>2, ResolvedStep DEF Resolved
<1>3. CASE Keyless(c) \/ \E e \in {"error", "value"} : Unresolved(c, e)
  BY <1>1, <1>3, UnresolvedStep DEF Keyless, Unresolved
<1>4. ASSUME NEW e \in {"error", "value"}, Crashed(c, e)
      PROVE  CallInv' /\ (call[Top].pc = "idle" => call'[Top].pc = "idle")
  <2>1. CallInv'
    BY <1>4, OverStep DEF Crashed
  <2>2. call[Top].pc = "idle" => call'[Top] = call[Top]
    BY <1>1, <1>4 DEF Crashed, Over
  <2> QED
    BY <2>1, <2>2
<1>5. ASSUME NEW s \in Subs, Spawn(c, s)
      PROVE  CallInv' /\ (call[Top].pc = "idle" => call'[Top].pc = "idle")
  <2>1. call[c].pc = "running" /\ s # Top
    BY <1>5, TopIsNoSub DEF Spawn
  <2>2. c # Top => call'[Top] = call[Top]
    BY <1>1, <1>5, <2>1 DEF Spawn
  <2> QED
    BY <1>5, <2>1, <2>2, SpawnStep
<1> QED
  BY <1>2, <1>3, <1>4, <1>5 DEF Step

\* An agent's answer, of the executor's call or of a sub-agent's.
LEMMA AnsweredStep ==
  ASSUME CallInv, NEW c \in Calls, NEW got \in Answers, Answered(c, got)
  PROVE  CallInv'
  BY OverStep DEF Answered

LEMMA SubStepOfCall ==
  ASSUME CallInv, NEW s \in Subs, SubStep(s)
  PROVE  CallInv' /\ (call[Top].pc = "idle" => call'[Top].pc = "idle")
<1>1. call \in [Calls -> CallStates] /\ Top \in Calls /\ s \in Calls /\ s # Top
  BY TopIsNoSub DEF CallInv, InvokeTypeOK, Calls
<1>2. CASE Step(s)
  BY <1>1, <1>2, StepOfCall
<1>3. CASE ToolTimeout(s)
  BY <1>1, <1>3, ToolTimeoutStep DEF ToolTimeout
<1>4. ASSUME NEW got \in {"text", "blank"}, Answered(s, got)
      PROVE  CallInv' /\ call'[Top] = call[Top]
  <2>1. CallInv'
    BY <1>1, <1>4, AnsweredStep DEF Answers
  <2>2. call'[Top] = call[Top]
    BY <1>1, <1>4 DEF Answered, Over
  <2> QED
    BY <2>1, <2>2
<1> QED
  BY <1>2, <1>3, <1>4 DEF SubStep

\* The executor makes a call, or takes the result of one, while none of its is running.
LEMMA Handed ==
  ASSUME CallInv, call[Top].pc # "running", UNCHANGED <<config, unlogged, faults>>,
         \/ \E lenient \in BOOLEAN : call' = [call EXCEPT ![Top] = Invoked(lenient)]
         \/ call' = [call EXCEPT ![Top] = Taken]
  PROVE  CallInv'
<1>1. call \in [Calls -> CallStates]
  BY DEF CallInv, InvokeTypeOK
<1>2. PICK k \in CallStates : k.pc # "running" /\ k.ctx = Null /\ call' = [call EXCEPT ![Top] = k]
  BY <1>1, InvokedIs
<1>3. OnItsBackend(Top, k)
  BY <1>2 DEF OnItsBackend
<1>4. config' \in Configs /\ faults' \in 0 .. MaxFaults
  BY DEF CallInv, InvokeTypeOK
<1> QED
  BY <1>2, <1>3, <1>4, TopIsNoSub, OneCall

\* The process dies with all its calls.
LEMMA AllCallsEnd ==
  ASSUME CallInv, call' = [c \in Calls |-> NoCall], unlogged' = 0, config' = config,
         faults' \in 0 .. MaxFaults
  PROVE  CallInv'
<1>1. call' \in [Calls -> CallStates]
  BY NoCallIs
<1>2. BackendInv'
  BY NoCallIs DEF BackendInv, OnItsBackend
<1>3. {c \in Calls : call'[c].pc = "running"} = {}
  BY NoCallIs
<1>4. AuditOwed'
  BY <1>3, FS_EmptySet DEF AuditOwed
<1> QED
  BY <1>1, <1>2, <1>4 DEF CallInv, InvokeTypeOK

-----------------------------------------------------------------------------
(***************************************************************************)
(* What the run and the session are made of.                               *)
(***************************************************************************)
LEMMA ReportsAre ==
  /\ Null \notin Reports /\ Before \in Before .. MaxRecoveries
  /\ \A kind \in Kinds, by \in Host .. MaxRecoveries :
       Report(kind, by) \in Reports /\ Report(kind, by).kind = kind
  BY AgentConstants DEF AgentConstants, Reports, Report, Before

LEMMA RoundsAre ==
  ASSUME NEW n \in 0 .. MaxRecoveries
  PROVE  n \in Before .. MaxRecoveries /\ n \in Host .. MaxRecoveries /\ n # Before
  BY AgentConstants DEF AgentConstants, Before, Host

\* What an earlier run wrote keeps its kind.
LEMMA OlderIs ==
  ASSUME NEW r \in Reports \cup {Null}
  PROVE  /\ Older(r) \in Reports \cup {Null}
         /\ Older(r) = Null <=> r = Null
         /\ r # Null => Older(r).kind = r.kind
         /\ r.by = Host => Older(r).by = Host
<1>1. CASE r # Null
  <2>1. r \in Reports /\ Older(r) = [r EXCEPT !.by = IF @ = Host THEN Host ELSE Before]
    BY <1>1 DEF Older
  <2>2. Before \in Host .. MaxRecoveries /\ Host \in Host .. MaxRecoveries
    BY AgentConstants DEF AgentConstants, Before, Host
  <2>3. Older(r) \in Reports /\ Older(r).kind = r.kind /\ (r.by = Host => Older(r).by = Host)
    BY <2>1, <2>2 DEF Reports
  <2> QED
    BY <1>1, <2>3, ReportsAre
<1> QED
  BY <1>1 DEF Older

\* What the host supplies is the host's.
LEMMA GivenIs ==
  ASSUME NEW o
  PROVE  /\ o \in Options => Given(o) \in Reports \cup {Null}
         /\ Given(o) # Null => Given(o).by = Host
<1>1. o \in Options => o.template = "none" \/ o.template \in Kinds
  BY AgentConstants DEF AgentConstants
<1>2. Host \in Host .. MaxRecoveries
  BY AgentConstants DEF AgentConstants, Host
<1> QED
  BY <1>1, <1>2, ReportsAre DEF Given, Report

LEMMA OlderTracesAre ==
  ASSUME NEW T
  PROVE  /\ OlderTraces(T) \subseteq {Before}
         /\ OlderTraces(T) \subseteq Before .. MaxRecoveries
  BY ReportsAre DEF OlderTraces

LEMMA NoFilesIs == NoFiles \in Files /\ NoFiles.report = Null /\ NoFiles.memory = {}
  BY DEF NoFiles, Files

\* Files that are put over others are replaced, but for memory.md.
LEMMA MergeIs ==
  ASSUME NEW old \in Files, NEW new \in Files
  PROVE  /\ Merge(old, new) \in Files
         /\ Merge(old, new).report = IF new.report # Null THEN new.report ELSE old.report
         /\ Merge(old, new).memory = old.memory \cup new.memory
  BY DEF Merge, Files

\* Of the files to save, a report that is the host's is left out.
LEMMA UnlikeIs ==
  ASSUME NEW given, NEW files \in Files
  PROVE  /\ Unlike(given, files) \in Files
         /\ Unlike(given, files).report = IF files.report = given THEN Null ELSE files.report
         /\ Unlike(given, files).memory = files.memory
  BY DEF Unlike, Files

LEMMA NoRunIs ==
  /\ NoRun \in Runs
  /\ NoRun.stage = "off" /\ NoRun.round = 0 /\ NoRun.seed = Null /\ NoRun.files = NoFiles
  /\ NoRun.verdict = "" /\ NoRun.error = ""
  BY NoFilesIs, AgentConstants DEF AgentConstants, NoRun, Runs

Errors == {"", "prepare", "call", "assert", "quality", "save"}

\* A run that has ended keeps its files and the report it was given.
LEMMA EndedIs ==
  ASSUME run \in Runs, NEW e \in Errors
  PROVE  /\ Ended(e) \in Runs
         /\ Ended(e).stage = "ended" /\ Ended(e).error = e
         /\ Ended(e).files = run.files /\ Ended(e).seed = run.seed
<1>1. run.files \in Files /\ run.seed \in Reports \cup {Null}
  BY DEF Runs
<1> QED
  BY <1>1, NoRunIs DEF Ended, Runs, Errors

\* The parts of a run and of a session.
LEMMA RunFields ==
  ASSUME RunTypes
  PROVE  /\ run.files \in Files /\ run.seed \in Reports \cup {Null}
         /\ run.round \in 0 .. MaxRecoveries /\ run.opts \in Options \cup {Null}
         /\ run.files.memory \subseteq Before .. MaxRecoveries
         /\ run.files.report \in Reports \cup {Null}
         /\ out.memory \subseteq Before .. MaxRecoveries
         /\ out.report \in Reports \cup {Null}
         /\ session.saved \in Files
         /\ session.result \in Reports \cup {Null} /\ session.prev \in Reports \cup {Null}
         /\ session.saved.report \in Reports \cup {Null}
         /\ session.saved.memory \subseteq Before .. MaxRecoveries
         /\ session.finished \in BOOLEAN /\ session.runs \in 0 .. MaxRuns
  BY DEF RunTypes, Runs, Files, Sessions

\* One more run of the session.
LEMMA RunsOne ==
  ASSUME RunTypes, session.runs < MaxRuns
  PROVE  session.runs + 1 \in 0 .. MaxRuns
  BY RunFields, AgentConstants DEF AgentConstants

-----------------------------------------------------------------------------
(***************************************************************************)
(* The steps of the run.                                                   *)
(***************************************************************************)
RunInv == RunTypes /\ TopInv /\ ReportInv /\ TraceInv

\* Only the calls move.
LEMMA RunStays ==
  ASSUME RunInv, UNCHANGED runVars, call[Top].pc = "idle" => call'[Top].pc = "idle"
  PROVE  RunInv'
<1>1. RunTypes' /\ TopInv'
  BY DEF RunInv, RunTypes, TopInv, runVars
<1>2. ReportInv'
  BY DEF RunInv, ReportInv, PassedChecks, Checked, FilesFollowResult, AssertOnlyUntouched, runVars
<1>3. TraceInv'
  BY DEF RunInv, TraceInv, MemoryKept, runVars
<1> QED
  BY <1>1, <1>2, <1>3 DEF RunInv

\* The run ends with an error, or, before it began, without one: nothing was saved.
LEMMA RunEnds ==
  ASSUME RunInv, NEW e \in Errors, run' = Ended(e), out' = out, told' = told,
         run.stage # "ended",
         \/ session' = session
         \/ session.runs < MaxRuns /\ session' = [session EXCEPT !.runs = @ + 1],
         \/ run.stage # "files" /\ cut' = cut
         \/ cut' = TRUE,
         e = "" => run.stage = "off",
         e = "assert" => Checked # Null /\ Checked.kind = "fit" /\ run.files.report = Null,
         call'[Top].pc = "idle"
  PROVE  RunInv'
<1>1. /\ run' \in Runs /\ run'.stage = "ended" /\ run'.error = e
      /\ run'.files = run.files /\ run'.seed = run.seed
  BY EndedIs DEF RunInv, RunTypes
<1>2. /\ session' \in Sessions /\ session'.finished = session.finished
      /\ session'.result = session.result /\ session'.saved = session.saved
  BY RunsOne DEF RunInv, RunTypes, Sessions
<1>3. RunTypes'
  BY <1>1, <1>2 DEF RunInv, RunTypes
<1>4. TopInv'
  BY DEF TopInv
<1>5. FilesFollowResult'
  BY <1>2 DEF RunInv, ReportInv, FilesFollowResult
<1>6. AssertOnlyUntouched'
  BY <1>1 DEF AssertOnlyUntouched, Checked
<1>7. ReportInv'
  BY <1>1, <1>5, <1>6 DEF ReportInv, PassedChecks
<1>8. e = "" => told = {}
  BY DEF RunInv, TraceInv
<1>9. TraceInv'
  BY <1>1, <1>2, <1>8 DEF RunInv, TraceInv, MemoryKept
<1> QED
  BY <1>3, <1>4, <1>7, <1>9 DEF RunInv

\* The run is left, or gone with its process.
LEMMA RunGone ==
  ASSUME RunInv, run' = NoRun, out' = NoFiles, told' = {}, session' = session,
         \/ run.stage # "files" /\ cut' = cut
         \/ cut' = TRUE,
         call'[Top].pc = "idle"
  PROVE  RunInv'
<1>1. RunTypes'
  BY NoRunIs, NoFilesIs DEF RunInv, RunTypes
<1>2. TopInv'
  BY DEF TopInv
<1>3. ReportInv'
  BY NoRunIs DEF RunInv, ReportInv, PassedChecks, FilesFollowResult, AssertOnlyUntouched
<1>4. TraceInv'
  BY NoRunIs, NoFilesIs DEF TraceInv, MemoryKept
<1> QED
  BY <1>1, <1>2, <1>3, <1>4 DEF RunInv

\* The agent is asked for the first time.
LEMMA BeginStep ==
  ASSUME RunInv, NEW o \in Options, NEW force \in BOOLEAN, NEW clean \in BOOLEAN,
         Begin(o, force, clean)
  PROVE  RunInv'
<1> DEFINE seed == Seed(o, clean)
           r    == [NoRun EXCEPT !.stage = "asking", !.opts = o, !.seed = seed]
           kept == [report |-> Older(session.saved.report), memory |-> OlderTraces(session.saved.memory)]
           s    == [session EXCEPT !.runs = @ + 1, !.prev = Older(@), !.result = Older(@),
                                   !.saved = kept]
<1>1. /\ run.stage = "off" /\ session.runs < MaxRuns /\ run' = r
      /\ session' = s /\ out' = NoFiles /\ told' = OlderTraces(session.saved.memory) /\ cut' = cut
  BY DEF Begin
<1>2. RunTypes
  BY DEF RunInv
<1>3. seed \in Reports \cup {Null}
  BY <1>2, GivenIs, RunFields, OlderIs DEF Seed
<1> HIDE DEF seed
<1>4. /\ r \in Runs /\ r.stage = "asking" /\ r.opts = o /\ r.round = 0 /\ r.error = ""
      /\ r.files = NoFiles
  BY <1>3, NoRunIs DEF Runs
<1>5. /\ kept \in Files /\ kept.report = Older(session.saved.report)
      /\ kept.memory = OlderTraces(session.saved.memory)
  BY <1>2, RunFields, OlderIs, OlderTracesAre DEF Files
<1>6. /\ Older(session.result) \in Reports \cup {Null}
      /\ Older(session.prev) \in Reports \cup {Null}
      /\ session.runs + 1 \in 0 .. MaxRuns
  BY <1>1, <1>2, RunFields, OlderIs, RunsOne
<1> HIDE DEF kept
<1>7. /\ s \in Sessions /\ s.finished = session.finished /\ s.saved = kept
      /\ s.result = Older(session.result)
  BY <1>2, <1>5, <1>6 DEF RunTypes, Sessions
<1> HIDE DEF r, s
<1>8. RunTypes'
  BY <1>1, <1>2, <1>4, <1>7, NoFilesIs, OlderTracesAre DEF RunTypes
<1>9. TopInv'
  BY <1>1, <1>4 DEF TopInv
<1>10. FilesFollowResult'
  <2>1. session.finished /\ ~cut =>
          session.saved.report = session.result \/ session.result.by = Host
    BY <1>1 DEF RunInv, ReportInv, FilesFollowResult
  <2>2. session.result.by = Host => Older(session.result).by = Host
    BY <1>2, RunFields, OlderIs
  <2> QED
    BY <1>1, <1>4, <1>5, <1>7, <2>1, <2>2 DEF FilesFollowResult
<1>11. ReportInv'
  BY <1>1, <1>4, <1>10 DEF ReportInv, PassedChecks, AssertOnlyUntouched
<1>12. told' \subseteq {Before} /\ session'.saved.memory = told'
  BY <1>1, <1>5, <1>7, OlderTracesAre
<1>13. TraceInv'
  BY <1>1, <1>4, <1>12, NoFilesIs DEF TraceInv, MemoryKept
<1> QED
  BY <1>8, <1>9, <1>11, <1>13 DEF RunInv

\* The agent's files and trace are taken over before its answer is looked at.
LEMMA AgentAnswersStep ==
  ASSUME RunInv, AgentAnswers
  PROVE  RunInv'
<1>1. RunTypes
  BY DEF RunInv
<1>2. PICK w \in Kinds \cup {"given", "untouched"}, trace \in BOOLEAN :
        out' = [report |-> Left(w), memory |-> TraceOf(trace)]
  BY DEF AgentAnswers, Collected
<1>3. run.stage = "asking" /\ UNCHANGED <<session, run, told, cut>>
  BY DEF AgentAnswers, Asking
<1>4. run.round \in Before .. MaxRecoveries /\ run.round \in Host .. MaxRecoveries /\ run.round # Before
  BY <1>1, RunFields, RoundsAre
<1>5. out'.memory \subseteq Before .. MaxRecoveries /\ Before \notin out'.memory
  BY <1>1, <1>2, <1>4, RunFields DEF TraceOf, RunInv, TraceInv
<1>6. Left(w) \in Reports \cup {Null}
  <2>1. Given(run.opts) \in Reports \cup {Null}
    BY <1>3, GivenIs DEF RunInv, ReportInv
  <2>2. out.report \in Reports \cup {Null} /\ (w \in Kinds => Report(w, run.round) \in Reports)
    BY <1>1, <1>4, RunFields, ReportsAre
  <2> QED
    BY <2>1, <2>2 DEF Left
<1>7. out' \in Files
  BY <1>2, <1>5, <1>6 DEF Files
<1>8. RunTypes'
  BY <1>1, <1>3, <1>7 DEF RunTypes
<1>9. TopInv'
  BY <1>3 DEF TopInv
<1>10. ReportInv'
  BY <1>3 DEF RunInv, ReportInv, PassedChecks, Checked, FilesFollowResult, AssertOnlyUntouched
<1>11. TraceInv'
  BY <1>3, <1>5 DEF RunInv, TraceInv, MemoryKept
<1> QED
  BY <1>8, <1>9, <1>10, <1>11 DEF RunInv

\* What the call wrote is merged and looked at.
LEMMA AgentReturnedStep ==
  ASSUME CallInv, RunInv, AgentReturned
  PROVE  RunInv'
<1> DEFINE files == IF run.round = 0 THEN out ELSE Merge(run.files, out)
           found == Structure(call[Top].got, files, run.seed)
           inspect == found = "sound" /\ run.opts.quality
           verdict == IF found = "sound" /\ ~inspect THEN "pass" ELSE found
           stage == IF inspect THEN "checking" ELSE "judged"
           r == [run EXCEPT !.files = files, !.verdict = verdict, !.stage = stage]
<1>1. RunTypes /\ out \in Files
  BY DEF RunInv, RunTypes
<1>2. /\ run.stage = "asking" /\ run' = r /\ told' = told \cup out.memory
      /\ UNCHANGED <<session, out, cut>>
  BY DEF AgentReturned, Asking
<1>3. call'[Top].pc = "idle" \/ stage = "checking"
  <2>1. call \in [Calls -> CallStates] /\ Top \in Calls
    BY TopIsNoSub DEF CallInv, InvokeTypeOK
  <2>2. stage # "checking" => call' = [call EXCEPT ![Top] = Taken]
    BY DEF AgentReturned
  <2> QED
    BY <2>1, <2>2, InvokedIs
<1>4. /\ files \in Files
      /\ files.report = IF run.round # 0 /\ out.report = Null THEN run.files.report ELSE out.report
      /\ files.memory = IF run.round = 0 THEN out.memory ELSE run.files.memory \cup out.memory
  BY <1>1, RunFields, MergeIs
<1> HIDE DEF files
<1>5. /\ found \in {"sound", "fatal"}
      /\ found = "sound" => LET report == IF files.report # Null THEN files.report ELSE run.seed
                            IN  report # Null /\ report.kind = "fit"
  BY DEF Structure
<1> HIDE DEF found
<1>6. /\ verdict \in {"pass", "sound", "fatal"} /\ stage \in {"checking", "judged"}
      /\ stage = "checking" \/ verdict = "pass" => found = "sound"
      /\ verdict # "poor"
  BY <1>5
<1> HIDE DEF verdict, stage
<1>7. /\ r \in Runs /\ r.files = files /\ r.verdict = verdict /\ r.stage = stage
      /\ r.seed = run.seed /\ r.opts = run.opts /\ r.error = run.error /\ r.round = run.round
  <2>1. /\ run \in Runs /\ verdict \in {"", "sound", "pass", "fatal", "poor"}
        /\ stage \in {"off", "asking", "checking", "judged", "save", "files", "ended"}
    BY <1>1, <1>6 DEF RunTypes
  <2>2. /\ r.files = files /\ r.verdict = verdict /\ r.stage = stage
        /\ r.seed = run.seed /\ r.opts = run.opts /\ r.error = run.error /\ r.round = run.round
    BY <2>1 DEF Runs
  <2>3. r \in Runs
    BY <1>4, <2>1 DEF Runs
  <2> QED
    BY <2>2, <2>3
<1> HIDE DEF r
<1>8. RunTypes'
  BY <1>1, <1>2, <1>7, RunFields DEF RunTypes
<1>9. TopInv'
  BY <1>2, <1>3, <1>7 DEF TopInv
<1>10. PassedChecks' => Checked' # Null /\ Checked'.kind = "fit"
  BY <1>2, <1>5, <1>6, <1>7 DEF PassedChecks, Checked
<1>11. ReportInv'
  BY <1>2, <1>6, <1>7, <1>10
     DEF RunInv, ReportInv, FilesFollowResult, AssertOnlyUntouched
<1>12. /\ told \ {Before} \subseteq run.files.memory /\ told \cap {Before} \subseteq session.saved.memory
       /\ Before \notin out.memory /\ (run.round = 0 => told \subseteq {Before})
  BY <1>2 DEF RunInv, TraceInv
<1>13. /\ told' \ {Before} \subseteq files.memory
       /\ told' \cap {Before} \subseteq session.saved.memory
  BY <1>2, <1>4, <1>12
<1>14. TraceInv'
  BY <1>2, <1>6, <1>7, <1>12, <1>13 DEF TraceInv, MemoryKept
<1> QED
  BY <1>8, <1>9, <1>11, <1>14 DEF RunInv

\* The checking agent's own files are dropped.
LEMMA CheckerAnswersStep ==
  ASSUME RunInv, CheckerAnswers
  PROVE  RunInv'
<1>1. UNCHANGED runVars /\ run.stage = "checking"
  BY DEF CheckerAnswers, Checking
<1>2. RunTypes' /\ TopInv'
  BY <1>1 DEF RunInv, RunTypes, TopInv, runVars
<1>3. ReportInv'
  BY <1>1 DEF RunInv, ReportInv, PassedChecks, Checked, FilesFollowResult,
              AssertOnlyUntouched, runVars
<1>4. TraceInv'
  BY <1>1 DEF RunInv, TraceInv, MemoryKept, runVars
<1> QED
  BY <1>2, <1>3, <1>4 DEF RunInv

LEMMA CheckerDoneStep ==
  ASSUME CallInv, RunInv, CheckerDone
  PROVE  RunInv'
<1> DEFINE verdict == IF call[Top].pc = "returned" /\ call[Top].got = "yes" THEN "pass" ELSE "poor"
           r == [run EXCEPT !.stage = "judged", !.verdict = verdict]
<1>1. /\ run.stage = "checking" /\ run' = r /\ call' = [call EXCEPT ![Top] = Taken]
      /\ UNCHANGED <<session, out, told, cut>>
  BY DEF CheckerDone, Checking
<1>2. call \in [Calls -> CallStates] /\ Top \in Calls
  BY TopIsNoSub DEF CallInv, InvokeTypeOK
<1>3. call'[Top].pc = "idle"
  BY <1>1, <1>2, InvokedIs
<1>4. verdict \in {"pass", "poor"}
  OBVIOUS
<1> HIDE DEF verdict
<1>5. /\ r \in Runs /\ r.files = run.files /\ r.stage = "judged" /\ r.seed = run.seed
      /\ r.opts = run.opts /\ r.error = run.error /\ r.round = run.round
  BY <1>4 DEF RunInv, RunTypes, Runs
<1> HIDE DEF r
<1>6. RunTypes'
  BY <1>1, <1>5 DEF RunInv, RunTypes
<1>7. TopInv'
  BY <1>3 DEF TopInv
<1>8. Checked # Null /\ Checked.kind = "fit" /\ Checked' = Checked
  BY <1>1, <1>5 DEF RunInv, ReportInv, PassedChecks, Checked
<1>9. ReportInv'
  BY <1>1, <1>5, <1>8 DEF RunInv, ReportInv, FilesFollowResult, AssertOnlyUntouched
<1>10. TraceInv'
  BY <1>1, <1>5 DEF RunInv, TraceInv, MemoryKept
<1> QED
  BY <1>6, <1>7, <1>9, <1>10 DEF RunInv

\* The report that passed is the result, unless the agent did not write it.
LEMMA AcceptStep ==
  ASSUME RunInv, Accept
  PROVE  RunInv'
<1>1. /\ run.stage = "judged" /\ run.verdict \in {"pass", "poor"}
      /\ UNCHANGED <<invokeVars, session, out, told, cut>>
      /\ run' = IF run.files.report = Null THEN Ended("assert") ELSE [run EXCEPT !.stage = "save"]
  BY DEF Accept, Judged, Acceptable
<1>2. Checked # Null /\ Checked.kind = "fit" /\ call'[Top].pc = "idle"
  BY <1>1 DEF RunInv, ReportInv, PassedChecks, TopInv, invokeVars
<1>3. CASE run.files.report = Null
  BY <1>1, <1>2, <1>3, RunEnds DEF Errors
<1>4. CASE run.files.report # Null
  <2>1. /\ run' \in Runs /\ run'.stage = "save" /\ run'.files = run.files
        /\ run'.error = run.error /\ run'.seed = run.seed
    BY <1>1, <1>4 DEF RunInv, RunTypes, Runs
  <2>2. RunTypes'
    BY <1>1, <2>1 DEF RunInv, RunTypes
  <2>3. TopInv'
    BY <1>2 DEF TopInv
  <2>4. run.files.report.kind = "fit"
    BY <1>2, <1>4 DEF Checked
  <2>5. ReportInv'
    BY <1>1, <1>4, <2>1, <2>4
       DEF RunInv, ReportInv, PassedChecks, FilesFollowResult, AssertOnlyUntouched
  <2>6. TraceInv'
    BY <1>1, <2>1 DEF RunInv, TraceInv, MemoryKept
  <2> QED
    BY <2>2, <2>3, <2>5, <2>6 DEF RunInv
<1> QED
  BY <1>3, <1>4

\* The report is given back to the agent.
LEMMA RecoverStep ==
  ASSUME RunInv, Recover
  PROVE  RunInv'
<1> DEFINE n == run.round + 1
           r == [run EXCEPT !.stage = "asking", !.round = n]
<1>1. /\ run.stage = "judged" /\ run.round < MaxRecoveries /\ run' = r /\ out' = NoFiles
      /\ UNCHANGED <<session, told, cut>>
  BY DEF Recover, Judged
<1>2. n \in 0 .. MaxRecoveries /\ n # 0
  BY <1>1, RunFields, AgentConstants DEF RunInv, AgentConstants
<1> HIDE DEF n
<1>3. /\ r \in Runs /\ r.stage = "asking" /\ r.round = n /\ r.files = run.files
      /\ r.opts = run.opts /\ r.error = run.error /\ r.seed = run.seed
  BY <1>2 DEF RunInv, RunTypes, Runs
<1> HIDE DEF r
<1>4. RunTypes'
  BY <1>1, <1>3, NoFilesIs DEF RunInv, RunTypes
<1>5. TopInv'
  BY <1>1, <1>3 DEF TopInv
<1>6. ReportInv'
  BY <1>1, <1>3 DEF RunInv, ReportInv, PassedChecks, FilesFollowResult, AssertOnlyUntouched
<1>7. TraceInv'
  BY <1>1, <1>2, <1>3, NoFilesIs DEF RunInv, TraceInv, MemoryKept
<1> QED
  BY <1>4, <1>5, <1>6, <1>7 DEF RunInv

\* The session's row has the report before its files are saved.
LEMMA SaveSessionStep ==
  ASSUME RunInv, SaveSession
  PROVE  RunInv'
<1> DEFINE s == [session EXCEPT !.finished = TRUE, !.result = run.files.report]
           r == [run EXCEPT !.stage = "files"]
<1>1. /\ run.stage = "save" /\ session' = s /\ run' = r
      /\ UNCHANGED <<invokeVars, out, told, cut>>
  BY DEF SaveSession
<1>2. run.files.report \in Reports \cup {Null}
  BY RunFields DEF RunInv
<1>3. /\ s \in Sessions /\ s.finished = TRUE /\ s.result = run.files.report
      /\ s.saved = session.saved
  BY <1>2 DEF RunInv, RunTypes, Sessions
<1>4. /\ r \in Runs /\ r.stage = "files" /\ r.files = run.files /\ r.error = run.error
      /\ r.seed = run.seed
  BY DEF RunInv, RunTypes, Runs
<1> HIDE DEF r, s
<1>5. RunTypes'
  BY <1>1, <1>3, <1>4 DEF RunInv, RunTypes
<1>6. TopInv'
  BY <1>1 DEF RunInv, TopInv, invokeVars
<1>7. ReportInv'
  BY <1>1, <1>3, <1>4 DEF RunInv, ReportInv, PassedChecks, FilesFollowResult, AssertOnlyUntouched
<1>8. TraceInv'
  BY <1>1, <1>3, <1>4 DEF RunInv, TraceInv, MemoryKept
<1> QED
  BY <1>5, <1>6, <1>7, <1>8 DEF RunInv

\* The files of the run are merged into the session's.
LEMMA SaveFilesStep ==
  ASSUME RunInv, SaveFiles
  PROVE  RunInv'
<1> DEFINE given == Given(run.opts)
           new == Unlike(given, run.files)
           files == Merge(session.saved, new)
           s == [session EXCEPT !.saved = files]
<1>1. /\ run.stage = "files" /\ session' = s /\ run' = Ended("") /\ cut' = FALSE
      /\ UNCHANGED <<invokeVars, out, told>>
  BY DEF SaveFiles
<1>2. RunTypes /\ run.files.report # Null /\ session.result = run.files.report
  BY <1>1 DEF RunInv, ReportInv
<1>3. /\ files \in Files
      /\ files.report = run.files.report \/ run.files.report.by = Host
      /\ files.memory = session.saved.memory \cup run.files.memory
  <2>1. /\ new \in Files /\ new.memory = run.files.memory
        /\ new.report = IF run.files.report = given THEN Null ELSE run.files.report
    BY <1>2, RunFields, UnlikeIs
  <2>2. given # Null => given.by = Host
    BY GivenIs
  <2> HIDE DEF new, given
  <2>3. /\ files \in Files /\ files.memory = session.saved.memory \cup new.memory
        /\ files.report = IF new.report # Null THEN new.report ELSE session.saved.report
    BY <1>2, <2>1, RunFields, MergeIs
  <2> QED
    BY <1>2, <2>1, <2>2, <2>3
<1> HIDE DEF files
<1>4. /\ s \in Sessions /\ s.saved = files /\ s.result = session.result
      /\ s.finished = session.finished
  BY <1>2, <1>3 DEF RunTypes, Sessions
<1> HIDE DEF s
<1>5. /\ run' \in Runs /\ run'.stage = "ended" /\ run'.error = "" /\ run'.files = run.files
      /\ run'.seed = run.seed
  BY <1>1, <1>2, EndedIs DEF RunTypes, Errors
<1>6. RunTypes'
  BY <1>1, <1>2, <1>4, <1>5 DEF RunTypes
<1>7. TopInv'
  BY <1>1 DEF RunInv, TopInv, invokeVars
<1>8. ReportInv'
  BY <1>1, <1>2, <1>3, <1>4, <1>5 DEF ReportInv, PassedChecks, FilesFollowResult, AssertOnlyUntouched
<1>9. told \subseteq files.memory
  BY <1>1, <1>3 DEF RunInv, TraceInv
<1>10. TraceInv'
  BY <1>1, <1>4, <1>5, <1>9 DEF RunInv, TraceInv, MemoryKept
<1> QED
  BY <1>6, <1>7, <1>8, <1>10 DEF RunInv

\* The user asks for another version of the report.
LEMMA RefineStep ==
  ASSUME RunInv, Refine
  PROVE  RunInv'
<1> DEFINE s == [session EXCEPT !.prev = session.result, !.finished = FALSE, !.result = Null]
<1>1. /\ run.stage = "off" /\ session' = s
      /\ UNCHANGED <<invokeVars, run, out, told, cut>>
  BY DEF Refine
<1>2. session.result \in Reports \cup {Null}
  BY RunFields DEF RunInv
<1>3. s \in Sessions /\ s.finished = FALSE /\ s.saved = session.saved
  BY <1>2 DEF RunInv, RunTypes, Sessions
<1> HIDE DEF s
<1>4. RunTypes'
  BY <1>1, <1>3 DEF RunInv, RunTypes
<1>5. TopInv'
  BY <1>1 DEF RunInv, TopInv, invokeVars
<1>6. ReportInv'
  BY <1>1, <1>3 DEF RunInv, ReportInv, PassedChecks, FilesFollowResult, AssertOnlyUntouched
<1>7. TraceInv'
  BY <1>1, <1>3 DEF RunInv, TraceInv, MemoryKept
<1> QED
  BY <1>4, <1>5, <1>6, <1>7 DEF RunInv

-----------------------------------------------------------------------------
(***************************************************************************)
(* The invariant holds.                                                    *)
(***************************************************************************)
LEMMA InitiallyOk == AgentInit => AgentInv
<1> SUFFICES ASSUME AgentInit PROVE AgentInv
  OBVIOUS
<1>1. call = [c \in Calls |-> NoCall] /\ unlogged = 0 /\ config = "ready" /\ faults = 0
  BY DEF AgentInit, Init
<1>2. {c \in Calls : call[c].pc = "running"} = {}
  BY <1>1, NoCallIs
<1>3. CallInv
  BY <1>1, <1>2, NoCallIs, FS_EmptySet, InvokeConstants
     DEF InvokeConstants, CallInv, InvokeTypeOK, BackendInv, OnItsBackend, AuditOwed, Configs
<1>4. /\ run = NoRun /\ out = NoFiles /\ told = {} /\ cut = FALSE
      /\ session \in Sessions /\ session.finished = FALSE
  BY NoFilesIs, AgentConstants DEF AgentConstants, AgentInit, Sessions
<1>5. RunTypes
  BY <1>4, NoRunIs, NoFilesIs DEF RunTypes
<1>6. call[Top].pc = "idle"
  BY <1>1, NoCallIs, TopIsNoSub
<1>7. ReportInv
  BY <1>4, NoRunIs DEF ReportInv, PassedChecks, FilesFollowResult, AssertOnlyUntouched
<1>8. TraceInv
  BY <1>4, NoRunIs, NoFilesIs DEF TraceInv, MemoryKept
<1> QED
  BY <1>3, <1>5, <1>6, <1>7, <1>8 DEF AgentInv, TopInv

\* A handler of the run that makes no call leaves the calls as they are.
LEMMA HandlersKeepCalls ==
  ASSUME AgentInv,
         \/ AgentReturned \/ AgentRaised \/ CheckerDone \/ Accept \/ Recover \/ Reject
         \/ SaveSession \/ SaveFiles \/ SaveFails \/ AlreadyFinished \/ PrepareFails
         \/ Leave \/ Refine \/ ProcessDies
         \/ \E o \in Options, force, clean \in BOOLEAN : Begin(o, force, clean)
  PROVE  CallInv'
<1>1. CallInv
  BY DEF AgentInv
<1>2. config \in Configs /\ faults \in 0 .. MaxFaults
  BY <1>1 DEF CallInv, InvokeTypeOK
<1> USE <1>1
<1>10. faults < MaxFaults => faults + 1 \in 0 .. MaxFaults
  BY <1>2, InvokeConstants DEF InvokeConstants
<1>3. CASE AgentReturned \/ AgentRaised \/ CheckerDone
  BY <1>3, Handed DEF AgentReturned, AgentRaised, CheckerDone
<1>4. CASE Recover
  <2>1. call[Top].pc = "idle"
    BY <1>4 DEF AgentInv, TopInv, Recover, Judged
  <2> QED
    BY <1>4, <2>1, Handed DEF Recover
<1>5. ASSUME NEW o \in Options, NEW force \in BOOLEAN, NEW clean \in BOOLEAN,
             Begin(o, force, clean)
      PROVE  CallInv'
  <2>1. call[Top].pc = "idle"
    BY <1>5 DEF AgentInv, TopInv, Begin
  <2>2. o.recovery \in BOOLEAN
    BY AgentConstants DEF AgentConstants
  <2> QED
    BY <1>5, <2>1, <2>2, Handed DEF Begin
<1>6. CASE ProcessDies
  BY <1>6, <1>10, AllCallsEnd DEF ProcessDies
<1>7. CASE SaveFails \/ PrepareFails
  BY <1>2, <1>7, <1>10, NoCallMade DEF SaveFails, PrepareFails
<1>8. CASE Accept \/ Reject \/ SaveSession \/ SaveFiles \/ AlreadyFinished \/ Leave \/ Refine
  BY <1>2, <1>8, NoCallMade
     DEF Accept, Reject, SaveSession, SaveFiles, AlreadyFinished, Leave, Refine, invokeVars
<1> QED
  BY <1>3, <1>4, <1>5, <1>6, <1>7, <1>8

\* The ends of a run.
LEMMA EndSteps ==
  ASSUME AgentInv,
         \/ AgentRaised \/ Reject \/ SaveFails \/ AlreadyFinished \/ PrepareFails
         \/ Leave \/ ProcessDies
  PROVE  RunInv'
<1>1. RunInv /\ Top \in Calls /\ call \in [Calls -> CallStates]
  BY TopIsNoSub DEF AgentInv, RunInv, CallInv, InvokeTypeOK
<1>2. run.stage \notin {"asking", "checking"} => call[Top].pc = "idle"
  BY DEF AgentInv, TopInv
<1>3. CASE AgentRaised
  <2>1. call'[Top].pc = "idle"
    BY <1>1, <1>3, InvokedIs DEF AgentRaised
  <2> QED
    BY <1>1, <1>3, <2>1, RunEnds DEF AgentRaised, Asking, Errors
<1>4. CASE Reject
  BY <1>1, <1>2, <1>4, RunEnds DEF Reject, Judged, Errors, invokeVars
<1>5. CASE SaveFails
  <2>1. cut \in BOOLEAN /\ cut' = (cut \/ run.stage = "files")
    BY <1>1, <1>5 DEF RunInv, RunTypes, SaveFails
  <2>2. (run.stage # "files" /\ cut' = cut) \/ cut' = TRUE
    BY <2>1
  <2> QED
    BY <1>1, <1>2, <1>5, <2>2, RunEnds DEF SaveFails, Errors
<1>6. CASE AlreadyFinished
  BY <1>1, <1>2, <1>6, RunEnds DEF AlreadyFinished, Errors, invokeVars
<1>7. CASE PrepareFails
  BY <1>1, <1>2, <1>7, RunEnds DEF PrepareFails, Errors
<1>8. CASE Leave
  BY <1>1, <1>2, <1>8, RunGone DEF Leave, invokeVars
<1>9. CASE ProcessDies
  <2>1. call'[Top].pc = "idle"
    BY <1>1, <1>9, NoCallIs DEF ProcessDies
  <2> QED
    <3>1. cut \in BOOLEAN /\ cut' = (cut \/ run.stage = "files")
      BY <1>1, <1>9 DEF RunInv, RunTypes, ProcessDies
    <3>2. (run.stage # "files" /\ cut' = cut) \/ cut' = TRUE
      BY <3>1
    <3> QED
      BY <1>1, <1>9, <2>1, <3>2, RunGone DEF ProcessDies
<1> QED
  BY <1>3, <1>4, <1>5, <1>6, <1>7, <1>8, <1>9

LEMMA NextKeeps == AgentInv /\ [AgentNext]_vars => AgentInv'
<1> SUFFICES ASSUME AgentInv, [AgentNext]_vars PROVE AgentInv'
  OBVIOUS
<1>1. CallInv /\ RunInv /\ Top \in Calls
  BY TopIsNoSub DEF AgentInv, RunInv
<1>2. SUFFICES CallInv' /\ RunInv'
  BY DEF AgentInv, RunInv
<1>3. CASE Step(Top) /\ UNCHANGED runVars
  BY <1>1, <1>3, StepOfCall, RunStays
<1>4. CASE AgentAnswers
  <2>1. CallInv'
    BY <1>1, <1>4, AnsweredStep DEF AgentAnswers, Answers
  <2> QED
    BY <1>1, <1>4, <2>1, AgentAnswersStep
<1>5. CASE CheckerAnswers
  <2>1. CallInv'
    BY <1>1, <1>5, AnsweredStep DEF CheckerAnswers
  <2> QED
    BY <1>1, <1>5, <2>1, CheckerAnswersStep
<1>6. CASE AgentReturned \/ CheckerDone
  BY <1>1, <1>6, HandlersKeepCalls, AgentReturnedStep, CheckerDoneStep
<1>7. CASE Accept \/ Recover
  BY <1>1, <1>7, HandlersKeepCalls, AcceptStep, RecoverStep
<1>8. CASE SaveSession \/ SaveFiles \/ Refine
  BY <1>1, <1>8, HandlersKeepCalls, SaveSessionStep, SaveFilesStep, RefineStep
<1>9. CASE AgentRaised \/ Reject \/ SaveFails \/ AlreadyFinished \/ PrepareFails
           \/ Leave \/ ProcessDies
  BY <1>9, HandlersKeepCalls, EndSteps
<1>10. ASSUME NEW o \in Options, NEW force \in BOOLEAN, NEW clean \in BOOLEAN,
             Begin(o, force, clean)
       PROVE  CallInv' /\ RunInv'
  BY <1>1, <1>10, HandlersKeepCalls, BeginStep
<1>11. ASSUME NEW v \in Configs, Configure(v), UNCHANGED runVars
       PROVE  CallInv' /\ RunInv'
  <2>1. faults + 1 \in 0 .. MaxFaults
    BY <1>1, <1>11, InvokeConstants DEF InvokeConstants, Configure, CallInv, InvokeTypeOK
  <2>2. CallInv'
    BY <1>1, <1>11, <2>1, NoCallMade DEF Configure
  <2> QED
    BY <1>1, <1>11, <2>2, RunStays DEF Configure
<1>12. ASSUME NEW s \in Subs, SubStep(s), UNCHANGED runVars
       PROVE  CallInv' /\ RunInv'
  BY <1>1, <1>12, SubStepOfCall, RunStays
<1>13. CASE UNCHANGED vars
  <2>1. CallInv'
    BY <1>1, <1>13, NoCallMade DEF vars, invokeVars, CallInv, InvokeTypeOK
  <2> QED
    BY <1>1, <1>13, <2>1, RunStays DEF vars, invokeVars
<1>14. RunStep => CallInv' /\ RunInv'
  BY <1>3, <1>4, <1>5, <1>6, <1>7, <1>8, <1>9 DEF RunStep
<1>15. World => CallInv' /\ RunInv'
  BY <1>8, <1>9, <1>10, <1>11 DEF World
<1> QED
  BY <1>12, <1>13, <1>14, <1>15 DEF AgentNext

LEMMA AgentInvariant == AgentSpec => []AgentInv
BY InitiallyOk, NextKeeps, PTL DEF AgentSpec

-----------------------------------------------------------------------------
(***************************************************************************)
(* The theorems.                                                           *)
(***************************************************************************)
\* Calls, run, session and files have their types.
THEOREM AgentTypes == AgentSpec => []TypeOK
<1>1. AgentInv => TypeOK
  BY DEF AgentInv, CallInv, RunTypes, TypeOK
<1> QED
  BY <1>1, AgentInvariant, PTL

\* Every attempt that got as far as a provider has its LLMDebugLog row, or is in
\* progress: whatever configuration, retries and sub-agents do.
THEOREM AuditKept == AgentSpec => []AuditOwed
<1>1. AgentInv => AuditOwed
  BY DEF AgentInv, CallInv
<1> QED
  BY <1>1, AgentInvariant, PTL

\* A sub-agent works on the file system of the agent that spawned it, also when
\* the parent has given up waiting and the executor makes another call.
THEOREM SpawnersBackend == AgentSpec => []BackendOfSpawner
<1>1. AgentInv => BackendOfSpawner
  <2> SUFFICES ASSUME AgentInv PROVE BackendOfSpawner
    OBVIOUS
  <2>1. \A c \in Calls : OnItsBackend(c, call[c])
    BY DEF AgentInv, CallInv, BackendInv
  <2>2. \A s \in Subs : s \in Calls /\ s # Top
    BY TopIsNoSub DEF Calls
  <2> QED
    BY <2>1, <2>2, TopIsNoSub DEF OnItsBackend, BackendOfSpawner
<1> QED
  BY <1>1, AgentInvariant, PTL

\* The agent's report that a finished session shows is the one in its files, unless a
\* run was cut off between the two saves; a text the host supplied is shown unsaved.
THEOREM ResultsHaveFiles == AgentSpec => []FilesFollowResult
<1>1. AgentInv => FilesFollowResult
  BY DEF AgentInv, ReportInv
<1> QED
  BY <1>1, AgentInvariant, PTL

\* The assertion after the checks fails only for a report that the agent was given.
THEOREM AssertsOfUntouched == AgentSpec => []AssertOnlyUntouched
<1>1. AgentInv => AssertOnlyUntouched
  BY DEF AgentInv, ReportInv
<1> QED
  BY <1>1, AgentInvariant, PTL

\* memory.md has the trace of every call of the run that returned one.
THEOREM TracesAreKept == AgentSpec => []MemoryKept
<1>1. AgentInv => MemoryKept
  BY DEF AgentInv, TraceInv
<1> QED
  BY <1>1, AgentInvariant, PTL

-----------------------------------------------------------------------------
(***************************************************************************)
(* A run is one of AgentRun's.                                             *)
(***************************************************************************)
\* Where only the stage within a run changes, AgentRun's does not.
LEMMA RunStutters ==
  ASSUME Phase' = Phase, run'.round = run.round, session'.result = session.result
  PROVE  UNCHANGED Run!vars
  BY DEF Asked, Shown, Run!vars

LEMMA RunFailsOrLeaves ==
  ASSUME session'.result = session.result,
         \/ Phase \in {"off", "working"} /\ Phase' = "ended"
         \/ Phase # "off" /\ Phase' = "off"
  PROVE  Run!Next
<1>1. Asked' = 0 /\ Shown' = Shown
  BY DEF Asked, Shown
<1> QED
  BY <1>1 DEF Run!Next, Run!Fail, Run!Leave

\* The first question.
LEMMA RunStarts ==
  ASSUME AgentInv, NEW o \in Options, NEW force \in BOOLEAN, NEW clean \in BOOLEAN,
         Begin(o, force, clean)
  PROVE  Run!Start
<1>1. run'.stage = "asking" /\ run'.round = 0
  BY NoRunIs DEF Begin, Runs
<1>2. Phase = "off" /\ Phase' = "working"
  BY <1>1 DEF Phase, Begin
<1>3. 0 + 1 = 1 /\ Asked' = 1
  BY <1>1, <1>2 DEF Asked
<1>4. session \in Sessions /\ session.result \in Reports \cup {Null}
  BY RunFields DEF AgentInv, RunTypes
<1>5. session'.result = Older(session.result)
  BY <1>4 DEF Begin, Sessions
<1>6. Shown' = Shown
  BY <1>4, <1>5, OlderIs DEF Shown
<1> QED
  BY <1>2, <1>3, <1>6 DEF Run!Start

\* A report that is given back to the agent is asked for once more, and no more
\* than MaxRecoveries times.
LEMMA RunAsksAgain ==
  ASSUME AgentInv, Recover
  PROVE  Run!AskAgain
<1>1. /\ run \in Runs /\ run.round \in 0 .. MaxRecoveries /\ run.round < MaxRecoveries
      /\ MaxRecoveries \in Nat
  BY RunFields, AgentConstants DEF AgentConstants, AgentInv, RunTypes, Recover
<1>2. run'.stage = "asking" /\ run'.round = run.round + 1
  BY <1>1 DEF Recover, Runs
<1>3. Phase = "working" /\ Phase' = "working"
  BY <1>2 DEF Phase, Recover, Judged
<1>4. Asked = run.round + 1 /\ Asked' = run.round + 1 + 1
  BY <1>2, <1>3 DEF Asked
<1>5. Asked <= MaxRecoveries /\ Asked' = Asked + 1
  BY <1>1, <1>4
<1>6. Shown' = Shown
  BY DEF Shown, Recover
<1> QED
  BY <1>3, <1>5, <1>6 DEF Run!AskAgain

\* The report is the session's: a fit one.
LEMMA RunDelivers ==
  ASSUME AgentInv, SaveSession
  PROVE  Run!Deliver
<1>1. /\ session \in Sessions /\ run \in Runs /\ run.stage = "save"
      /\ run.files.report # Null /\ run.files.report.kind = "fit"
  BY DEF AgentInv, RunTypes, ReportInv, SaveSession
<1>2. run'.stage = "files" /\ session'.result = run.files.report
  BY <1>1 DEF SaveSession, Runs, Sessions
<1>3. Phase = "working" /\ Phase' = "ended" /\ Asked' = 0
  BY <1>1, <1>2 DEF Phase, Asked
<1>4. Shown' = "fit"
  BY <1>1, <1>2 DEF Shown
<1> QED
  BY <1>3, <1>4 DEF Run!Deliver

LEMMA RunStepOfAgentRun == AgentInv /\ [AgentNext]_vars => [Run!Next]_Run!vars
<1> SUFFICES ASSUME AgentInv, [AgentNext]_vars PROVE Run!Next \/ UNCHANGED Run!vars
  OBVIOUS
<1>1. RunTypes /\ run \in Runs /\ session \in Sessions
  BY DEF AgentInv, RunTypes
<1>2. \A e \in Errors : Ended(e).stage = "ended"
  BY <1>1, EndedIs
<1>3. CASE UNCHANGED <<run, session>>
  BY <1>3, RunStutters DEF Phase
<1>4. CASE AgentReturned
  <2>1. run'.stage \in {"checking", "judged"} /\ run'.round = run.round
    BY <1>1, <1>4 DEF AgentReturned, Runs
  <2> QED
    BY <1>4, <2>1, RunStutters DEF Phase, AgentReturned, Asking
<1>5. CASE CheckerDone
  <2>1. run'.stage = "judged" /\ run'.round = run.round
    BY <1>1, <1>5 DEF CheckerDone, Runs
  <2> QED
    BY <1>5, <2>1, RunStutters DEF Phase, CheckerDone, Checking
<1>6. CASE AgentRaised \/ Reject
  <2>1. run'.stage = "ended" /\ session' = session /\ run.stage \in {"asking", "judged"}
    BY <1>2, <1>6 DEF AgentRaised, Reject, Asking, Judged, Errors
  <2> QED
    BY <2>1, RunFailsOrLeaves DEF Phase
<1>7. CASE Accept
  <2>1. run.stage = "judged" /\ session' = session
    BY <1>7 DEF Accept, Judged
  <2>2. CASE run.files.report = Null
    <3>1. run'.stage = "ended"
      BY <1>2, <1>7, <2>2 DEF Accept, Errors
    <3> QED
      BY <2>1, <3>1, RunFailsOrLeaves DEF Phase
  <2>3. CASE run.files.report # Null
    <3>1. run'.stage = "save" /\ run'.round = run.round
      BY <1>1, <1>7, <2>3 DEF Accept, Runs
    <3> QED
      BY <2>1, <3>1, RunStutters DEF Phase
  <2> QED
    BY <2>2, <2>3
<1>8. CASE Recover \/ SaveSession \/ \E o \in Options, force, clean \in BOOLEAN : Begin(o, force, clean)
  BY <1>8, RunAsksAgain, RunDelivers, RunStarts DEF Run!Next
<1>9. CASE SaveFiles \/ (SaveFails /\ run.stage = "files")
  <2>1. /\ run.stage = "files" /\ run'.stage = "ended" /\ session'.result = session.result
    BY <1>1, <1>2, <1>9 DEF SaveFiles, SaveFails, Sessions, Errors
  <2>2. Phase' = Phase /\ Asked' = 0 /\ Asked = 0
    BY <2>1 DEF Phase, Asked
  <2> QED
    BY <2>1, <2>2 DEF Shown, Run!vars
<1>10. CASE \/ SaveFails /\ run.stage # "files"
            \/ AlreadyFinished \/ PrepareFails
  <2>1. /\ run.stage \in {"save", "off"} /\ run'.stage = "ended"
        /\ session'.result = session.result
    BY <1>1, <1>2, <1>10 DEF SaveFails, AlreadyFinished, PrepareFails, Sessions, Errors
  <2> QED
    BY <2>1, RunFailsOrLeaves DEF Phase
<1>11. CASE Leave \/ ProcessDies
  <2>1. run.stage # "off" /\ run'.stage = "off" /\ session' = session
    BY <1>11, NoRunIs DEF Leave, ProcessDies
  <2>2. Phase # "off" /\ Phase' = "off"
    BY <2>1 DEF Phase
  <2> QED
    BY <2>1, <2>2, RunFailsOrLeaves
<1>12. CASE Refine
  <2>1. run.stage = "off" /\ run' = run /\ session'.result = Null
    BY <1>1, <1>12 DEF Refine, Sessions
  <2>2. Phase = "off" /\ Phase' = Phase /\ Asked' = Asked /\ Shown' = Null
    BY <2>1 DEF Phase, Asked, Shown
  <2> QED
    BY <2>2 DEF Run!Next, Run!Refine
<1>13. UNCHANGED runVars \/ AgentAnswers \/ CheckerAnswers => UNCHANGED <<run, session>>
  BY DEF runVars, AgentAnswers, CheckerAnswers
<1>14. UNCHANGED vars => UNCHANGED <<run, session>>
  BY DEF vars, runVars
<1> QED
  BY <1>3, <1>4, <1>5, <1>6, <1>7, <1>8, <1>9, <1>10, <1>11, <1>12, <1>13, <1>14
     DEF AgentNext, RunStep, World

LEMMA RunInit == AgentInit => Run!Init
<1> SUFFICES ASSUME AgentInit PROVE Run!Init
  OBVIOUS
<1>1. run.stage = "off" /\ session.result = Null
  BY NoRunIs DEF AgentInit
<1>2. Phase = "off" /\ Shown = Null
  BY <1>1 DEF Phase, Shown
<1>3. Asked = 0
  BY <1>2 DEF Asked
<1> QED
  BY <1>2, <1>3 DEF Run!Init

\* A run asks at most 1 + MaxRecoveries times, ends with a fit report or an error, and
\* a finished session's report stays until the user refines it or has it made again.
\* (That a run ends is left to TLC.)
THEOREM RunRefines == AgentSpec => Run!Safety
BY RunInit, RunStepOfAgentRun, AgentInvariant, PTL DEF AgentSpec, Run!Safety
=============================================================================
