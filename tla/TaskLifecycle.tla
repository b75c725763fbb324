--------------------------- MODULE TaskLifecycle ---------------------------
(***************************************************************************)
(* What the worker-task machinery promises about one row at a time: the    *)
(* state machine of MANUAL.md 7.3 with the ownership column beside it.     *)
(* There are no nodes, threads, locks, heartbeats or slots here.           *)
(*                                                                         *)
(*   pending -> running -> completed                                       *)
(*                      -> failed -> (retries < MaxRetries)  -> pending    *)
(*                                -> (retries >= MaxRetries) -> fatal      *)
(***************************************************************************)
EXTENDS Naturals

CONSTANTS Tasks, Execs, NoExec, MaxRetries

VARIABLES status, owner, retries

vars == <<status, owner, retries>>

Init ==
  /\ status  = [t \in Tasks |-> "pending"]
  /\ owner   = [t \in Tasks |-> NoExec]
  /\ retries = [t \in Tasks |-> 0]

\* Handed out, or taken away from an executor believed dead and handed out again.
HandOut(S) ==
  /\ \A t \in S : status[t] \in {"pending", "running"}
  /\ status' = [t \in Tasks |-> IF t \in S THEN "running" ELSE status[t]]
  /\ owner'  = [t \in Tasks |-> IF t \in S THEN NoExec ELSE owner[t]]
  /\ UNCHANGED retries

\* An executor takes a task that was handed out and that nobody owns.
Own(t, e) ==
  /\ status[t] = "running"
  /\ owner[t] = NoExec
  /\ owner' = [owner EXCEPT ![t] = e]
  /\ UNCHANGED <<status, retries>>

\* Its owner, and nobody else, ends a running task; the row keeps its name.
Finish(t) ==
  /\ status[t] = "running"
  /\ owner[t] # NoExec
  /\ \E s \in {"completed", "failed"} : status' = [status EXCEPT ![t] = s]
  /\ UNCHANGED <<owner, retries>>

\* Failed tasks are tried again until the retries are used up.
Sort(S) ==
  /\ \A t \in S : status[t] = "failed" /\ owner[t] # NoExec
  /\ status'  = [t \in Tasks |-> IF t \notin S THEN status[t]
                                 ELSE IF retries[t] < MaxRetries THEN "pending"
                                 ELSE "fatal_failure"]
  /\ retries' = [t \in Tasks |-> IF t \in S /\ retries[t] < MaxRetries
                                 THEN retries[t] + 1 ELSE retries[t]]
  /\ UNCHANGED owner

Next ==
  \/ \E S \in SUBSET Tasks : HandOut(S) \/ Sort(S)
  \/ \E t \in Tasks : Finish(t) \/ \E e \in Execs : Own(t, e)

Spec == Init /\ [][Next]_vars
=============================================================================
