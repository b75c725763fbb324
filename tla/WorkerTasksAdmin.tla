------------------------- MODULE WorkerTasksAdmin -------------------------
(***************************************************************************)
(* WorkerTasks with an administrator who cancels tasks on the change form  *)
(* of WorkerTaskAdmin (admin.py), where status is editable.  The form's    *)
(* view loads the row, then saves all its columns: the ones shown          *)
(* read-only (owner, beat, ...) are written back as they were loaded.      *)
(***************************************************************************)
EXTENDS WorkerTasks

VARIABLE form   \* form[t]: the row as loaded, or NoForm

NoForm == [open |-> FALSE]

adminVars == <<vars, form>>

AdminInit == Init /\ form = [t \in Tasks |-> NoForm]

AdminLoad(t) ==
  /\ form[t] = NoForm /\ Row(t)
  /\ form' = [form EXCEPT ![t] = [open |-> TRUE, owner |-> owner[t], beat |-> beat[t],
                                  retries |-> retries[t]]]
  /\ UNCHANGED vars

AdminCancel(t) ==
  /\ form[t].open /\ Row(t) /\ ~Locked(t)
  /\ status'  = [status EXCEPT ![t] = "fatal_failure"]
  /\ owner'   = [owner EXCEPT ![t] = form[t].owner]
  /\ beat'    = [beat EXCEPT ![t] = form[t].beat]
  /\ retries' = [retries EXCEPT ![t] = form[t].retries]
  /\ form'    = [form EXCEPT ![t] = NoForm]
  /\ UNCHANGED <<envVars, dogVars, free, execVars, faults>>

AdminNext ==
  \/ Next /\ UNCHANGED form
  \/ \E t \in Tasks : AdminLoad(t) \/ AdminCancel(t)

AdminSpec == AdminInit /\ [][AdminNext]_adminVars

\* A task cancelled while its executor runs stays cancelled: _update_task bails
\* out "instead of overwriting the terminal state".
CancelledStaysTerminal ==
  [][\A t \in Tasks : status[t] = "fatal_failure" => status'[t] = "fatal_failure"]_adminVars
=============================================================================
