------------------------------ MODULE AgentRun ------------------------------
(***************************************************************************)
(* What a run of a deep agent promises the executor that starts it: it asks *)
(* the agent for a report at most 1 + MaxRecoveries times, and ends with a  *)
(* report that is fit to be shown or with an error; a finished session's    *)
(* report stays until the user refines it or has it made again.             *)
(***************************************************************************)
EXTENDS Naturals

CONSTANTS Fit,            \* the reports that pass the schema and the validator
          NoReport,
          MaxRecoveries

VARIABLES phase,    \* "off", "working", "ended"
          asked,    \* while it works: how often the agent was asked
          report    \* the report of the session

vars == <<phase, asked, report>>

Init == phase = "off" /\ asked = 0 /\ report = NoReport

Start == /\ phase = "off" /\ phase' = "working" /\ asked' = 1
         /\ UNCHANGED report

AskAgain == /\ phase = "working" /\ asked <= MaxRecoveries
            /\ asked' = asked + 1
            /\ UNCHANGED <<phase, report>>

Deliver == /\ phase = "working"
           /\ phase' = "ended" /\ asked' = 0 /\ report' \in Fit

(* nothing is left to do, or an error: the report is what it was *)
Fail == /\ phase \in {"off", "working"}
        /\ phase' = "ended" /\ asked' = 0
        /\ UNCHANGED report

(* the executor is done with the run, or its process died *)
Leave == /\ phase # "off"
         /\ phase' = "off" /\ asked' = 0
         /\ UNCHANGED report

(* the user asks for another version *)
Refine == /\ phase = "off" /\ report' = NoReport
          /\ UNCHANGED <<phase, asked>>

Next == Start \/ AskAgain \/ Deliver \/ Fail \/ Leave \/ Refine

Safety == Init /\ [][Next]_vars

(* a run comes to its end *)
Spec == Safety /\ (phase = "working" ~> phase # "working")
=============================================================================
