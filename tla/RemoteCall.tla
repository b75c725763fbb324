------------------------------ MODULE RemoteCall ------------------------------
(***************************************************************************)
(* What the relay promises those who call a desktop through a tunnel: a call *)
(* comes to an end; it returns what a desktop answered that ran this very    *)
(* call, or reports a failure; a desktop runs a call at most once; and what   *)
(* happens after its end - a late run, a late answer - changes nothing.      *)
(***************************************************************************)
CONSTANTS Calls, Desktops, NoResult, Failures

VARIABLES phase,    \* of each call: "new", "asked", "done"
          ran,      \* the desktops that ran it
          result    \* what it returned

vars == <<phase, ran, result>>

Init == /\ phase = [c \in Calls |-> "new"]
        /\ ran = [c \in Calls |-> {}]
        /\ result = [c \in Calls |-> NoResult]

Ask(c) == /\ phase[c] = "new"
          /\ phase' = [phase EXCEPT ![c] = "asked"]
          /\ UNCHANGED <<ran, result>>

(* possibly after the caller has given up *)
Run(c, d) == /\ phase[c] # "new" /\ d \notin ran[c]
             /\ ran' = [ran EXCEPT ![c] = @ \cup {d}]
             /\ UNCHANGED <<phase, result>>

End(c, r) == /\ phase[c] = "asked" /\ r \in ran[c] \cup Failures
             /\ phase' = [phase EXCEPT ![c] = "done"]
             /\ result' = [result EXCEPT ![c] = r]
             /\ UNCHANGED ran

Next == \E c \in Calls : \/ Ask(c)
                         \/ \E d \in Desktops : Run(c, d)
                         \/ \E r \in Desktops \cup Failures : End(c, r)

Safety == Init /\ [][Next]_vars

Spec == /\ Safety
        /\ \A c \in Calls : phase[c] = "asked" ~> phase[c] = "done"
=============================================================================
