---------------------------- MODULE MCDeepAgent ----------------------------
(* Instances of DeepAgent for TLC.                                         *)
EXTENDS DeepAgent

(* an executor that tries again and has its reports looked at by another      *)
(* agent, and hosts that do neither, whose template of the report is, or is   *)
(* not, one to accept                                                       *)
MCOptions == {[recovery |-> TRUE,  quality |-> TRUE,  template |-> "none"],
              [recovery |-> FALSE, quality |-> FALSE, template |-> "fit"],
              [recovery |-> FALSE, quality |-> FALSE, template |-> "unfit"]}
=============================================================================
