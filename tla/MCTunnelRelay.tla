---------------------------- MODULE MCTunnelRelay ----------------------------
(***************************************************************************)
(* Two calls of tools on one desktop, over a socket that is replaced by       *)
(* another, with one send that fails.                                        *)
(***************************************************************************)
EXTENDS TunnelRelay
=============================================================================
