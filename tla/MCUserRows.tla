----------------------------- MODULE MCUserRows ------------------------------
(***************************************************************************)
(* The rows of a user that requests read, and write after somebody else may   *)
(* have done so: her MCP server with its tokens, her account, and what is      *)
(* known of her.  They have nothing in common here, so a behaviour is one of   *)
(* them: the other parts stay as they begin.                                  *)
(***************************************************************************)
EXTENDS OAuthTokens, UserContext, Accounts

VARIABLE focus

First(S) == CHOOSE e \in S : TRUE

RowsInit ==
  /\ TokenInit /\ UserInit /\ AccountInit
  /\ focus \in {"server", "user", "account"}
  /\ focus # "server" => server.site = First(Sites)
  /\ focus # "user" => user.profile = ""

RowsNext ==
  \/ focus = "server" /\ TokenNext /\ UNCHANGED <<userVars, accountVars, focus>>
  \/ focus = "user" /\ UserNext /\ UNCHANGED <<tokenVars, accountVars, focus>>
  \/ focus = "account" /\ AccountNext /\ UNCHANGED <<tokenVars, userVars, focus>>

RowsSpec == RowsInit /\ [][RowsNext]_<<tokenVars, userVars, accountVars, focus>>

(* Each part of the state has its types. *)
RowsTypeOK == TokenTypeOK /\ UserTypeOK /\ AccountTypeOK
=============================================================================
