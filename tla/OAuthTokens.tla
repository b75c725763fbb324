----------------------------- MODULE OAuthTokens -----------------------------
(***************************************************************************)
(* The OAuth tokens in the row of an MCP server.  A refresh token is         *)
(* exchanged at the server's provider for an access token and, if the         *)
(* provider rotates, for its own successor; from then on only that one is     *)
(* accepted, and it is nowhere but in the process that got it until that has  *)
(* saved it.  Three kinds of processes do so:                                *)
(*   requests of agents, which get a 401 (RefreshableTokenAuth): they hold    *)
(*     the row's lock from reading the refresh token to saving the next one;  *)
(*   loaders, which connect a session's servers (_ensure_connection and       *)
(*     oauth_refresh): with the refresh token of a row read before, and only  *)
(*     the save under the lock;                                               *)
(*   updates by the user (perform_update): without a lock, and with a check   *)
(*     of the connection between the exchange and the save.                   *)
(* The access token is saved with the refresh token.  A server may refuse it  *)
(* at any time, so it is not kept here.                                       *)
(***************************************************************************)
EXTENDS Integers, FiniteSets

CONSTANTS
  Requests, Loaders, Updates,   \* processes
  Sites,       \* the sites of providers, as oauth_metadata names them
  Null,
  MaxTokens,   \* bound on refresh tokens
  MaxLosses    \* bound on crashes, failed saves and revocations

ASSUME TokenConstants ==
  /\ MaxTokens \in Nat /\ MaxLosses \in Nat
  /\ Null \notin Requests \cup Loaders \cup Updates /\ Null \notin 0 .. MaxTokens
  /\ Requests \cap Loaders = {} /\ Requests \cap Updates = {} /\ Loaders \cap Updates = {}

VARIABLES
  server,   \* the MCPServer row: its oauth_metadata and refresh_token
  lock,     \* who holds the row's lock
  proc,
  live,     \* the refresh tokens the providers accept
  home,     \* of which site each refresh token is
  last,     \* the newest refresh token
  spoilt,   \* history: why the row's refresh token need not be live
  losses

tokenVars == <<server, lock, proc, live, home, last, spoilt, losses>>

Processes == Requests \cup Loaders \cup Updates
Tokens == 0 .. MaxTokens
ServerRows == [site : Sites, refresh : Tokens]

Idle == [pc |-> "idle", read |-> Null, refresh |-> Null, site |-> Null, got |-> Null]

(* perform_create has saved the server with the tokens of its registration *)
TokenInit ==
  /\ \E s \in Sites : server = [site |-> s, refresh |-> 0] /\ home = [t \in Tokens |-> s]
  /\ lock = Null
  /\ proc = [p \in Processes |-> Idle]
  /\ live = {0} /\ last = 0
  /\ spoilt = "" /\ losses = 0

-----------------------------------------------------------------------------
(* Variant: no lock *)
Unlocked(p) == TRUE

(* select_for_update waits for whoever has the row *)
CanLock(p) == lock = Null

(* A request of an agent got 401.  *)
Unauthorized(p) ==
  /\ p \in Requests /\ proc[p].pc = "idle"
  /\ proc' = [proc EXCEPT ![p].pc = "unauthorized"]
  /\ UNCHANGED <<server, lock, live, home, last, spoilt, losses>>

Reading(refresh, site) ==
  [Idle EXCEPT !.pc = "exchange", !.read = server.refresh, !.refresh = refresh,
               !.site = site]

(* It takes the row's lock and reads the row anew.  It does not look whether  *)
(* another request has refreshed the token since.                            *)
LockRow(p) ==
  /\ proc[p].pc = "unauthorized" /\ CanLock(p)
  /\ lock' = p
  /\ proc' = [proc EXCEPT ![p] = Reading(server.refresh, server.site)]
  /\ UNCHANGED <<server, live, home, last, spoilt, losses>>

(* A loader has read the row, and its connection did not work: oauth_refresh *)
Load(p) ==
  /\ p \in Loaders /\ proc[p].pc = "idle"
  /\ proc' = [proc EXCEPT ![p] = Reading(server.refresh, server.site)]
  /\ UNCHANGED <<server, lock, live, home, last, spoilt, losses>>

(* The user changes the server, maybe its URL, and keeps the tokens and the   *)
(* provider they are of,                                                    *)
Patch(p) ==
  /\ p \in Updates /\ proc[p].pc = "idle"
  /\ proc' = [proc EXCEPT ![p] = Reading(server.refresh, server.site)]
  /\ UNCHANGED <<server, lock, live, home, last, spoilt, losses>>

(* or authorizes anew, maybe at another URL: discover_oauth finds a provider    *)
(* and registers there,                                                     *)
Discovered(s) == [Idle EXCEPT !.pc = "consent", !.site = s]

Discover(p, s) ==
  /\ p \in Updates /\ proc[p].pc = "idle"
  /\ proc' = [proc EXCEPT ![p] = Discovered(s)]
  /\ UNCHANGED <<server, lock, live, home, last, spoilt, losses>>

(* oauth_exchange gives the browser a refresh token for the user's consent,    *)
Granted(k, refresh) == [k EXCEPT !.pc = "granted", !.refresh = refresh]

Reauthorize(p) ==
  /\ proc[p].pc = "consent" /\ last < MaxTokens
  /\ last' = last + 1 /\ live' = live \cup {last'}
  /\ home' = [home EXCEPT ![last'] = proc[p].site]
  /\ proc' = [proc EXCEPT ![p] = Granted(@, last')]
  /\ UNCHANGED <<server, lock, spoilt, losses>>

(* and the browser puts it into an update.                                   *)
PatchTokens(p) ==
  /\ proc[p].pc = "granted"
  /\ proc' = [proc EXCEPT ![p] = Reading(proc[p].refresh, proc[p].site)]
  /\ UNCHANGED <<server, lock, live, home, last, spoilt, losses>>

-----------------------------------------------------------------------------
Accepted(refresh, site) == refresh \in live /\ home[refresh] = site

(* Variant: the answer's refresh token is not looked at *)
OldRefreshToken(refresh, answer) == refresh

(* Variant: it is taken as it is *)
AsAnswered(refresh, answer) == answer

(* token_data.get("refresh_token") or refresh_token *)
NewRefreshToken(refresh, answer) == IF answer = Null THEN refresh ELSE answer

Obtained(k, answer) ==
  [k EXCEPT !.pc = "save", !.got = NewRefreshToken(k.refresh, answer)]

(* resolve_oauth_tokens: the provider answers, with a new refresh token or    *)
(* without                                                                  *)
Rotated(p) ==
  LET k == proc[p] IN
  /\ k.pc = "exchange" /\ Accepted(k.refresh, k.site) /\ last < MaxTokens
  /\ last' = last + 1 /\ home' = [home EXCEPT ![last'] = k.site]
  /\ live' = (live \ {k.refresh}) \cup {last'}
  /\ proc' = [proc EXCEPT ![p] = Obtained(@, last')]
  /\ UNCHANGED <<server, lock, spoilt, losses>>
Renewed(p) ==
  /\ proc[p].pc = "exchange" /\ Accepted(proc[p].refresh, proc[p].site)
  /\ proc' = [proc EXCEPT ![p] = Obtained(@, Null)]
  /\ UNCHANGED <<server, lock, live, home, last, spoilt, losses>>

Freed(p) == IF lock = p THEN Null ELSE lock

(* The provider refuses the refresh token, or cannot be reached: a request     *)
(* hands on its 401, a loader does without the server, an update is an error. *)
Refused(p) ==
  /\ proc[p].pc = "exchange"
  /\ proc' = [proc EXCEPT ![p] = Idle] /\ lock' = Freed(p)
  /\ UNCHANGED <<server, live, home, last, spoilt, losses>>

(* Somebody has saved another refresh token or site since the one that was     *)
(* exchanged was read from the row.                                         *)
Changed(k) ==
  k.refresh = k.read /\ (server.refresh # k.read \/ server.site # k.site)

(* What is got is saved.  An update saves the site as well; a loader may find  *)
(* a site that is not the one it has tokens of.                              *)
Save(p) ==
  LET k == proc[p] IN
  /\ k.pc = "save" /\ lock = (IF p \in Requests THEN p ELSE Null)
  /\ server' = [refresh |-> k.got, site |-> IF p \in Updates THEN k.site ELSE server.site]
  /\ spoilt' = IF p \notin Requests /\ Changed(k) THEN "stale"
             ELSE IF k.got = server.refresh THEN spoilt ELSE ""
  /\ proc' = [proc EXCEPT ![p] = Idle] /\ lock' = Freed(p)
  /\ UNCHANGED <<live, home, last, losses>>

-----------------------------------------------------------------------------
(* A token that was got is not saved.                                       *)
Dropped(p, why) ==
  /\ proc[p].pc = "save"
  /\ spoilt' = IF proc[p].refresh = server.refresh THEN why ELSE spoilt
  /\ proc' = [proc EXCEPT ![p] = Idle] /\ lock' = Freed(p)
  /\ UNCHANGED <<server, live, home, last>>

(* the check of an update's connection fails, after the exchange *)
Invalid(p) == p \in Updates /\ Dropped(p, "invalid") /\ UNCHANGED losses

(* the process dies or the transaction fails *)
Lose(p) == losses < MaxLosses /\ Dropped(p, "lost") /\ losses' = losses + 1

(* the provider ends the grant *)
Revoke ==
  /\ losses < MaxLosses /\ server.refresh \in live
  /\ live' = live \ {server.refresh} /\ spoilt' = "revoked" /\ losses' = losses + 1
  /\ UNCHANGED <<server, lock, proc, home, last>>

TokenNext ==
  \/ \E p \in Processes :
       \/ Unauthorized(p) \/ LockRow(p) \/ Load(p) \/ Patch(p)
       \/ \E s \in Sites : Discover(p, s)
       \/ Reauthorize(p) \/ PatchTokens(p)
       \/ Rotated(p) \/ Renewed(p) \/ Refused(p) \/ Save(p)
       \/ Invalid(p) \/ Lose(p)
  \/ Revoke

TokenSpec == TokenInit /\ [][TokenNext]_tokenVars

-----------------------------------------------------------------------------
(* Properties                                                              *)

ProcStates ==
  [pc : {"idle", "unauthorized", "consent", "granted", "exchange", "save"},
   read : Tokens \cup {Null}, refresh : Tokens \cup {Null}, site : Sites \cup {Null},
   got : Tokens \cup {Null}]

TokenTypeOK ==
  /\ server \in ServerRows
  /\ lock \in Requests \cup {Null}
  /\ proc \in [Processes -> ProcStates]
  /\ \A p \in Processes :
       /\ proc[p].pc \in {"consent", "granted", "exchange", "save"} => proc[p].site \in Sites
       /\ proc[p].pc \in {"granted", "exchange", "save"} => proc[p].refresh \in Tokens
       /\ proc[p].pc = "save" => proc[p].got \in Tokens
       /\ proc[p].pc = "unauthorized" => p \in Requests
  /\ home \in [Tokens -> Sites]
  /\ live \subseteq 0 .. last /\ last \in Tokens /\ losses \in 0 .. MaxLosses
  /\ spoilt \in {"", "stale", "invalid", "lost", "revoked"}

(* p has, and will save, the successor of a refresh token *)
Replacing(p, refresh) == proc[p].pc = "save" /\ proc[p].refresh = refresh

(* The refresh token in the row is one that its provider accepts, or its      *)
(* successor is about to be saved, unless it was revoked or its successor     *)
(* lost, dropped because the connection did not work, or overwritten by an    *)
(* exchange that was not made under the lock.  Requests alone, however many    *)
(* refresh at a time, never lose one.                                        *)
RefreshTokenKept ==
  spoilt = "" => \/ Accepted(server.refresh, server.site)
                 \/ \E p \in Processes : Replacing(p, server.refresh)

(* A request that has waited for the lock has a refresh token that is not     *)
(* used up: what other requests did meanwhile does not make it fail; only a   *)
(* loader or an update does, that exchanges the same token without the lock.  *)
QueuedRequestsServed ==
  \A p \in Requests : proc[p].pc = "exchange" /\ spoilt = "" =>
    \/ Accepted(proc[p].refresh, proc[p].site)
    \/ \E q \in Loaders \cup Updates : Replacing(q, proc[p].refresh)
=============================================================================
