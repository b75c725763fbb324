----------------------------- MODULE TunnelRelay -----------------------------
(***************************************************************************)
(* The tunnel through which agents and views call the MCP servers of a       *)
(* user's desktop: the websocket consumers of a tunnel, its row, and the      *)
(* relay of MCPTunnelManager, which turns a request and an answer, both of    *)
(* them messages to groups of the channel layer, into a call.                *)
(*                                                                         *)
(* A call registers an entry in _relay_sync, starts a listener that joins the *)
(* call's own group, sends the request to the tunnel's group and waits for    *)
(* the entry's event.  A message to a group reaches those in it at that time. *)
(***************************************************************************)
EXTENDS Integers, FiniteSets

CONSTANTS
  Calls,         \* call ids
  Sockets,       \* websocket connections of the tunnel's desktop
  Null,
  MaxBroken      \* bound on failures of the channel layer

ASSUME RelayConstants ==
  /\ MaxBroken \in Nat
  /\ {"waiting", "unsent", "timeout"} \cap Sockets = {}
  /\ Null \notin Sockets \cup {"waiting", "unsent", "timeout"}

VARIABLES
  tunnel,     \* the Tunnel row
  joined,     \* the sockets whose consumers are in the tunnel's group
  call,       \* pull_tools, push_call and get_servers, by call id
  relay,      \* _relay_sync: Null: no entry; "waiting": its event is not set
  listener,   \* listen_for_call_result, by call id
  inbox,      \* the first message in the listener's channel
  request,    \* the sockets with the request that have not run it
  ran,        \* history: the sockets whose desktop ran the call
  broken

wire == <<inbox, request, ran>>
relayVars == <<tunnel, joined, call, relay, listener, wire, broken>>

NoCall == [pc |-> "new", retries |-> 0, result |-> Null]

(* owned: claimed by a user; fresh: last_alive_beat is young enough          *)
TunnelRows == [exists : BOOLEAN, owned : BOOLEAN, fresh : BOOLEAN]

(* A tunnel that nobody has registered yet; every desktop has its own key.   *)
RelayInit ==
  /\ tunnel = [exists |-> FALSE, owned |-> FALSE, fresh |-> FALSE]
  /\ joined = {}
  /\ call = [c \in Calls |-> NoCall]
  /\ relay = [c \in Calls |-> Null]
  /\ listener = [c \in Calls |-> "none"]
  /\ inbox = [c \in Calls |-> Null]
  /\ request = [c \in Calls |-> {}] /\ ran = [c \in Calls |-> {}]
  /\ broken = 0

-----------------------------------------------------------------------------
(* The consumers and the tunnel's row                                      *)

(* The connect message: the row is found or created, the socket joins its     *)
(* group.  A new row counts as connected, a found one is as it was.  A row    *)
(* that another transaction has locked is skipped, and creating it again     *)
(* fails; so does another key than the row's: then the socket stays outside.  *)
Connect(s) ==
  /\ s \notin joined
  /\ joined' = joined \cup {s}
  /\ tunnel' = IF tunnel.exists THEN tunnel
                ELSE [exists |-> TRUE, owned |-> FALSE, fresh |-> TRUE]
  /\ UNCHANGED <<call, relay, listener, wire, broken>>

(* a ping, or the answer to one; and nothing of that for 60 seconds *)
Beat(s) ==
  /\ s \in joined /\ ~tunnel.fresh
  /\ tunnel' = [tunnel EXCEPT !.fresh = TRUE]
  /\ UNCHANGED <<joined, call, relay, listener, wire, broken>>
BeatAges ==
  /\ tunnel.fresh
  /\ tunnel' = [tunnel EXCEPT !.fresh = FALSE]
  /\ UNCHANGED <<joined, call, relay, listener, wire, broken>>

(* the connect view registers without a socket *)
Registered ==
  /\ ~tunnel.exists
  /\ tunnel' = [exists |-> TRUE, owned |-> FALSE, fresh |-> TRUE]
  /\ UNCHANGED <<joined, call, relay, listener, wire, broken>>

IsConnected == tunnel.exists /\ tunnel.fresh

(* claim_tunnel_sync, with the tunnel's key; a locked row is not claimed *)
Claim ==
  /\ tunnel.exists /\ ~tunnel.owned
  /\ tunnel' = [tunnel EXCEPT !.owned = TRUE]
  /\ UNCHANGED <<joined, call, relay, listener, wire, broken>>

(* The connection ends: requests its desktop has not run are lost.  The row    *)
(* stays, and counts as connected until its beat is old.                     *)
Disconnect(s) ==
  /\ s \in joined
  /\ joined' = joined \ {s}
  /\ request' = [c \in Calls |-> request[c] \ {s}]
  /\ UNCHANGED <<tunnel, call, relay, listener, inbox, ran, broken>>

-----------------------------------------------------------------------------
(* A call                                                                  *)

(* Variant: the entry is made once the request is sent *)
RegisterLater(c) == relay' = relay

(* _relay_sync[call_id] = (None, event) *)
Register(c) == relay' = [relay EXCEPT ![c] = "waiting"]

(* The entry is made and the listener is started as a task of its own.       *)
Begun(c, retries) ==
  /\ call[c].pc = "new"
  /\ call' = [call EXCEPT ![c] = [NoCall EXCEPT !.pc = "sending", !.retries = retries]]
  /\ Register(c)
  /\ listener' = [listener EXCEPT ![c] = "starting"]
  /\ UNCHANGED <<tunnel, joined, wire, broken>>

(* a tool call, or a view's pull_tools or get_servers, of the tunnel's owner *)
Call(c) == tunnel.owned /\ Begun(c, 0)

(* build_tunnel_tools pulls the tools of a tunnel that counts as connected,  *)
(* and asks again, once, if that fails while it still does.                  *)
BuildTools(c) == tunnel.owned /\ IsConnected /\ Begun(c, 1)

Done(result) == [NoCall EXCEPT !.pc = "done", !.result = result]

Retry(c, d) ==
  /\ call[c].pc = "failed" /\ call[d].pc = "new" /\ IsConnected
  /\ call' = [call EXCEPT ![c] = Done(@.result), ![d] = [NoCall EXCEPT !.pc = "sending"]]
  /\ Register(d)
  /\ listener' = [listener EXCEPT ![d] = "starting"]
  /\ UNCHANGED <<tunnel, joined, wire, broken>>
SkipTunnel(c) ==
  /\ call[c].pc = "failed" /\ ~IsConnected
  /\ call' = [call EXCEPT ![c] = Done(@.result)]
  /\ UNCHANGED <<tunnel, joined, relay, listener, wire, broken>>

(* group_send to the tunnel's group: every socket that is in it has the request *)
Send(c) ==
  /\ call[c].pc = "sending"
  /\ request' = [request EXCEPT ![c] = joined]
  /\ call' = [call EXCEPT ![c].pc = "waiting"]
  /\ UNCHANGED <<tunnel, joined, relay, listener, inbox, ran, broken>>

(* a call ends; build_tunnel_tools may ask once more after an exception *)
Over(k, result) ==
  IF k.retries > 0 /\ result \in {"unsent", "timeout"}
  THEN [k EXCEPT !.pc = "failed", !.result = result] ELSE Done(result)

(* group_send raises: nobody removes the entry *)
SendFails(c) ==
  /\ call[c].pc = "sending" /\ broken < MaxBroken
  /\ broken' = broken + 1
  /\ call' = [call EXCEPT ![c] = Over(@, "unsent")]
  /\ UNCHANGED <<tunnel, joined, relay, listener, wire>>

(* Variant: the entry is taken for an answer *)
HasEntry(c) == relay[c] # Null

(* the entry's event is set *)
Answered(c) == relay[c] \in Sockets

(* event.wait(timeout) returned True: the answer is taken from the entry *)
Return(c) ==
  /\ call[c].pc \in {"waiting", "due"} /\ Answered(c)
  /\ call' = [call EXCEPT ![c] = Over(@, relay[c])]
  /\ relay' = [relay EXCEPT ![c] = Null]
  /\ UNCHANGED <<tunnel, joined, listener, wire, broken>>

(* The seconds of the timeout have passed: the listener's and the call's run  *)
(* out in some order.  What has reached the process in time was taken by then. *)
TimeoutNears(c) ==
  /\ call[c].pc = "waiting" /\ ~Answered(c)
  /\ ~(listener[c] = "joined" /\ inbox[c] # Null)
  /\ call' = [call EXCEPT ![c].pc = "due"]
  /\ UNCHANGED <<tunnel, joined, relay, listener, wire, broken>>

(* _relay_sync.pop(call_id, None) *)
Pop(c) == relay' = [relay EXCEPT ![c] = Null]

(* event.wait returned False; the event may have been set since *)
Timeout(c) ==
  /\ call[c].pc = "due"
  /\ call' = [call EXCEPT ![c] = Over(@, "timeout")]
  /\ Pop(c)
  /\ UNCHANGED <<tunnel, joined, listener, wire, broken>>

-----------------------------------------------------------------------------
(* Its listener and the desktop                                            *)

ListenerJoins(c) ==
  /\ listener[c] = "starting"
  /\ listener' = [listener EXCEPT ![c] = "joined"]
  /\ UNCHANGED <<tunnel, joined, call, relay, wire, broken>>

(* new_channel or group_add raises in the task, which nobody awaits *)
ListenerFails(c) ==
  /\ listener[c] = "starting" /\ broken < MaxBroken
  /\ listener' = [listener EXCEPT ![c] = "gone"]
  /\ broken' = broken + 1
  /\ UNCHANGED <<tunnel, joined, call, relay, wire>>

(* Variant: one group for all calls *)
EveryCall(c) == Calls

(* call_group_name: the calls whose group it is *)
CallGroup(c) == {c}

(* The desktop of s runs the call and answers: its message reaches the        *)
(* listeners in the call's group, of which each takes one message.           *)
RunCall(c, s) ==
  /\ s \in request[c]
  /\ request' = [request EXCEPT ![c] = @ \ {s}]
  /\ ran' = [ran EXCEPT ![c] = @ \cup {s}]
  /\ inbox' = [d \in Calls |->
       IF d \in CallGroup(c) /\ listener[d] = "joined" /\ inbox[d] = Null
       THEN s ELSE inbox[d]]
  /\ UNCHANGED <<tunnel, joined, call, relay, listener, broken>>

InTime(c) == call[c].pc \in {"sending", "waiting"}

(* Variant: the answer is written whether or not there is an entry *)
WriteAnswer(c) == relay' = [relay EXCEPT ![c] = inbox[c]]

(* (msg, sync_event) replaces the entry, if there still is one *)
SetAnswer(c) ==
  relay' = [relay EXCEPT ![c] = IF @ = Null THEN Null ELSE inbox[c]]

(* The listener's message is there. "heard" is one that was in time.          *)
ListenerReceives(c) ==
  /\ listener[c] = "joined" /\ inbox[c] # Null
  /\ SetAnswer(c)
  /\ listener' = [listener EXCEPT ![c] = IF InTime(c) THEN "heard" ELSE "gone"]
  /\ inbox' = [inbox EXCEPT ![c] = Null]
  /\ UNCHANGED <<tunnel, joined, call, request, ran, broken>>

(* its own timeout, or the end of the event loop that the call ran in *)
ListenerStops(c) ==
  /\ listener[c] \in {"starting", "joined"}
  /\ \/ call[c].pc = "due" /\ listener[c] = "joined"
     \/ call[c].pc \in {"failed", "done"}
  /\ listener' = [listener EXCEPT ![c] = "gone"]
  /\ inbox' = [inbox EXCEPT ![c] = Null]
  /\ UNCHANGED <<tunnel, joined, call, relay, request, ran, broken>>

-----------------------------------------------------------------------------
(* what goes on without anybody's doing *)
Advance(c) ==
  \/ Send(c) \/ Return(c) \/ TimeoutNears(c) \/ Timeout(c) \/ ListenerReceives(c)

Consumer(s) == Connect(s) \/ Beat(s) \/ Disconnect(s)

RelayNext ==
  \/ \E s \in Sockets : Consumer(s)
  \/ BeatAges \/ Claim \/ Registered
  \/ \E c \in Calls :
       \/ Call(c) \/ BuildTools(c) \/ SkipTunnel(c) \/ \E d \in Calls : Retry(c, d)
       \/ Advance(c) \/ SendFails(c)
       \/ ListenerJoins(c) \/ ListenerFails(c) \/ ListenerStops(c)
       \/ \E s \in Sockets : RunCall(c, s)

(* The event loop runs on and time passes; desktops, users and sockets need   *)
(* not do anything.                                                         *)
RelaySpec == /\ RelayInit /\ [][RelayNext]_relayVars
             /\ \A c \in Calls : WF_relayVars(Advance(c))

-----------------------------------------------------------------------------
(* Properties                                                              *)

Results == Sockets \cup {"unsent", "timeout"}

CallStates == [pc : {"new", "sending", "waiting", "due", "failed", "done"},
               retries : 0 .. 1, result : Results \cup {Null}]

RelayTypeOK ==
  /\ tunnel \in TunnelRows
  /\ joined \subseteq Sockets
  /\ call \in [Calls -> CallStates]
  /\ relay \in [Calls -> Sockets \cup {Null, "waiting"}]
  /\ listener \in [Calls -> {"none", "starting", "joined", "heard", "gone"}]
  /\ inbox \in [Calls -> Sockets \cup {Null}]
  /\ request \in [Calls -> SUBSET Sockets] /\ ran \in [Calls -> SUBSET Sockets]
  /\ broken \in 0 .. MaxBroken

(* A call has its entry in _relay_sync for as long as it waits, and no late   *)
(* answer brings one back: only a request that could not be sent leaves its  *)
(* entry behind, for as long as the process lives.                          *)
EntriesOfCalls ==
  \A c \in Calls :
    relay[c] # Null <=> \/ call[c].pc \in {"sending", "waiting", "due"}
                       \/ call[c].result = "unsent"

(* An answer that reached the call's listener in time is not lost: a call     *)
(* times out only if its answers came before its listener had joined, late,  *)
(* or not at all.                                                           *)
TimelyAnswerTaken ==
  \A c \in Calls : listener[c] = "heard" => call[c].result # "timeout"

Phase(c) == CASE call[c].pc = "new" -> "new"
              [] call[c].pc \in {"failed", "done"} -> "done"
              [] OTHER -> "asked"

(* A call through the tunnel is a RemoteCall: what it returns is what a       *)
(* desktop that ran it answered, every connection runs it at most once, and  *)
(* it ends.                                                                 *)
Remote == INSTANCE RemoteCall WITH
  Desktops <- Sockets,
  NoResult <- Null,
  Failures <- {"unsent", "timeout"},
  phase    <- [c \in Calls |-> Phase(c)],
  result   <- [c \in Calls |-> call[c].result]

ImplementsRemoteCall == Remote!Spec
=============================================================================
