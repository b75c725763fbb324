-------------------------- MODULE TunnelRelayProofs --------------------------
(***************************************************************************)
(* The relay keeps its entries, loses no timely answer, and never returns    *)
(* to a call what another call was answered: for every set of calls and of   *)
(* sockets, and however often the channel layer fails.                       *)
(***************************************************************************)
EXTENDS TunnelRelay, TLAPS

(***************************************************************************)
(* Types.                                                                  *)
(***************************************************************************)
LEMMA NewCall == NoCall \in CallStates
BY DEF CallStates, NoCall

\* What a call is made of, and what replacing a part of it gives.
LEMMA CallParts ==
  ASSUME NEW k \in CallStates
  PROVE  /\ k.pc \in {"new", "sending", "waiting", "due", "failed", "done"}
         /\ k.result \in Results \cup {Null} /\ k.retries \in 0 .. 1
         /\ [k EXCEPT !.pc = "waiting"] \in CallStates
         /\ [k EXCEPT !.pc = "due"] \in CallStates
         /\ \A r \in Results : Over(k, r) \in CallStates
         /\ \A r \in Results \cup {Null} : Done(r) \in CallStates
<1>1. ASSUME NEW r \in Results \cup {Null} PROVE Done(r) \in CallStates
  <2>1. NoCall \in CallStates
    BY NewCall
  <2>2. \A m \in CallStates : [m EXCEPT !.pc = "done", !.result = r] \in CallStates
    BY DEF CallStates
  <2> QED BY <2>1, <2>2 DEF Done
<1>2. ASSUME NEW r \in Results PROVE Over(k, r) \in CallStates
  <2>1. [k EXCEPT !.pc = "failed", !.result = r] \in CallStates
    BY DEF CallStates
  <2> QED BY <1>1, <2>1 DEF Over
<1>3. [k EXCEPT !.pc = "waiting"] \in CallStates /\ [k EXCEPT !.pc = "due"] \in CallStates
  BY DEF CallStates
<1>4. /\ k.pc \in {"new", "sending", "waiting", "due", "failed", "done"}
      /\ k.result \in Results \cup {Null} /\ k.retries \in 0 .. 1
  BY DEF CallStates
<1> QED BY <1>1, <1>2, <1>3, <1>4

LEMMA BegunCall ==
  \A n \in 0 .. 1 : [NoCall EXCEPT !.pc = "sending", !.retries = n] \in CallStates
BY DEF CallStates, NoCall

LEMMA SentAgain == [NoCall EXCEPT !.pc = "sending"] \in CallStates
BY DEF CallStates, NoCall

\* How a call looks once it is over: it has its result, or will be retried.
LEMMA OverParts ==
  ASSUME NEW k \in CallStates, NEW r \in Results
  PROVE  Over(k, r).pc \in {"failed", "done"} /\ Over(k, r).result = r
BY DEF CallStates, Over, Done, NoCall

LEMMA DoneParts ==
  \A r \in Results \cup {Null} : Done(r).pc = "done" /\ Done(r).result = r
BY DEF Done, NoCall

LEMMA DoneSame ==
  ASSUME NEW k \in CallStates
  PROVE  Done(k.result).pc = "done" /\ Done(k.result).result = k.result
BY CallParts, DoneParts

LEMMA RelayTypeInit == RelayInit => RelayTypeOK
BY RelayConstants DEF RelayInit, RelayTypeOK, NoCall, CallStates, Results, TunnelRows

LEMMA RelayTypeStep == RelayTypeOK /\ [RelayNext]_relayVars => RelayTypeOK'
<1> SUFFICES ASSUME RelayTypeOK, [RelayNext]_relayVars PROVE RelayTypeOK'
  OBVIOUS
<1> USE RelayConstants DEF RelayTypeOK, wire, TunnelRows
<1>1. ASSUME NEW s \in Sockets, Consumer(s) PROVE RelayTypeOK'
  <2>1. CASE Connect(s)
    <3>1. tunnel' \in TunnelRows
      BY <2>1 DEF Connect
    <3> QED BY <2>1, <3>1 DEF Connect
  <2>2. CASE Beat(s)
    <3>1. tunnel' \in TunnelRows
      BY <2>2 DEF Beat
    <3> QED BY <2>2, <3>1 DEF Beat
  <2>3. CASE Disconnect(s)
    <3>1. request' \in [Calls -> SUBSET Sockets] /\ joined' \subseteq Sockets
      BY <2>3 DEF Disconnect
    <3> QED BY <2>3, <3>1 DEF Disconnect
  <2> QED BY <1>1, <2>1, <2>2, <2>3 DEF Consumer
<1>2. CASE BeatAges \/ Claim \/ Registered
  <2>1. tunnel' \in TunnelRows
    <3>1. tunnel \in [exists : BOOLEAN, owned : BOOLEAN, fresh : BOOLEAN]
      OBVIOUS
    <3>2. CASE BeatAges
      BY <3>1, <3>2 DEF BeatAges
    <3>3. CASE Claim
      BY <3>1, <3>3 DEF Claim
    <3>4. CASE Registered
      BY <3>4 DEF Registered
    <3> QED BY <1>2, <3>2, <3>3, <3>4
  <2> QED BY <1>2, <2>1 DEF BeatAges, Claim, Registered
<1>3. ASSUME NEW c \in Calls, NEW n \in 0 .. 1, Begun(c, n) PROVE RelayTypeOK'
  BY <1>3, BegunCall DEF Begun, Register
<1>4. ASSUME NEW c \in Calls, Call(c) \/ BuildTools(c) PROVE RelayTypeOK'
  BY <1>3, <1>4 DEF Call, BuildTools
<1>5. ASSUME NEW c \in Calls, NEW d \in Calls, Retry(c, d) PROVE RelayTypeOK'
  <2>1. Done(call[c].result) \in CallStates
    BY CallParts
  <2> QED BY <1>5, <2>1, SentAgain DEF Retry, Register
<1>6. ASSUME NEW c \in Calls, SkipTunnel(c) PROVE RelayTypeOK'
  <2>1. Done(call[c].result) \in CallStates
    BY CallParts
  <2> QED BY <1>6, <2>1 DEF SkipTunnel
<1>7. ASSUME NEW c \in Calls, Send(c) PROVE RelayTypeOK'
  BY <1>7, CallParts DEF Send
<1>8. ASSUME NEW c \in Calls, SendFails(c) PROVE RelayTypeOK'
  <2>1. Over(call[c], "unsent") \in CallStates
    BY CallParts DEF Results
  <2> QED BY <1>8, <2>1 DEF SendFails
<1>9. ASSUME NEW c \in Calls, Return(c) PROVE RelayTypeOK'
  <2>1. Over(call[c], relay[c]) \in CallStates
    BY <1>9, CallParts DEF Return, Answered, Results
  <2> QED BY <1>9, <2>1 DEF Return
<1>10. ASSUME NEW c \in Calls, TimeoutNears(c) PROVE RelayTypeOK'
  BY <1>10, CallParts DEF TimeoutNears
<1>11. ASSUME NEW c \in Calls, Timeout(c) PROVE RelayTypeOK'
  <2>1. Over(call[c], "timeout") \in CallStates
    BY CallParts DEF Results
  <2> QED BY <1>11, <2>1 DEF Timeout, Pop
<1>12. ASSUME NEW c \in Calls, ListenerReceives(c) PROVE RelayTypeOK'
  BY <1>12 DEF ListenerReceives, SetAnswer
<1>13. ASSUME NEW c \in Calls, ListenerJoins(c) \/ ListenerFails(c) \/ ListenerStops(c)
       PROVE  RelayTypeOK'
  BY <1>13 DEF ListenerJoins, ListenerFails, ListenerStops
<1>14. ASSUME NEW c \in Calls, NEW s \in Sockets, RunCall(c, s) PROVE RelayTypeOK'
  BY <1>14 DEF RunCall
<1>15. CASE UNCHANGED relayVars
  BY <1>15 DEF relayVars
<1> QED BY <1>1, <1>2, <1>4, <1>5, <1>6, <1>7, <1>8, <1>9, <1>10, <1>11, <1>12, <1>13,
           <1>14, <1>15 DEF RelayNext, Advance

\* Every variable keeps its type.
THEOREM RelayTypeCorrect == RelaySpec => []RelayTypeOK
BY RelayTypeInit, RelayTypeStep, PTL DEF RelaySpec

(***************************************************************************)
(* The inductive invariant, call by call.                                  *)
(***************************************************************************)
Pending == {"sending", "waiting", "due"}
Ended   == {"failed", "done"}

\* A call has no result before it ends, and its entry is there while it waits, or
\* for good when its request could not be sent.
EntryKept(c) ==
  /\ call[c].pc \in Pending \cup {"new"} => call[c].result = Null
  /\ relay[c] # Null <=> call[c].pc \in Pending \/ call[c].result = "unsent"

\* What the listener heard in time is in the entry until the call takes it.
HeardKept(c) ==
  listener[c] = "heard" =>
    \/ call[c].pc \in {"sending", "waiting"} /\ Answered(c)
    \/ call[c].pc \in Ended /\ call[c].result # "timeout"

\* A desktop has the request before it runs the call, and only once; an answer is
\* of a desktop that ran the call.
RunsOnce(c) ==
  /\ call[c].pc \in {"new", "sending"} => request[c] = {} /\ ran[c] = {}
  /\ request[c] \cap ran[c] = {}
  /\ inbox[c] \in ran[c] \cup {Null}
  /\ Answered(c) => relay[c] \in ran[c]

RelayInv == \A c \in Calls : EntryKept(c) /\ HeardKept(c) /\ RunsOnce(c)

LEMMA RelayInvInit == RelayInit => RelayInv
BY RelayConstants DEF RelayInit, RelayInv, EntryKept, HeardKept, RunsOnce, Answered, NoCall,
                      Pending

LEMMA RelayInvStep ==
  RelayTypeOK /\ RelayInv /\ [RelayNext]_relayVars => RelayInv'
<1> SUFFICES ASSUME RelayTypeOK, RelayInv, [RelayNext]_relayVars, NEW e \in Calls
             PROVE  EntryKept(e)' /\ HeardKept(e)' /\ RunsOnce(e)'
  BY DEF RelayInv
<1>e. EntryKept(e) /\ HeardKept(e) /\ RunsOnce(e)
  BY DEF RelayInv
<1>t. /\ call \in [Calls -> CallStates] /\ call[e] \in CallStates
      /\ relay \in [Calls -> Sockets \cup {Null, "waiting"}]
      /\ listener \in [Calls -> {"none", "starting", "joined", "heard", "gone"}]
      /\ inbox \in [Calls -> Sockets \cup {Null}]
      /\ request \in [Calls -> SUBSET Sockets] /\ ran \in [Calls -> SUBSET Sockets]
  BY DEF RelayTypeOK
<1> USE RelayConstants, <1>e, <1>t
    DEF EntryKept, HeardKept, RunsOnce, Answered, Pending, Ended, wire
<1>1. ASSUME NEW s \in Sockets, Consumer(s)
      PROVE  EntryKept(e)' /\ HeardKept(e)' /\ RunsOnce(e)'
  BY <1>1 DEF Consumer, Connect, Beat, Disconnect
<1>2. CASE BeatAges \/ Claim \/ Registered
  BY <1>2 DEF BeatAges, Claim, Registered
<1>3. ASSUME NEW c \in Calls, NEW n \in 0 .. 1, Begun(c, n)
      PROVE  EntryKept(e)' /\ HeardKept(e)' /\ RunsOnce(e)'
  BY <1>3, NewCall DEF Begun, Register, NoCall
<1>4. ASSUME NEW c \in Calls, Call(c) \/ BuildTools(c)
      PROVE  EntryKept(e)' /\ HeardKept(e)' /\ RunsOnce(e)'
  BY <1>3, <1>4 DEF Call, BuildTools
<1>5. ASSUME NEW c \in Calls, NEW d \in Calls, Retry(c, d)
      PROVE  EntryKept(e)' /\ HeardKept(e)' /\ RunsOnce(e)'
  <2>1. /\ Done(call[c].result).pc = "done"
        /\ Done(call[c].result).result = call[c].result
    BY DoneSame
  <2>2. /\ [NoCall EXCEPT !.pc = "sending"].pc = "sending"
        /\ [NoCall EXCEPT !.pc = "sending"].result = Null
    BY DEF NoCall
  <2>3. call[c].pc = "failed" /\ call[d].pc = "new" /\ c # d
    BY <1>5 DEF Retry
  <2>4. CASE e = c
    BY <1>5, <2>1, <2>3, <2>4 DEF Retry, Register
  <2>5. CASE e = d
    BY <1>5, <2>2, <2>3, <2>5 DEF Retry, Register
  <2>6. CASE e # c /\ e # d
    BY <1>5, <2>6 DEF Retry, Register
  <2> QED BY <2>4, <2>5, <2>6
<1>6. ASSUME NEW c \in Calls, SkipTunnel(c)
      PROVE  EntryKept(e)' /\ HeardKept(e)' /\ RunsOnce(e)'
  <2>1. /\ Done(call[c].result).pc = "done"
        /\ Done(call[c].result).result = call[c].result
    BY DoneSame
  <2> QED BY <1>6, <2>1 DEF SkipTunnel
<1>7. ASSUME NEW c \in Calls, Send(c)
      PROVE  EntryKept(e)' /\ HeardKept(e)' /\ RunsOnce(e)'
  BY <1>7 DEF Send, CallStates
<1>8. ASSUME NEW c \in Calls, SendFails(c)
      PROVE  EntryKept(e)' /\ HeardKept(e)' /\ RunsOnce(e)'
  <2>1. /\ Over(call[c], "unsent").pc \in Ended
        /\ Over(call[c], "unsent").result = "unsent"
    BY OverParts DEF Results
  <2> QED BY <1>8, <2>1 DEF SendFails
<1>9. ASSUME NEW c \in Calls, Return(c)
      PROVE  EntryKept(e)' /\ HeardKept(e)' /\ RunsOnce(e)'
  <2>1. relay[c] \in Sockets
    BY <1>9 DEF Return
  <2>2. /\ Over(call[c], relay[c]).pc \in Ended
        /\ Over(call[c], relay[c]).result = relay[c]
    BY <2>1, OverParts DEF Results
  <2> QED BY <1>9, <2>1, <2>2 DEF Return
<1>10. ASSUME NEW c \in Calls, TimeoutNears(c)
       PROVE  EntryKept(e)' /\ HeardKept(e)' /\ RunsOnce(e)'
  BY <1>10 DEF TimeoutNears, CallStates
<1>11. ASSUME NEW c \in Calls, Timeout(c)
       PROVE  EntryKept(e)' /\ HeardKept(e)' /\ RunsOnce(e)'
  <2>1. /\ Over(call[c], "timeout").pc \in Ended
        /\ Over(call[c], "timeout").result = "timeout"
    BY OverParts DEF Results
  <2> QED BY <1>11, <2>1 DEF Timeout, Pop
<1>12. ASSUME NEW c \in Calls, ListenerReceives(c)
       PROVE  EntryKept(e)' /\ HeardKept(e)' /\ RunsOnce(e)'
  BY <1>12 DEF ListenerReceives, SetAnswer, InTime
<1>13. ASSUME NEW c \in Calls, ListenerJoins(c) \/ ListenerFails(c) \/ ListenerStops(c)
       PROVE  EntryKept(e)' /\ HeardKept(e)' /\ RunsOnce(e)'
  BY <1>13 DEF ListenerJoins, ListenerFails, ListenerStops
<1>14. ASSUME NEW c \in Calls, NEW s \in Sockets, RunCall(c, s)
       PROVE  EntryKept(e)' /\ HeardKept(e)' /\ RunsOnce(e)'
  BY <1>14 DEF RunCall, CallGroup
<1>15. CASE UNCHANGED relayVars
  BY <1>15 DEF relayVars
<1> QED BY <1>1, <1>2, <1>4, <1>5, <1>6, <1>7, <1>8, <1>9, <1>10, <1>11, <1>12, <1>13,
           <1>14, <1>15 DEF RelayNext, Advance

LEMMA RelayInvCorrect == RelaySpec => []RelayInv
BY RelayInvInit, RelayInvStep, RelayTypeCorrect, PTL DEF RelaySpec

\* A call has its entry while it waits, and no late answer brings one back.
THEOREM EntriesKept == RelaySpec => []EntriesOfCalls
<1>1. RelayInv => EntriesOfCalls
  BY DEF RelayInv, EntryKept, EntriesOfCalls, Pending
<1> QED BY <1>1, RelayInvCorrect, PTL

\* A call does not time out once its listener has heard an answer in time.
THEOREM TimelyAnswers == RelaySpec => []TimelyAnswerTaken
<1>1. RelayInv => TimelyAnswerTaken
  BY RelayConstants DEF RelayInv, EntryKept, HeardKept, TimelyAnswerTaken, Pending
<1> QED BY <1>1, RelayInvCorrect, PTL

(***************************************************************************)
(* Every step of the relay is a step of RemoteCall, or changes nothing that  *)
(* its callers see.                                                         *)
(***************************************************************************)
LEMMA RemoteStutters ==
  ASSUME ran' = ran, \A c \in Calls : Phase(c)' = Phase(c) /\ call'[c].result = call[c].result
  PROVE  UNCHANGED Remote!vars
BY DEF Remote!vars

LEMMA RemoteAsks ==
  ASSUME NEW d \in Calls, Phase(d) = "new", Phase(d)' = "asked", ran' = ran,
         \A c \in Calls : c # d => Phase(c)' = Phase(c),
         \A c \in Calls : call'[c].result = call[c].result
  PROVE  Remote!Next
<1>1. Remote!Ask(d)
  BY DEF Remote!Ask
<1> QED BY <1>1 DEF Remote!Next

LEMMA RemoteEnds ==
  ASSUME NEW d \in Calls, Phase(d) = "asked", Phase(d)' = "done", ran' = ran,
         call'[d].result \in Results, call'[d].result \in ran[d] \cup {"unsent", "timeout"},
         \A c \in Calls : c # d => call'[c] = call[c]
  PROVE  Remote!Next
<1>1. \A c \in Calls : c # d => Phase(c)' = Phase(c)
  BY DEF Phase
<1>2. PICK r \in Sockets \cup {"unsent", "timeout"} : r = call'[d].result
  BY DEF Results
<1>3. Remote!End(d, r)
  BY <1>1, <1>2 DEF Remote!End
<1> QED BY <1>3 DEF Remote!Next

LEMMA RemoteStep ==
  RelayTypeOK /\ RelayInv /\ [RelayNext]_relayVars => [Remote!Next]_(Remote!vars)
<1> SUFFICES ASSUME RelayTypeOK, RelayInv, [RelayNext]_relayVars
             PROVE  Remote!Next \/ UNCHANGED Remote!vars
  OBVIOUS
<1>t. /\ call \in [Calls -> CallStates]
      /\ relay \in [Calls -> Sockets \cup {Null, "waiting"}]
      /\ request \in [Calls -> SUBSET Sockets] /\ ran \in [Calls -> SUBSET Sockets]
  BY DEF RelayTypeOK
<1>i. \A c \in Calls : EntryKept(c) /\ HeardKept(c) /\ RunsOnce(c)
  BY DEF RelayInv
<1>1. ASSUME call' = call, ran' = ran PROVE UNCHANGED Remote!vars
  BY <1>1, RemoteStutters DEF Phase
<1>2. ASSUME NEW s \in Sockets, Consumer(s) PROVE UNCHANGED Remote!vars
  BY <1>1, <1>2 DEF Consumer, Connect, Beat, Disconnect, wire
<1>3. CASE BeatAges \/ Claim \/ Registered
  BY <1>1, <1>3 DEF BeatAges, Claim, Registered, wire
<1>4. ASSUME NEW c \in Calls, NEW n \in 0 .. 1, Begun(c, n) PROVE Remote!Next
  <2>1. call[c].pc = "new" /\ call[c].result = Null /\ ran' = ran
    BY <1>4, <1>i DEF Begun, EntryKept, wire
  <2>2. call'[c].pc = "sending" /\ call'[c].result = Null
    BY <1>4, <1>t DEF Begun, NoCall
  <2>3. \A d \in Calls : d # c => call'[d] = call[d]
    BY <1>4, <1>t DEF Begun
  <2> QED BY <2>1, <2>2, <2>3, RemoteAsks DEF Phase
<1>5. ASSUME NEW c \in Calls, Call(c) \/ BuildTools(c) PROVE Remote!Next
  BY <1>4, <1>5 DEF Call, BuildTools
<1>6. ASSUME NEW c \in Calls, NEW d \in Calls, Retry(c, d) PROVE Remote!Next
  <2>1. call[c].pc = "failed" /\ call[d].pc = "new" /\ c # d /\ ran' = ran
    BY <1>6 DEF Retry, wire
  <2>2. call[d].result = Null
    BY <1>i, <2>1 DEF EntryKept
  <2>3. call'[d].pc = "sending" /\ call'[d].result = Null
    BY <1>6, <1>t, <2>1 DEF Retry, NoCall
  <2>4. call'[c] = Done(call[c].result)
    BY <1>6, <1>t, <2>1 DEF Retry
  <2>5. call'[c].pc = "done" /\ call'[c].result = call[c].result
    BY <2>4, <1>t, DoneSame
  <2>6. \A e \in Calls : e # c /\ e # d => call'[e] = call[e]
    BY <1>6, <1>t DEF Retry
  <2> QED BY <2>1, <2>2, <2>3, <2>5, <2>6, RemoteAsks DEF Phase
<1>7. ASSUME NEW c \in Calls, SkipTunnel(c) PROVE UNCHANGED Remote!vars
  <2>1. call[c].pc = "failed" /\ ran' = ran /\ call'[c] = Done(call[c].result)
    BY <1>7, <1>t DEF SkipTunnel, wire
  <2>2. call'[c].pc = "done" /\ call'[c].result = call[c].result
    BY <2>1, <1>t, DoneSame
  <2>3. \A d \in Calls : d # c => call'[d] = call[d]
    BY <1>7, <1>t DEF SkipTunnel
  <2> QED BY <2>1, <2>2, <2>3, RemoteStutters DEF Phase
<1>8. ASSUME NEW c \in Calls, Send(c) \/ TimeoutNears(c) PROVE UNCHANGED Remote!vars
  <2>1. /\ call[c].pc \in {"sending", "waiting"} /\ call'[c].pc \in {"waiting", "due"}
        /\ call'[c].result = call[c].result /\ ran' = ran
    BY <1>8, <1>t DEF Send, TimeoutNears, CallStates, wire
  <2>2. \A d \in Calls : d # c => call'[d] = call[d]
    BY <1>8, <1>t DEF Send, TimeoutNears
  <2> QED BY <2>1, <2>2, RemoteStutters DEF Phase
<1>9. ASSUME NEW c \in Calls, NEW r \in Results, call[c].pc \in Pending,
             call' = [call EXCEPT ![c] = Over(@, r)], ran' = ran,
             r \in ran[c] \cup {"unsent", "timeout"}
      PROVE  Remote!Next
  <2>1. call'[c] = Over(call[c], r) /\ call[c] \in CallStates
    BY <1>9, <1>t
  <2>2. call'[c].pc \in {"failed", "done"} /\ call'[c].result = r
    BY <2>1, OverParts
  <2>3. \A d \in Calls : d # c => call'[d] = call[d]
    BY <1>9, <1>t
  <2>4. Phase(c) = "asked" /\ Phase(c)' = "done"
    BY <1>9, <2>2 DEF Phase, Pending
  <2> QED BY <1>9, <2>2, <2>3, <2>4, RemoteEnds
<1>10. ASSUME NEW c \in Calls, SendFails(c) PROVE Remote!Next
  BY <1>9, <1>10 DEF SendFails, Results, Pending, wire
<1>11. ASSUME NEW c \in Calls, Return(c) PROVE Remote!Next
  <2>1. relay[c] \in Results /\ relay[c] \in ran[c]
    BY <1>11, <1>i DEF Return, RunsOnce, Answered, Results
  <2> QED BY <1>9, <1>11, <2>1 DEF Return, Pending, wire
<1>12. ASSUME NEW c \in Calls, Timeout(c) PROVE Remote!Next
  BY <1>9, <1>12 DEF Timeout, Results, Pending, wire
<1>13. ASSUME NEW c \in Calls,
              ListenerReceives(c) \/ ListenerJoins(c) \/ ListenerFails(c) \/ ListenerStops(c)
       PROVE  UNCHANGED Remote!vars
  BY <1>1, <1>13 DEF ListenerReceives, ListenerJoins, ListenerFails, ListenerStops, wire
<1>14. ASSUME NEW c \in Calls, NEW s \in Sockets, RunCall(c, s) PROVE Remote!Next
  <2>1. call' = call /\ ran' = [ran EXCEPT ![c] = @ \cup {s}]
    BY <1>14 DEF RunCall
  <2>2. s \notin ran[c] /\ call[c].pc # "new"
    BY <1>14, <1>i DEF RunCall, RunsOnce
  <2>3. Phase(c) # "new"
    BY <2>2 DEF Phase
  <2>4. \A d \in Calls : Phase(d)' = Phase(d) /\ call'[d].result = call[d].result
    BY <2>1 DEF Phase
  <2>5. Remote!Run(c, s)
    BY <2>1, <2>2, <2>3, <2>4 DEF Remote!Run
  <2> QED BY <2>5 DEF Remote!Next
<1>15. CASE UNCHANGED relayVars
  BY <1>1, <1>15 DEF relayVars, wire
<1> QED BY <1>2, <1>3, <1>5, <1>6, <1>7, <1>8, <1>10, <1>11, <1>12, <1>13, <1>14, <1>15
        DEF RelayNext, Advance

LEMMA RemoteInit == RelayInit => Remote!Init
BY DEF RelayInit, Remote!Init, Phase, NoCall

\* What a call through the tunnel does is what RemoteCall allows: it returns what a
\* desktop answered that ran this very call, or a failure, and no desktop runs it
\* twice.  (That it ends is left to TLC.)
THEOREM RelayRefines == RelaySpec => Remote!Safety
BY RemoteInit, RemoteStep, RelayTypeCorrect, RelayInvCorrect, PTL DEF RelaySpec, Remote!Safety
=============================================================================
