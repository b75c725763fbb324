-------------------------- MODULE OAuthTokensProofs --------------------------
(***************************************************************************)
(* The row of an MCP server keeps a refresh token that is good, and requests *)
(* that wait for its lock are served: for every number of requests, loaders   *)
(* and updates, every set of sites, and every bound.                        *)
(***************************************************************************)
EXTENDS OAuthTokens, TLAPS

(***************************************************************************)
(* The states of a process.                                                *)
(***************************************************************************)
LEMMA Numbers ==
  /\ MaxTokens \in Nat /\ MaxLosses \in Nat
  /\ \A n \in 0 .. MaxTokens : n \in Nat
  /\ \A n \in 0 .. MaxLosses : n \in Nat /\ (n < MaxLosses => n + 1 \in 0 .. MaxLosses)
BY TokenConstants DEF TokenConstants

LEMMA IdleParts ==
  /\ Idle \in ProcStates /\ Idle.pc = "idle"
  /\ Idle.read = Null /\ Idle.refresh = Null /\ Idle.got = Null /\ Idle.site = Null
BY DEF Idle, ProcStates

LEMMA ReadingParts ==
  ASSUME NEW r \in Tokens, NEW s \in Sites, server \in ServerRows
  PROVE  /\ Reading(r, s) \in ProcStates
         /\ Reading(r, s).pc = "exchange"
         /\ Reading(r, s).read = server.refresh /\ Reading(r, s).refresh = r
         /\ Reading(r, s).site = s /\ Reading(r, s).got = Null
<1>1. server.refresh \in Tokens
  BY DEF ServerRows
<1>2. \A k \in ProcStates :
        LET m == [k EXCEPT !.pc = "exchange", !.read = server.refresh, !.refresh = r, !.site = s]
        IN  /\ m \in ProcStates /\ m.pc = "exchange" /\ m.read = server.refresh
            /\ m.refresh = r /\ m.site = s /\ m.got = k.got
  BY <1>1 DEF ProcStates
<1> QED BY <1>2, IdleParts DEF Reading

LEMMA DiscoveredParts ==
  ASSUME NEW s \in Sites
  PROVE  /\ Discovered(s) \in ProcStates
         /\ Discovered(s).pc = "consent" /\ Discovered(s).site = s
         /\ Discovered(s).read = Null /\ Discovered(s).refresh = Null
         /\ Discovered(s).got = Null
<1>1. \A k \in ProcStates :
        LET m == [k EXCEPT !.pc = "consent", !.site = s]
        IN  /\ m \in ProcStates /\ m.pc = "consent" /\ m.site = s
            /\ m.read = k.read /\ m.refresh = k.refresh /\ m.got = k.got
  BY DEF ProcStates
<1> QED BY <1>1, IdleParts DEF Discovered

LEMMA GrantedParts ==
  ASSUME NEW k \in ProcStates, NEW t \in Tokens
  PROVE  /\ Granted(k, t) \in ProcStates
         /\ Granted(k, t).pc = "granted" /\ Granted(k, t).refresh = t
         /\ Granted(k, t).site = k.site /\ Granted(k, t).read = k.read
         /\ Granted(k, t).got = k.got
BY DEF ProcStates, Granted

LEMMA ObtainedParts ==
  ASSUME NEW k \in ProcStates, k.refresh \in Tokens, NEW a \in Tokens \cup {Null}
  PROVE  /\ Obtained(k, a) \in ProcStates
         /\ Obtained(k, a).pc = "save" /\ Obtained(k, a).site = k.site
         /\ Obtained(k, a).read = k.read /\ Obtained(k, a).refresh = k.refresh
         /\ Obtained(k, a).got = IF a = Null THEN k.refresh ELSE a
<1>1. NewRefreshToken(k.refresh, a) = IF a = Null THEN k.refresh ELSE a
  BY DEF NewRefreshToken
<1>2. NewRefreshToken(k.refresh, a) \in Tokens
  BY <1>1
<1> QED BY <1>1, <1>2 DEF ProcStates, Obtained

LEMMA UnauthorizedParts ==
  ASSUME NEW k \in ProcStates
  PROVE  /\ [k EXCEPT !.pc = "unauthorized"] \in ProcStates
         /\ [k EXCEPT !.pc = "unauthorized"].pc = "unauthorized"
         /\ [k EXCEPT !.pc = "unauthorized"].read = k.read
         /\ [k EXCEPT !.pc = "unauthorized"].refresh = k.refresh
         /\ [k EXCEPT !.pc = "unauthorized"].got = k.got
BY DEF ProcStates

(***************************************************************************)
(* Types.                                                                  *)
(***************************************************************************)
LEMMA TokenTypeInit == TokenInit => TokenTypeOK
<1> SUFFICES ASSUME TokenInit PROVE TokenTypeOK
  OBVIOUS
<1>1. 0 \in Tokens
  BY TokenConstants DEF Tokens, TokenConstants
<1>2. server \in ServerRows /\ home \in [Tokens -> Sites]
  <2>1. PICK s \in Sites : server = [site |-> s, refresh |-> 0] /\ home = [t \in Tokens |-> s]
    BY DEF TokenInit
  <2> QED BY <1>1, <2>1 DEF ServerRows
<1>3. proc \in [Processes -> ProcStates] /\ \A p \in Processes : proc[p].pc = "idle"
  BY IdleParts DEF TokenInit
<1>4. live \subseteq 0 .. last /\ last \in Tokens
  <2>1. live = {0} /\ last = 0
    BY DEF TokenInit
  <2>2. last \in 0 .. last
    BY <2>1
  <2> QED BY <1>1, <2>1, <2>2
<1>5. lock \in Requests \cup {Null} /\ spoilt \in {"", "stale", "invalid", "lost", "revoked"}
  BY DEF TokenInit
<1>6. losses \in 0 .. MaxLosses
  <2>1. losses = 0
    BY DEF TokenInit
  <2> QED BY <2>1, Numbers
<1> QED BY <1>2, <1>3, <1>4, <1>5, <1>6 DEF TokenTypeOK

\* What a step of one process may become.
Typed(p, k) ==
  /\ k \in ProcStates
  /\ k.pc \in {"consent", "granted", "exchange", "save"} => k.site \in Sites
  /\ k.pc \in {"granted", "exchange", "save"} => k.refresh \in Tokens
  /\ k.pc = "save" => k.got \in Tokens
  /\ k.pc = "unauthorized" => p \in Requests

LEMMA ProcTyped ==
  ASSUME TokenTypeOK, NEW p \in Processes, NEW k, Typed(p, k), proc' = [proc EXCEPT ![p] = k]
  PROVE  /\ proc' \in [Processes -> ProcStates]
         /\ \A q \in Processes : Typed(q, proc'[q])
         /\ \A q \in Processes : proc'[q] = IF q = p THEN k ELSE proc[q]
BY DEF TokenTypeOK, Typed

LEMMA TokenTypeStep == TokenTypeOK /\ [TokenNext]_tokenVars => TokenTypeOK'
<1> SUFFICES ASSUME TokenTypeOK, [TokenNext]_tokenVars PROVE TokenTypeOK'
  OBVIOUS
<1>t. /\ server \in ServerRows /\ server.refresh \in Tokens /\ server.site \in Sites
      /\ lock \in Requests \cup {Null}
      /\ proc \in [Processes -> ProcStates] /\ \A p \in Processes : Typed(p, proc[p])
      /\ home \in [Tokens -> Sites] /\ live \subseteq 0 .. last
      /\ last \in Tokens /\ last \in Nat /\ losses \in 0 .. MaxLosses
      /\ spoilt \in {"", "stale", "invalid", "lost", "revoked"}
  <2>1. server.refresh \in Tokens /\ server.site \in Sites
    BY DEF TokenTypeOK, ServerRows
  <2>2. \A p \in Processes : Typed(p, proc[p])
    BY DEF TokenTypeOK, Typed
  <2>3. last \in Nat
    <3>1. last \in 0 .. MaxTokens
      BY DEF TokenTypeOK, Tokens
    <3> QED BY <3>1, Numbers
  <2> QED BY <2>1, <2>2, <2>3 DEF TokenTypeOK
<1>f. ASSUME proc' \in [Processes -> ProcStates], \A q \in Processes : Typed(q, proc'[q]),
             server' \in ServerRows, lock' \in Requests \cup {Null},
             home' \in [Tokens -> Sites], live' \subseteq 0 .. last', last' \in Tokens,
             losses' \in 0 .. MaxLosses,
             spoilt' \in {"", "stale", "invalid", "lost", "revoked"}
      PROVE  TokenTypeOK'
  <2>1. \A p \in Processes :
          /\ proc'[p].pc \in {"consent", "granted", "exchange", "save"} => proc'[p].site \in Sites
          /\ proc'[p].pc \in {"granted", "exchange", "save"} => proc'[p].refresh \in Tokens
          /\ proc'[p].pc = "save" => proc'[p].got \in Tokens
          /\ proc'[p].pc = "unauthorized" => p \in Requests
    BY <1>f DEF Typed
  <2> QED BY <1>f, <2>1 DEF TokenTypeOK
<1>i. \A p \in Processes : Typed(p, Idle)
  BY IdleParts DEF Typed
<1>1. ASSUME NEW p \in Processes, Unauthorized(p) PROVE TokenTypeOK'
  <2>1. Typed(p, [proc[p] EXCEPT !.pc = "unauthorized"])
    <3>1. p \in Requests /\ proc[p] \in ProcStates
      BY <1>1, <1>t DEF Unauthorized, Typed
    <3>2. /\ [proc[p] EXCEPT !.pc = "unauthorized"] \in ProcStates
          /\ [proc[p] EXCEPT !.pc = "unauthorized"].pc = "unauthorized"
      BY <3>1, UnauthorizedParts
    <3> QED BY <3>1, <3>2 DEF Typed
  <2>2. proc' = [proc EXCEPT ![p] = [proc[p] EXCEPT !.pc = "unauthorized"]]
    BY <1>1 DEF Unauthorized
  <2> QED BY <1>1, <1>t, <1>f, <2>1, <2>2, ProcTyped DEF Unauthorized
<1>2. \A p \in Processes : Typed(p, Reading(server.refresh, server.site))
  <2>1. server \in ServerRows /\ server.refresh \in Tokens /\ server.site \in Sites
    BY <1>t DEF ServerRows
  <2>2. /\ Reading(server.refresh, server.site) \in ProcStates
        /\ Reading(server.refresh, server.site).pc = "exchange"
        /\ Reading(server.refresh, server.site).refresh = server.refresh
        /\ Reading(server.refresh, server.site).site = server.site
    BY <2>1, ReadingParts
  <2> QED BY <2>1, <2>2 DEF Typed
<1>3. ASSUME NEW p \in Processes, LockRow(p) PROVE TokenTypeOK'
  <2>1. p \in Requests
    BY <1>3, <1>t DEF LockRow, Typed
  <2> QED BY <1>2, <1>3, <1>t, <1>f, <2>1, ProcTyped DEF LockRow
<1>4. ASSUME NEW p \in Processes, Load(p) \/ Patch(p) PROVE TokenTypeOK'
  BY <1>2, <1>4, <1>t, <1>f, ProcTyped DEF Load, Patch
<1>5. ASSUME NEW p \in Processes, NEW s \in Sites, Discover(p, s) PROVE TokenTypeOK'
  <2>1. Typed(p, Discovered(s))
    BY DiscoveredParts DEF Typed
  <2> QED BY <1>5, <1>t, <1>f, <2>1, ProcTyped DEF Discover
<1>6. ASSUME last < MaxTokens, last' = last + 1
      PROVE  last' \in Tokens /\ 0 .. last \subseteq 0 .. last' /\ last' \in 0 .. last'
  <2>1. MaxTokens \in Nat /\ last \in Nat
    BY <1>t, TokenConstants DEF TokenConstants
  <2>2. last' \in 0 .. MaxTokens
    BY <1>6, <2>1
  <2>3. 0 .. last \subseteq 0 .. last' /\ last' \in 0 .. last'
    BY <1>6, <2>1
  <2> QED BY <2>2, <2>3 DEF Tokens
<1>7. ASSUME NEW p \in Processes, Reauthorize(p) PROVE TokenTypeOK'
  <2>1. last' \in Tokens /\ live' \subseteq 0 .. last'
    BY <1>6, <1>7, <1>t DEF Reauthorize
  <2>2. proc[p] \in ProcStates /\ proc[p].site \in Sites
    BY <1>7, <1>t DEF Reauthorize, Typed
  <2>5. /\ Granted(proc[p], last') \in ProcStates /\ Granted(proc[p], last').pc = "granted"
        /\ Granted(proc[p], last').refresh = last' /\ Granted(proc[p], last').site = proc[p].site
    BY <2>1, <2>2, GrantedParts
  <2>6. Typed(p, Granted(proc[p], last'))
    BY <2>1, <2>2, <2>5 DEF Typed
  <2>7. home' \in [Tokens -> Sites]
    BY <1>7, <1>t, <2>2 DEF Reauthorize
  <2>3. Typed(p, Granted(proc[p], last')) /\ home' \in [Tokens -> Sites]
    BY <2>6, <2>7
  <2>4. proc' = [proc EXCEPT ![p] = Granted(proc[p], last')]
    BY <1>7 DEF Reauthorize
  <2> QED BY <1>7, <1>t, <1>f, <2>1, <2>3, <2>4, ProcTyped DEF Reauthorize
<1>8. ASSUME NEW p \in Processes, PatchTokens(p) PROVE TokenTypeOK'
  <2>1. Typed(p, Reading(proc[p].refresh, proc[p].site))
    <3>1. proc[p].refresh \in Tokens /\ proc[p].site \in Sites
      BY <1>8, <1>t DEF Typed, PatchTokens
    <3>2. /\ Reading(proc[p].refresh, proc[p].site) \in ProcStates
          /\ Reading(proc[p].refresh, proc[p].site).pc = "exchange"
          /\ Reading(proc[p].refresh, proc[p].site).refresh = proc[p].refresh
          /\ Reading(proc[p].refresh, proc[p].site).site = proc[p].site
      <4>1. \A r \in Tokens, s \in Sites :
              /\ Reading(r, s) \in ProcStates
              /\ Reading(r, s).pc = "exchange"
              /\ Reading(r, s).refresh = r /\ Reading(r, s).site = s
        <5>1. server \in ServerRows
          BY <1>t
        <5> QED BY <5>1, ReadingParts
      <4> QED BY <3>1, <4>1
    <3> QED BY <3>1, <3>2 DEF Typed
  <2> QED BY <1>8, <1>t, <1>f, <2>1, ProcTyped DEF PatchTokens
<1>9. ASSUME NEW p \in Processes, NEW a \in Tokens \cup {Null}, proc[p].pc = "exchange"
      PROVE  Typed(p, Obtained(proc[p], a))
  <2>1. proc[p] \in ProcStates /\ proc[p].refresh \in Tokens /\ proc[p].site \in Sites
    BY <1>9, <1>t DEF Typed
  <2>2. /\ Obtained(proc[p], a) \in ProcStates /\ Obtained(proc[p], a).pc = "save"
        /\ Obtained(proc[p], a).site = proc[p].site
        /\ Obtained(proc[p], a).refresh = proc[p].refresh
        /\ Obtained(proc[p], a).got = IF a = Null THEN proc[p].refresh ELSE a
    BY <2>1, ObtainedParts
  <2>3. Obtained(proc[p], a).got \in Tokens
    BY <2>1, <2>2
  <2> QED BY <2>1, <2>2, <2>3 DEF Typed
<1>10. ASSUME NEW p \in Processes, Rotated(p) PROVE TokenTypeOK'
  <2>1. last' \in Tokens /\ live' \subseteq 0 .. last'
    BY <1>6, <1>10, <1>t DEF Rotated
  <2>2. proc[p].site \in Sites /\ proc[p].pc = "exchange"
    BY <1>10, <1>t DEF Rotated, Typed
  <2>3. Typed(p, Obtained(proc[p], last')) /\ home' \in [Tokens -> Sites]
    BY <1>9, <1>10, <1>t, <2>1, <2>2 DEF Rotated
  <2>4. proc' = [proc EXCEPT ![p] = Obtained(proc[p], last')]
    BY <1>10 DEF Rotated
  <2> QED BY <1>10, <1>t, <1>f, <2>1, <2>3, <2>4, ProcTyped DEF Rotated
<1>11. ASSUME NEW p \in Processes, Renewed(p) PROVE TokenTypeOK'
  <2>1. Typed(p, Obtained(proc[p], Null))
    BY <1>9, <1>11 DEF Renewed
  <2>2. proc' = [proc EXCEPT ![p] = Obtained(proc[p], Null)]
    BY <1>11 DEF Renewed
  <2> QED BY <1>11, <1>t, <1>f, <2>1, <2>2, ProcTyped DEF Renewed
<1>12. ASSUME NEW p \in Processes, Refused(p) PROVE TokenTypeOK'
  BY <1>12, <1>i, <1>t, <1>f, ProcTyped DEF Refused, Freed
<1>13. ASSUME NEW p \in Processes, Save(p) PROVE TokenTypeOK'
  <2>1. proc[p].got \in Tokens /\ proc[p].site \in Sites
    BY <1>13, <1>t DEF Save, Typed
  <2>2. server' \in ServerRows
    BY <1>13, <1>t, <2>1 DEF Save, ServerRows
  <2>3. spoilt' \in {"", "stale", "invalid", "lost", "revoked"} /\ lock' \in Requests \cup {Null}
    BY <1>13, <1>t DEF Save, Freed
  <2> QED BY <1>13, <1>i, <1>t, <1>f, <2>2, <2>3, ProcTyped DEF Save
<1>14. ASSUME NEW p \in Processes, NEW why \in {"invalid", "lost"}, Dropped(p, why),
              losses' \in 0 .. MaxLosses
       PROVE  TokenTypeOK'
  <2>1. spoilt' \in {"", "stale", "invalid", "lost", "revoked"} /\ lock' \in Requests \cup {Null}
    BY <1>14, <1>t DEF Dropped, Freed
  <2> QED BY <1>14, <1>i, <1>t, <1>f, <2>1, ProcTyped DEF Dropped
<1>15. ASSUME NEW p \in Processes, Invalid(p) \/ Lose(p) PROVE TokenTypeOK'
  <2>1. losses' \in 0 .. MaxLosses
    <3>1. losses \in 0 .. MaxLosses
      BY <1>t
    <3>2. CASE losses' = losses
      BY <3>2, <1>t
    <3>3. CASE losses < MaxLosses /\ losses' = losses + 1
      BY <3>1, <3>3, Numbers
    <3> QED BY <1>15, <3>2, <3>3 DEF Invalid, Lose
  <2> QED BY <1>14, <1>15, <2>1 DEF Invalid, Lose
<1>16. CASE Revoke
  <2>1. losses < MaxLosses /\ losses' = losses + 1 /\ live' = live \ {server.refresh}
    BY <1>16 DEF Revoke
  <2>2. losses' \in 0 .. MaxLosses
    <3>1. losses \in 0 .. MaxLosses
      BY <1>t
    <3> QED BY <2>1, <3>1, Numbers
  <2>3. live' \subseteq 0 .. last
    BY <1>t, <2>1
  <2> QED BY <1>16, <1>t, <1>f, <2>2, <2>3 DEF Revoke
<1>17. CASE UNCHANGED tokenVars
  BY <1>17, <1>t, <1>f DEF tokenVars
<1> QED BY <1>1, <1>3, <1>4, <1>5, <1>7, <1>8, <1>10, <1>11, <1>12, <1>13, <1>15, <1>16, <1>17
        DEF TokenNext

\* Every variable keeps its type.
THEOREM TokenTypeCorrect == TokenSpec => []TokenTypeOK
BY TokenTypeInit, TokenTypeStep, PTL DEF TokenSpec

(***************************************************************************)
(* The inductive invariant.                                                *)
(***************************************************************************)
\* What a process has read, exchanges or got, live or not.
Knows(k, t) == k.read = t \/ k.refresh = t \/ k.got = t

\* It exchanges a refresh token that was never in the row (a consent's),
Own(k) == k.pc \in {"exchange", "save"} /\ k.refresh # k.read

\* and has got one from a provider that rotates.
Fresh(k) == k.pc = "save" /\ k.got # k.refresh

\* The refresh tokens that nobody else has heard of.
Holds(k, t) ==
  \/ k.pc = "granted" /\ k.refresh = t
  \/ Own(k) /\ k.refresh = t
  \/ Fresh(k) /\ k.got = t

Known ==
  /\ server.refresh <= last
  /\ \A p \in Processes, t \in Tokens : Knows(proc[p], t) => t <= last

\* A request works on the row as it is, and nobody changes it meanwhile.
WithRow(p) ==
  /\ proc[p].pc \in {"idle", "unauthorized", "exchange", "save"}
  /\ lock = p <=> proc[p].pc \in {"exchange", "save"}
  /\ lock = p => /\ proc[p].read = server.refresh /\ proc[p].refresh = server.refresh
                 /\ proc[p].site = server.site

Locked == \A p \in Requests : WithRow(p)

LoadersRead ==
  \A p \in Loaders : proc[p].pc \in {"idle", "exchange", "save"} /\ ~Own(proc[p])

Private ==
  \A p \in Processes, t \in Tokens : Holds(proc[p], t) =>
    /\ t # server.refresh
    /\ \A q \in Processes \ {p} : ~Knows(proc[q], t)

\* so nobody uses them up, and they are good until they are saved.
HeldGood(k) ==
  /\ k.pc = "granted" \/ (k.pc = "exchange" /\ Own(k)) => Accepted(k.refresh, k.site)
  /\ k.pc = "save" /\ (Own(k) \/ Fresh(k)) => Accepted(k.got, k.site)

\* The row's own one was used up only by who has its successor.
Kept ==
  spoilt = "" =>
    \/ Accepted(server.refresh, server.site)
    \/ \E q \in Processes : Fresh(proc[q]) /\ proc[q].refresh = server.refresh

TokenInv ==
  /\ TokenTypeOK
  /\ Known
  /\ Locked
  /\ LoadersRead
  /\ Private
  /\ \A p \in Processes : HeldGood(proc[p])
  /\ Kept

LEMMA HoldsKnows ==
  ASSUME NEW k, NEW t, Holds(k, t)
  PROVE  Knows(k, t)
BY DEF Holds, Knows, Own, Fresh

LEMMA TokenInvInit == TokenInit => TokenInv
<1> SUFFICES ASSUME TokenInit PROVE TokenInv
  OBVIOUS
<1>1. TokenTypeOK
  BY TokenTypeInit
<1>2. PICK s \in Sites : server = [site |-> s, refresh |-> 0] /\ home = [t \in Tokens |-> s]
  BY DEF TokenInit
<1>3. \A p \in Processes : proc[p] = Idle
  BY DEF TokenInit
<1>4. \A p \in Processes, t \in Tokens : ~Knows(proc[p], t) /\ ~Holds(proc[p], t)
  <2>1. \A t \in Tokens : t # Null
    BY TokenConstants DEF Tokens, TokenConstants
  <2>2. \A t \in Tokens : ~Knows(Idle, t)
    BY <2>1, IdleParts DEF Knows
  <2> QED BY <1>3, <2>2, HoldsKnows
<1>5. live = {0} /\ last = 0 /\ lock = Null /\ 0 \in Tokens
  <2>1. 0 \in Tokens
    BY Numbers DEF Tokens
  <2> QED BY <2>1 DEF TokenInit
<1>6. server.refresh = 0 /\ home[server.refresh] = server.site
  BY <1>2, <1>5
<1>7. Known /\ Private
  BY <1>4, <1>5, <1>6 DEF Known, Private
<1>8. Locked
  BY <1>3, <1>5, IdleParts, TokenConstants DEF Locked, WithRow, TokenConstants, Processes
<1>9. LoadersRead /\ \A p \in Processes : HeldGood(proc[p])
  BY <1>3, IdleParts DEF LoadersRead, HeldGood, Own, Fresh, Processes
<1>10. Kept
  BY <1>5, <1>6 DEF Kept, Accepted
<1> QED BY <1>1, <1>7, <1>8, <1>9, <1>10 DEF TokenInv

(***************************************************************************)
(* What a step of one process leaves as it is.                             *)
(***************************************************************************)
Others(p) == \A q \in Processes \ {p} : proc'[q] = proc[q]

LEMMA ProcOf ==
  ASSUME TokenTypeOK, NEW p \in Processes, NEW k, proc' = [proc EXCEPT ![p] = k]
  PROVE  proc'[p] = k /\ Others(p)
BY DEF TokenTypeOK, Others

\* A process that learns only the row's refresh token, or a new one, tells
\* nothing to anybody.
LEMMA PrivateStep ==
  ASSUME Private, NEW p \in Processes, NEW N, Others(p),
         \A t \in N : t # server.refresh /\ \A q \in Processes : ~Knows(proc[q], t),
         \A t \in Tokens : Knows(proc'[p], t) =>
                             Knows(proc[p], t) \/ t = server.refresh \/ t \in N,
         \A t \in Tokens : Holds(proc'[p], t) => Holds(proc[p], t) \/ t \in N,
         \/ server'.refresh = server.refresh
         \/ /\ Knows(proc[p], server'.refresh)
            /\ \A t \in Tokens : ~Holds(proc'[p], t)
  PROVE  Private'
<1> SUFFICES ASSUME NEW q \in Processes, NEW t \in Tokens, Holds(proc'[q], t)
             PROVE  /\ t # server'.refresh
                    /\ \A r \in Processes \ {q} : ~Knows(proc'[r], t)
  BY DEF Private
<1>1. CASE q = p
  <2>1. server'.refresh = server.refresh
    BY <1>1
  <2>2. CASE t \in N
    BY <1>1, <2>1, <2>2 DEF Others
  <2>3. CASE Holds(proc[p], t)
    BY <1>1, <2>1, <2>3 DEF Others, Private
  <2> QED BY <1>1, <2>2, <2>3
<1>2. CASE q # p
  <2>1. Holds(proc[q], t) /\ proc'[q] = proc[q]
    BY <1>2 DEF Others
  <2>2. t # server.refresh /\ \A r \in Processes \ {q} : ~Knows(proc[r], t)
    BY <2>1 DEF Private
  <2>3. ~Knows(proc[p], t)
    BY <1>2, <2>2
  <2>4. t \notin N
    BY <2>1, HoldsKnows
  <2>5. ~Knows(proc'[p], t)
    BY <2>2, <2>3, <2>4
  <2>6. t # server'.refresh
    BY <2>2, <2>3
  <2> QED BY <2>2, <2>5, <2>6 DEF Others
<1> QED BY <1>1, <1>2

LEMMA KnownStep ==
  ASSUME Known, TokenTypeOK, NEW p \in Processes, NEW N, Others(p),
         last' \in Nat, last <= last', \A t \in N : t <= last',
         \A t \in Tokens : Knows(proc'[p], t) =>
                             Knows(proc[p], t) \/ t = server.refresh \/ t \in N,
         server'.refresh \in Tokens,
         server'.refresh = server.refresh \/ Knows(proc[p], server'.refresh)
  PROVE  Known'
<1>1. last \in Nat /\ \A t \in Tokens : t \in Nat
  BY Numbers DEF TokenTypeOK, Tokens
<1>2. \A t \in Tokens : t <= last => t <= last'
  BY <1>1
<1>3. server.refresh \in Tokens /\ server.refresh <= last
  BY DEF TokenTypeOK, ServerRows, Known
<1>4. server'.refresh <= last'
  BY <1>2, <1>3 DEF Known
<1>5. ASSUME NEW q \in Processes, NEW t \in Tokens, Knows(proc'[q], t) PROVE t <= last'
  <2>1. CASE q = p
    BY <1>2, <1>3, <1>5, <2>1 DEF Known
  <2>2. CASE q # p
    BY <1>2, <1>5, <2>2 DEF Known, Others
  <2> QED BY <2>1, <2>2
<1> QED BY <1>4, <1>5 DEF Known

\* What is not revoked or used up stays good.
LEMMA GoodStep ==
  ASSUME TokenTypeOK, NEW q \in Processes, HeldGood(proc[q]), proc'[q] = proc[q],
         \A t \in live : Holds(proc[q], t) => t \in live',
         \A t \in live : home'[t] = home[t]
  PROVE  HeldGood(proc[q])'
<1>1. ASSUME NEW t, NEW s, Holds(proc[q], t), Accepted(t, s)
      PROVE  t \in live' /\ home'[t] = s
  BY <1>1 DEF Accepted
<1>2. ASSUME \/ proc[q].pc = "granted"
             \/ proc[q].pc = "exchange" /\ Own(proc[q])
      PROVE  proc[q].refresh \in live' /\ home'[proc[q].refresh] = proc[q].site
  <2>1. Holds(proc[q], proc[q].refresh) /\ Accepted(proc[q].refresh, proc[q].site)
    BY <1>2 DEF HeldGood, Holds
  <2> QED BY <1>1, <2>1
<1>3. ASSUME proc[q].pc = "save", Own(proc[q]) \/ Fresh(proc[q])
      PROVE  proc[q].got \in live' /\ home'[proc[q].got] = proc[q].site
  <2>1. Holds(proc[q], proc[q].got) /\ Accepted(proc[q].got, proc[q].site)
    BY <1>3 DEF HeldGood, Holds, Fresh
  <2> QED BY <1>1, <2>1
<1> QED BY <1>2, <1>3 DEF HeldGood, Accepted

LEMMA LockedStep ==
  ASSUME Locked, NEW p \in Processes, Others(p),
         \A r \in Requests \ {p} : (lock' = r <=> lock = r) /\ (lock = r => server' = server),
         p \in Requests => WithRow(p)'
  PROVE  Locked'
<1> SUFFICES ASSUME NEW r \in Requests PROVE WithRow(r)'
  BY DEF Locked
<1>1. CASE r = p
  BY <1>1
<1>2. CASE r # p
  <2>1. proc'[r] = proc[r]
    BY <1>2 DEF Others, Processes
  <2>2. WithRow(r)
    BY DEF Locked
  <2> QED BY <1>2, <2>1, <2>2 DEF WithRow
<1> QED BY <1>1, <1>2

LEMMA LoadersStep ==
  ASSUME LoadersRead, NEW p \in Processes, Others(p),
         p \in Loaders => proc'[p].pc \in {"idle", "exchange", "save"} /\ ~Own(proc'[p])
  PROVE  LoadersRead'
BY DEF LoadersRead, Others, Processes, Own

\* A step that neither gets a token nor saves or loses one.
LEMMA QuietStep ==
  ASSUME TokenInv, TokenTypeOK', NEW p \in Processes, Others(p),
         UNCHANGED <<server, live, home, last, spoilt>>,
         \A t \in Tokens : Knows(proc'[p], t) => Knows(proc[p], t) \/ t = server.refresh,
         \A t \in Tokens : Holds(proc'[p], t) => Holds(proc[p], t),
         HeldGood(proc[p])', ~Fresh(proc[p]),
         \A r \in Requests \ {p} : lock' = r <=> lock = r,
         p \in Requests => WithRow(p)',
         p \in Loaders => proc'[p].pc \in {"idle", "exchange", "save"} /\ ~Own(proc'[p])
  PROVE  TokenInv'
<1>0. TokenTypeOK /\ Known /\ Locked /\ LoadersRead /\ Private /\ Kept
  BY DEF TokenInv
<1> DEFINE N == {}
<1>n. /\ \A t \in N : FALSE
      /\ \A t \in Tokens : Knows(proc'[p], t) =>
                            Knows(proc[p], t) \/ t = server.refresh \/ t \in N
      /\ \A t \in Tokens : Holds(proc'[p], t) => Holds(proc[p], t) \/ t \in N
  OBVIOUS
<1> HIDE DEF N
<1>1. Known'
  <2>1. last \in 0 .. MaxTokens /\ server'.refresh \in Tokens
    BY <1>0 DEF TokenTypeOK, ServerRows, Tokens
  <2>2. last' \in Nat /\ last <= last'
    BY <2>1, Numbers
  <2>3. \A t \in N : t <= last'
    BY <1>n
  <2> QED BY <1>0, <1>n, <2>1, <2>2, <2>3, KnownStep
<1>2. Private'
  <2>1. \A t \in N : t # server.refresh /\ \A q \in Processes : ~Knows(proc[q], t)
    BY <1>n
  <2> QED BY <1>0, <1>n, <2>1, PrivateStep
<1>3. Locked'
  BY <1>0, LockedStep
<1>4. LoadersRead'
  BY <1>0, LoadersStep
<1>5. ASSUME NEW q \in Processes PROVE HeldGood(proc[q])'
  <2>1. CASE q # p
    <3>1. proc'[q] = proc[q] /\ HeldGood(proc[q])
      BY <2>1 DEF Others, TokenInv
    <3> QED BY <1>0, <3>1, GoodStep
  <2> QED BY <2>1
<1>6. Kept'
  <2>1. ASSUME NEW q \in Processes, Fresh(proc[q]) PROVE proc'[q] = proc[q]
    BY <2>1 DEF Others
  <2> QED BY <1>0, <2>1 DEF Kept, Accepted, Fresh
<1> QED BY <1>1, <1>2, <1>3, <1>4, <1>5, <1>6 DEF TokenInv

LEMMA UnauthorizedStep ==
  ASSUME TokenInv, TokenTypeOK', NEW p \in Processes, Unauthorized(p)
  PROVE  TokenInv'
<1>1. p \in Requests /\ p \notin Loaders /\ proc[p].pc = "idle" /\ proc[p] \in ProcStates
  BY TokenConstants DEF Unauthorized, TokenConstants, TokenInv, TokenTypeOK
<1>2. proc' = [proc EXCEPT ![p] = [proc[p] EXCEPT !.pc = "unauthorized"]]
  BY DEF Unauthorized
<1>3. proc'[p] = [proc[p] EXCEPT !.pc = "unauthorized"] /\ Others(p)
  BY <1>2, ProcOf DEF TokenInv
<1>4. /\ proc'[p].pc = "unauthorized" /\ proc'[p].read = proc[p].read
      /\ proc'[p].refresh = proc[p].refresh /\ proc'[p].got = proc[p].got
  BY <1>1, <1>3, UnauthorizedParts
<1>5. \A t \in Tokens : Knows(proc'[p], t) => Knows(proc[p], t)
  BY <1>4 DEF Knows
<1>6. WithRow(p)'
  <2>1. WithRow(p)
    BY <1>1 DEF TokenInv, Locked
  <2> QED BY <1>1, <1>4, <2>1 DEF WithRow, Unauthorized
<1>7. HeldGood(proc[p])' /\ ~Fresh(proc[p]) /\ \A t \in Tokens : ~Holds(proc'[p], t)
  BY <1>1, <1>4 DEF HeldGood, Fresh, Holds, Own
<1> QED BY <1>1, <1>3, <1>5, <1>6, <1>7, QuietStep DEF Unauthorized

\* It reads the row, with its refresh token or one of its own to exchange.
LEMMA ReadingStep ==
  ASSUME TokenInv, TokenTypeOK', NEW p \in Processes, NEW r \in Tokens, NEW s \in Sites,
         proc' = [proc EXCEPT ![p] = Reading(r, s)],
         UNCHANGED <<server, live, home, last, spoilt>>,
         \/ r = server.refresh /\ s = server.site
         \/ proc[p].pc = "granted" /\ r = proc[p].refresh /\ s = proc[p].site,
         proc[p].pc # "save",
         IF p \in Requests THEN lock = Null /\ lock' = p ELSE lock' = lock,
         p \in Requests \cup Loaders => r = server.refresh /\ s = server.site
  PROVE  TokenInv'
<1>1. /\ proc'[p].pc = "exchange" /\ proc'[p].read = server.refresh
      /\ proc'[p].refresh = r /\ proc'[p].site = s /\ proc'[p].got = Null /\ Others(p)
  <2>1. TokenTypeOK /\ server \in ServerRows
    BY DEF TokenInv, TokenTypeOK
  <2>2. proc'[p] = Reading(r, s) /\ Others(p)
    BY <2>1, ProcOf
  <2> QED BY <2>1, <2>2, ReadingParts
<1>2. \A t \in Tokens : t # Null
  BY TokenConstants DEF Tokens, TokenConstants
<1>3. \A t \in Tokens : Knows(proc'[p], t) => Knows(proc[p], t) \/ t = server.refresh
  BY <1>1, <1>2 DEF Knows
<1>4. \A t \in Tokens : Holds(proc'[p], t) => Holds(proc[p], t)
  BY <1>1 DEF Holds, Own, Fresh
<1>5. HeldGood(proc[p])'
  <2>1. CASE r = server.refresh
    BY <1>1, <2>1 DEF HeldGood, Own, Fresh
  <2>2. CASE proc[p].pc = "granted" /\ r = proc[p].refresh /\ s = proc[p].site
    <3>1. Accepted(r, s)
      BY <2>2 DEF TokenInv, HeldGood
    <3> QED BY <1>1, <3>1 DEF HeldGood, Accepted
  <2> QED BY <2>1, <2>2
<1>6. ~Fresh(proc[p])
  BY DEF Fresh
<1>7. p \in Requests => WithRow(p)'
  BY <1>1 DEF WithRow
<1>8. \A q \in Requests : q # Null
  BY TokenConstants DEF TokenConstants
<1>9. \A q \in Requests \ {p} : lock' = q <=> lock = q
  BY <1>8
<1>10. p \in Loaders => proc'[p].pc \in {"idle", "exchange", "save"} /\ ~Own(proc'[p])
  BY <1>1 DEF Own
<1> QED BY <1>1, <1>3, <1>4, <1>5, <1>6, <1>7, <1>9, <1>10, QuietStep

LEMMA ReadStep ==
  ASSUME TokenInv, TokenTypeOK', NEW p \in Processes,
         LockRow(p) \/ Load(p) \/ Patch(p) \/ PatchTokens(p)
  PROVE  TokenInv'
<1>1. server.refresh \in Tokens /\ server.site \in Sites
  BY DEF TokenInv, TokenTypeOK, ServerRows
<1>2. /\ Requests \cap Loaders = {} /\ Requests \cap Updates = {} /\ Loaders \cap Updates = {}
  BY TokenConstants DEF TokenConstants
<1>3. CASE LockRow(p)
  <2>1. p \in Requests
    BY <1>3 DEF TokenInv, TokenTypeOK, LockRow
  <2> QED BY <1>1, <1>3, <2>1, ReadingStep DEF LockRow, CanLock
<1>4. CASE Load(p)
  BY <1>1, <1>2, <1>4, ReadingStep DEF Load
<1>5. CASE Patch(p)
  BY <1>1, <1>2, <1>5, ReadingStep DEF Patch
<1>6. CASE PatchTokens(p)
  <2>1. p \notin Requests /\ p \notin Loaders
    BY <1>6 DEF TokenInv, Locked, WithRow, LoadersRead, PatchTokens
  <2>2. proc[p].refresh \in Tokens /\ proc[p].site \in Sites
    BY <1>6 DEF TokenInv, TokenTypeOK, PatchTokens
  <2> QED BY <1>6, <2>1, <2>2, ReadingStep DEF PatchTokens
<1> QED BY <1>3, <1>4, <1>5, <1>6

LEMMA DiscoverStep ==
  ASSUME TokenInv, TokenTypeOK', NEW p \in Processes, NEW s \in Sites, Discover(p, s)
  PROVE  TokenInv'
<1>1. p \notin Requests /\ p \notin Loaders
  BY TokenConstants DEF Discover, TokenConstants
<1>2. /\ proc'[p].pc = "consent" /\ proc'[p].read = Null
      /\ proc'[p].refresh = Null /\ proc'[p].got = Null /\ Others(p)
  <2>1. proc'[p] = Discovered(s) /\ Others(p)
    BY ProcOf DEF Discover, TokenInv
  <2> QED BY <2>1, DiscoveredParts
<1>3. \A t \in Tokens : t # Null
  BY TokenConstants DEF Tokens, TokenConstants
<1>4. \A t \in Tokens : ~Knows(proc'[p], t) /\ ~Holds(proc'[p], t)
  BY <1>2, <1>3 DEF Knows, Holds, Own, Fresh
<1>5. HeldGood(proc[p])' /\ ~Fresh(proc[p])
  BY <1>2 DEF HeldGood, Own, Fresh, Discover
<1> QED BY <1>1, <1>2, <1>4, <1>5, QuietStep DEF Discover

LEMMA RefusedStep ==
  ASSUME TokenInv, TokenTypeOK', NEW p \in Processes, Refused(p)
  PROVE  TokenInv'
<1>1. proc'[p] = Idle /\ Others(p)
  BY ProcOf DEF Refused, TokenInv
<1>2. \A t \in Tokens : t # Null
  BY TokenConstants DEF Tokens, TokenConstants
<1>3. \A t \in Tokens : ~Knows(proc'[p], t)
  BY <1>1, <1>2, IdleParts DEF Knows
<1>4. \A t \in Tokens : ~Holds(proc'[p], t)
  BY <1>3, HoldsKnows
<1>5. HeldGood(proc[p])' /\ ~Fresh(proc[p]) /\ ~Own(proc'[p])
  BY <1>1, IdleParts DEF HeldGood, Own, Fresh, Refused
<1>6. \A r \in Requests \cup {p} : r # Null
  BY TokenConstants DEF TokenConstants, Processes
<1>7. \A r \in Requests \ {p} : lock' = r <=> lock = r
  BY <1>6 DEF Refused, Freed
<1>8. p \in Requests => WithRow(p)'
  BY <1>1, <1>6, IdleParts DEF WithRow, Refused, Freed
<1> QED BY <1>1, <1>3, <1>4, <1>5, <1>7, <1>8, IdleParts, QuietStep DEF Refused

LEMMA RenewedStep ==
  ASSUME TokenInv, TokenTypeOK', NEW p \in Processes, Renewed(p)
  PROVE  TokenInv'
<1>1. /\ proc[p].pc = "exchange" /\ proc[p].refresh \in Tokens /\ proc[p] \in ProcStates
      /\ Accepted(proc[p].refresh, proc[p].site)
  BY DEF Renewed, TokenInv, TokenTypeOK
<1>2. proc'[p] = Obtained(proc[p], Null) /\ Others(p)
  <2>1. proc' = [proc EXCEPT ![p] = Obtained(proc[p], Null)]
    BY DEF Renewed
  <2> QED BY <2>1, ProcOf DEF TokenInv
<1>3. /\ proc'[p].pc = "save" /\ proc'[p].read = proc[p].read
      /\ proc'[p].refresh = proc[p].refresh /\ proc'[p].got = proc[p].refresh
      /\ proc'[p].site = proc[p].site
  BY <1>1, <1>2, ObtainedParts
<1>4. \A t \in Tokens : Knows(proc'[p], t) => Knows(proc[p], t)
  BY <1>3 DEF Knows
<1>5. \A t \in Tokens : Holds(proc'[p], t) => Holds(proc[p], t)
  BY <1>1, <1>3 DEF Holds, Own, Fresh
<1>6. HeldGood(proc[p])' /\ ~Fresh(proc[p])
  BY <1>1, <1>3 DEF HeldGood, Fresh, Accepted, Renewed
<1>7. p \in Requests => WithRow(p)'
  <2>1. p \in Requests => WithRow(p)
    BY DEF TokenInv, Locked
  <2> QED BY <1>1, <1>3, <2>1 DEF WithRow, Renewed
<1>8. p \in Loaders => ~Own(proc'[p])
  BY <1>1, <1>3 DEF TokenInv, LoadersRead, Own
<1> QED BY <1>2, <1>3, <1>4, <1>5, <1>6, <1>7, <1>8, QuietStep DEF Renewed

\* A new refresh token is one that nobody knows.
LEMMA NewToken ==
  ASSUME TokenInv, TokenTypeOK', last' = last + 1
  PROVE  /\ last' \in Tokens /\ last' \in Nat /\ last <= last' /\ last' <= last'
         /\ last' \notin live /\ last' # server.refresh
         /\ \A q \in Processes : ~Knows(proc[q], last')
<1>1. last' \in Tokens /\ last \in 0 .. MaxTokens /\ last' \in 0 .. MaxTokens
  BY DEF TokenInv, TokenTypeOK, Tokens
<1>2. last \in Nat /\ last' \in Nat /\ last <= last' /\ last' <= last' /\ ~(last' <= last)
  BY <1>1, Numbers
<1>3. last' \notin live
  <2>1. live \subseteq 0 .. last
    BY DEF TokenInv, TokenTypeOK
  <2>2. last' \notin 0 .. last
    BY <1>2
  <2> QED BY <2>1, <2>2
<1>4. last' # server.refresh /\ \A q \in Processes : ~Knows(proc[q], last')
  BY <1>1, <1>2 DEF TokenInv, Known
<1> QED BY <1>1, <1>2, <1>3, <1>4

\* What follows when a process has got one.
LEMMA NewStep ==
  ASSUME TokenInv, TokenTypeOK', NEW p \in Processes, Others(p),
         last' = last + 1, UNCHANGED <<server, lock>>,
         \A t \in Tokens : Knows(proc'[p], t) => Knows(proc[p], t) \/ t = last',
         \A t \in Tokens : Holds(proc'[p], t) => Holds(proc[p], t) \/ t = last',
         \A t \in live : t \in live' \/ Knows(proc[p], t),
         \A t \in live : home'[t] = home[t],
         HeldGood(proc[p])',
         p \in Requests => WithRow(p)',
         p \in Loaders => proc'[p].pc \in {"idle", "exchange", "save"} /\ ~Own(proc'[p]),
         Kept'
  PROVE  TokenInv'
<1>0. TokenTypeOK /\ Known /\ Locked /\ LoadersRead /\ Private
  BY DEF TokenInv
<1> DEFINE N == {last'}
<1>n. /\ \A t \in N : t = last'
      /\ \A t \in Tokens : Knows(proc'[p], t) =>
                            Knows(proc[p], t) \/ t = server.refresh \/ t \in N
      /\ \A t \in Tokens : Holds(proc'[p], t) => Holds(proc[p], t) \/ t \in N
  OBVIOUS
<1> HIDE DEF N
<1>1. Known'
  <2>1. server'.refresh \in Tokens
    BY <1>0 DEF TokenTypeOK, ServerRows
  <2> QED BY <1>0, <1>n, <2>1, NewToken, KnownStep
<1>2. Private'
  <2>1. \A t \in N : t # server.refresh /\ \A q \in Processes : ~Knows(proc[q], t)
    BY <1>n, NewToken
  <2> QED BY <1>0, <1>n, <2>1, PrivateStep
<1>3. Locked'
  BY <1>0, LockedStep
<1>4. LoadersRead'
  BY <1>0, LoadersStep
<1>5. ASSUME NEW q \in Processes PROVE HeldGood(proc[q])'
  <2>1. CASE q # p
    <3>1. proc'[q] = proc[q] /\ HeldGood(proc[q])
      BY <2>1 DEF Others, TokenInv
    <3>2. \A t \in live : t \in Tokens
      <4>1. live \subseteq 0 .. last /\ last \in 0 .. MaxTokens
        BY <1>0 DEF TokenTypeOK, Tokens
      <4> QED BY <4>1, Numbers DEF Tokens
    <3>3. \A t \in live : Holds(proc[q], t) => t \in live'
      BY <1>0, <2>1, <3>2 DEF Private
    <3> QED BY <1>0, <3>1, <3>3, GoodStep
  <2> QED BY <2>1
<1> QED BY <1>1, <1>2, <1>3, <1>4, <1>5 DEF TokenInv

LEMMA ReauthorizeStep ==
  ASSUME TokenInv, TokenTypeOK', NEW p \in Processes, Reauthorize(p)
  PROVE  TokenInv'
<1>1. last' = last + 1 /\ last' \in Tokens /\ last' \notin live /\ last' # server.refresh
  BY NewToken DEF Reauthorize
<1>2. proc[p].pc = "consent" /\ proc[p] \in ProcStates
  BY DEF Reauthorize, TokenInv, TokenTypeOK
<1>3. p \notin Requests /\ p \notin Loaders
  BY <1>2 DEF TokenInv, Locked, WithRow, LoadersRead
<1>4. proc'[p] = Granted(proc[p], last') /\ Others(p)
  <2>1. proc' = [proc EXCEPT ![p] = Granted(proc[p], last')]
    BY DEF Reauthorize
  <2> QED BY <2>1, ProcOf DEF TokenInv
<1>5. /\ proc'[p].pc = "granted" /\ proc'[p].refresh = last'
      /\ proc'[p].site = proc[p].site /\ proc'[p].read = proc[p].read
      /\ proc'[p].got = proc[p].got
  BY <1>1, <1>2, <1>4, GrantedParts
<1>6. /\ \A t \in Tokens : Knows(proc'[p], t) => Knows(proc[p], t) \/ t = last'
      /\ \A t \in Tokens : Holds(proc'[p], t) => t = last'
  BY <1>5 DEF Knows, Holds, Own, Fresh
<1>7. home \in [Tokens -> Sites] /\ home' = [home EXCEPT ![last'] = proc[p].site]
  BY DEF Reauthorize, TokenInv, TokenTypeOK
<1>8. home'[last'] = proc[p].site /\ \A t \in Tokens : t # last' => home'[t] = home[t]
  BY <1>1, <1>7
<1>9. last' \in live' /\ \A t \in live : t \in live'
  BY DEF Reauthorize
<1>10. \A t \in live : t \in Tokens /\ home'[t] = home[t]
  <2>1. live \subseteq 0 .. last /\ last \in 0 .. MaxTokens
    BY DEF TokenInv, TokenTypeOK, Tokens
  <2>2. \A t \in live : t \in Tokens
    BY <2>1, Numbers DEF Tokens
  <2> QED BY <1>1, <1>8, <2>2
<1>11. HeldGood(proc[p])'
  BY <1>5, <1>8, <1>9 DEF HeldGood, Accepted
<1>12. Kept'
  <2>1. UNCHANGED <<server, spoilt>> /\ Kept
    BY DEF Reauthorize, TokenInv
  <2>2. Accepted(server.refresh, server.site) => Accepted(server.refresh, server.site)'
    BY <1>9, <1>10, <2>1 DEF Accepted
  <2>3. \A q \in Processes : Fresh(proc[q]) => proc'[q] = proc[q]
    BY <1>2, <1>4 DEF Others, Fresh
  <2> QED BY <2>1, <2>2, <2>3 DEF Kept, Fresh
<1> QED BY <1>1, <1>3, <1>4, <1>6, <1>9, <1>10, <1>11, <1>12, NewStep DEF Reauthorize

\* The provider rotates: the old token is dead, and whoever held it has the new.
LEMMA RotatedStep ==
  ASSUME TokenInv, TokenTypeOK', NEW p \in Processes, Rotated(p)
  PROVE  TokenInv'
<1>1. last' = last + 1 /\ last' \in Tokens /\ last' \notin live /\ last' # server.refresh
  BY NewToken DEF Rotated
<1>2. /\ proc[p].pc = "exchange" /\ proc[p].refresh \in Tokens /\ proc[p] \in ProcStates
      /\ proc[p].refresh \in live
  BY DEF Rotated, Accepted, TokenInv, TokenTypeOK
<1>3. proc'[p] = Obtained(proc[p], last') /\ Others(p)
  <2>1. proc' = [proc EXCEPT ![p] = Obtained(proc[p], last')]
    BY DEF Rotated
  <2> QED BY <2>1, ProcOf DEF TokenInv
<1>4. /\ proc'[p].pc = "save" /\ proc'[p].read = proc[p].read
      /\ proc'[p].refresh = proc[p].refresh /\ proc'[p].got = last'
      /\ proc'[p].site = proc[p].site
  <2>1. last' # Null
    BY <1>1, TokenConstants DEF Tokens, TokenConstants
  <2> QED BY <1>1, <1>2, <1>3, <2>1, ObtainedParts
<1>5. /\ \A t \in Tokens : Knows(proc'[p], t) => Knows(proc[p], t) \/ t = last'
      /\ \A t \in Tokens : Holds(proc'[p], t) => Holds(proc[p], t) \/ t = last'
  BY <1>2, <1>4 DEF Knows, Holds, Own, Fresh
<1>6. home \in [Tokens -> Sites] /\ home' = [home EXCEPT ![last'] = proc[p].site]
  BY DEF Rotated, TokenInv, TokenTypeOK
<1>7. home'[last'] = proc[p].site /\ \A t \in Tokens : t # last' => home'[t] = home[t]
  BY <1>1, <1>6
<1>8. last' \in live' /\ \A t \in live : t \in live' \/ t = proc[p].refresh
  BY DEF Rotated
<1>9. \A t \in live : t \in Tokens /\ home'[t] = home[t]
  <2>1. live \subseteq 0 .. last /\ last \in 0 .. MaxTokens
    BY DEF TokenInv, TokenTypeOK, Tokens
  <2>2. \A t \in live : t \in Tokens
    BY <2>1, Numbers DEF Tokens
  <2> QED BY <1>1, <1>7, <2>2
<1>10. HeldGood(proc[p])'
  BY <1>4, <1>7, <1>8 DEF HeldGood, Accepted
<1>11. Kept'
  <2>1. UNCHANGED <<server, spoilt>> /\ Kept
    BY DEF Rotated, TokenInv
  <2>2. CASE proc[p].refresh = server.refresh
    <3>1. Fresh(proc[p])' /\ proc'[p].refresh = server'.refresh
      BY <1>1, <1>2, <1>4, <2>1, <2>2 DEF Fresh
    <3> QED BY <3>1 DEF Kept
  <2>3. CASE proc[p].refresh # server.refresh
    <3>1. Accepted(server.refresh, server.site) => Accepted(server.refresh, server.site)'
      BY <1>8, <1>9, <2>1, <2>3 DEF Accepted
    <3>2. \A q \in Processes : Fresh(proc[q]) => proc'[q] = proc[q]
      BY <1>2, <1>3 DEF Others, Fresh
    <3> QED BY <2>1, <3>1, <3>2 DEF Kept, Fresh
  <2> QED BY <2>2, <2>3
<1>12. p \in Requests => WithRow(p)'
  <2>1. p \in Requests => WithRow(p)
    BY DEF TokenInv, Locked
  <2> QED BY <1>2, <1>4, <2>1 DEF WithRow, Rotated
<1>13. p \in Loaders => ~Own(proc'[p])
  BY <1>2, <1>4 DEF TokenInv, LoadersRead, Own
<1>14. \A t \in live : t \in live' \/ Knows(proc[p], t)
  BY <1>8 DEF Knows
<1> QED BY <1>1, <1>3, <1>4, <1>5, <1>9, <1>10, <1>11, <1>12, <1>13, <1>14, NewStep
        DEF Rotated

\* What follows when a process is done, whether it has saved or not.
LEMMA DoneStep ==
  ASSUME TokenInv, TokenTypeOK', NEW p \in Processes,
         proc' = [proc EXCEPT ![p] = Idle], lock' = Freed(p),
         UNCHANGED <<live, home, last>>,
         \/ server'.refresh = server.refresh
         \/ Knows(proc[p], server'.refresh),
         \A r \in Requests \ {p} : lock = r => server' = server,
         Kept'
  PROVE  TokenInv'
<1>0. TokenTypeOK /\ Known /\ Locked /\ LoadersRead /\ Private
  BY DEF TokenInv
<1>1. proc'[p] = Idle /\ Others(p)
  BY <1>0, ProcOf
<1>2. \A t \in Tokens : ~Knows(proc'[p], t) /\ ~Holds(proc'[p], t)
  <2>1. \A t \in Tokens : t # Null
    BY TokenConstants DEF Tokens, TokenConstants
  <2>2. \A t \in Tokens : ~Knows(proc'[p], t)
    BY <1>1, <2>1, IdleParts DEF Knows
  <2> QED BY <2>2, HoldsKnows
<1> DEFINE N == {}
<1>n. /\ \A t \in N : FALSE
      /\ \A t \in Tokens : Knows(proc'[p], t) =>
                            Knows(proc[p], t) \/ t = server.refresh \/ t \in N
      /\ \A t \in Tokens : Holds(proc'[p], t) => Holds(proc[p], t) \/ t \in N
  BY <1>2
<1> HIDE DEF N
<1>3. Known'
  <2>1. last \in 0 .. MaxTokens /\ server'.refresh \in Tokens
    BY <1>0 DEF TokenTypeOK, ServerRows, Tokens
  <2>2. last' \in Nat /\ last <= last'
    BY <2>1, Numbers
  <2>3. \A t \in N : t <= last'
    BY <1>n
  <2> QED BY <1>0, <1>1, <1>n, <2>1, <2>2, <2>3, KnownStep
<1>4. Private'
  <2>1. \A t \in N : t # server.refresh /\ \A q \in Processes : ~Knows(proc[q], t)
    BY <1>n
  <2> QED BY <1>0, <1>1, <1>2, <1>n, <2>1, PrivateStep
<1>5. Locked'
  <2>1. \A r \in Requests \cup {p} : r # Null
    BY TokenConstants DEF TokenConstants, Processes
  <2>2. \A r \in Requests \ {p} : lock' = r <=> lock = r
    BY <2>1 DEF Freed
  <2>3. p \in Requests => WithRow(p)'
    BY <1>1, <2>1, IdleParts DEF WithRow, Freed
  <2> QED BY <1>0, <1>1, <2>2, <2>3, LockedStep
<1>6. LoadersRead'
  BY <1>0, <1>1, IdleParts, LoadersStep DEF Own
<1>7. ASSUME NEW q \in Processes PROVE HeldGood(proc[q])'
  <2>1. CASE q # p
    <3>1. proc'[q] = proc[q] /\ HeldGood(proc[q])
      BY <1>1, <2>1 DEF Others, TokenInv
    <3> QED BY <1>0, <3>1, GoodStep
  <2>2. CASE q = p
    BY <1>1, <2>2, IdleParts DEF HeldGood, Own, Fresh
  <2> QED BY <2>1, <2>2
<1> QED BY <1>3, <1>4, <1>5, <1>6, <1>7 DEF TokenInv

LEMMA SaveStep ==
  ASSUME TokenInv, TokenTypeOK', NEW p \in Processes, Save(p)
  PROVE  TokenInv'
<1>1. /\ proc[p].pc = "save" /\ UNCHANGED <<live, home, last>>
      /\ server'.refresh = proc[p].got
      /\ server'.site = IF p \in Updates THEN proc[p].site ELSE server.site
      /\ lock = (IF p \in Requests THEN p ELSE Null)
      /\ proc' = [proc EXCEPT ![p] = Idle] /\ lock' = Freed(p)
  BY DEF Save
<1>2. \A r \in Requests \ {p} : lock # r
  BY <1>1, TokenConstants DEF TokenConstants
<1>3. Kept'
  <2> SUFFICES ASSUME spoilt' = "" PROVE Kept'
    BY DEF Kept
  <2>1. /\ ~(p \notin Requests /\ Changed(proc[p]))
        /\ proc[p].got # server.refresh \/ spoilt = ""
    BY DEF Save
  <2>2. p \in Requests => /\ proc[p].read = server.refresh /\ proc[p].refresh = server.refresh
                          /\ proc[p].site = server.site
    BY <1>1 DEF TokenInv, Locked, WithRow
  \* it has exchanged the row's own one, and nobody has changed the row,
  <2>3. CASE ~Own(proc[p]) /\ ~Fresh(proc[p])
    <3>1. proc[p].refresh = proc[p].read /\ proc[p].got = proc[p].refresh
      BY <1>1, <2>3 DEF Own, Fresh
    <3>2. proc[p].got = server.refresh /\ proc[p].site = server.site
      BY <2>1, <2>2, <3>1 DEF Changed
    <3>3. spoilt = "" /\ server'.refresh = server.refresh /\ server'.site = server.site
      BY <1>1, <2>1, <3>2
    <3>4. CASE Accepted(server.refresh, server.site)
      BY <1>1, <3>3, <3>4 DEF Kept, Accepted
    <3>5. CASE \E q \in Processes : Fresh(proc[q]) /\ proc[q].refresh = server.refresh
      <4>1. PICK q \in Processes : Fresh(proc[q]) /\ proc[q].refresh = server.refresh
        BY <3>5
      <4>2. proc'[q] = proc[q]
        BY <1>1, <2>3, <4>1, ProcOf DEF Others, TokenInv
      <4>3. Fresh(proc[q])' /\ proc'[q].refresh = server'.refresh
        BY <3>3, <4>1, <4>2 DEF Fresh
      <4> QED BY <4>3 DEF Kept
    <3> QED BY <3>3, <3>4, <3>5 DEF TokenInv, Kept
  \* or it has one of its own that is good where it saves it.
  <2>4. CASE Own(proc[p]) \/ Fresh(proc[p])
    <3>1. Accepted(proc[p].got, proc[p].site)
      BY <1>1, <2>4 DEF TokenInv, HeldGood
    <3>2. server'.site = proc[p].site
      <4>1. CASE p \in Updates
        BY <1>1, <4>1
      <4>2. CASE p \in Requests
        BY <1>1, <2>2, <4>2, TokenConstants DEF TokenConstants
      <4>3. CASE p \in Loaders
        <5>1. proc[p].refresh = proc[p].read
          BY <1>1, <4>3 DEF TokenInv, LoadersRead, Own
        <5>2. p \notin Requests /\ p \notin Updates
          BY <4>3, TokenConstants DEF TokenConstants
        <5> QED BY <1>1, <2>1, <5>1, <5>2 DEF Changed
      <4> QED BY <4>1, <4>2, <4>3 DEF Processes
    <3> QED BY <1>1, <3>1, <3>2 DEF Kept, Accepted
  <2> QED BY <2>3, <2>4
<1>4. Knows(proc[p], server'.refresh)
  BY <1>1 DEF Knows
<1> QED BY <1>1, <1>2, <1>3, <1>4, DoneStep

LEMMA DroppedStep ==
  ASSUME TokenInv, TokenTypeOK', NEW p \in Processes, NEW why \in {"invalid", "lost"},
         Dropped(p, why)
  PROVE  TokenInv'
<1>1. /\ UNCHANGED <<server, live, home, last>>
      /\ proc' = [proc EXCEPT ![p] = Idle] /\ lock' = Freed(p)
  BY DEF Dropped
<1>2. Kept'
  <2> SUFFICES ASSUME spoilt' = "" PROVE Kept'
    BY DEF Kept
  <2>1. proc[p].refresh # server.refresh /\ spoilt = ""
    BY DEF Dropped
  <2>2. CASE Accepted(server.refresh, server.site)
    BY <1>1, <2>2 DEF Kept, Accepted
  <2>3. CASE \E q \in Processes : Fresh(proc[q]) /\ proc[q].refresh = server.refresh
    <3>1. PICK q \in Processes : Fresh(proc[q]) /\ proc[q].refresh = server.refresh
      BY <2>3
    <3>2. proc'[q] = proc[q]
      BY <1>1, <2>1, <3>1, ProcOf DEF Others, TokenInv
    <3>3. Fresh(proc[q])' /\ proc'[q].refresh = server'.refresh
      BY <1>1, <3>1, <3>2 DEF Fresh
    <3> QED BY <3>3 DEF Kept
  <2> QED BY <2>1, <2>2, <2>3 DEF TokenInv, Kept
<1> QED BY <1>1, <1>2, DoneStep

LEMMA RevokeStep ==
  ASSUME TokenInv, TokenTypeOK', Revoke
  PROVE  TokenInv'
<1>1. /\ UNCHANGED <<server, lock, proc, home, last>> /\ spoilt' = "revoked"
      /\ live' = live \ {server.refresh}
  BY DEF Revoke
<1>2. Known' /\ Locked' /\ LoadersRead' /\ Private' /\ Kept'
  BY <1>1 DEF TokenInv, Known, Locked, WithRow, LoadersRead, Private, Kept, Own
<1>3. ASSUME NEW q \in Processes PROVE HeldGood(proc[q])'
  <2>1. \A t \in live : t \in Tokens
    <3>1. live \subseteq 0 .. last /\ last \in 0 .. MaxTokens
      BY DEF TokenInv, TokenTypeOK, Tokens
    <3> QED BY <3>1, Numbers DEF Tokens
  <2>2. \A t \in live : Holds(proc[q], t) => t \in live'
    BY <1>1, <2>1 DEF TokenInv, Private
  <2>3. HeldGood(proc[q]) /\ TokenTypeOK
    BY DEF TokenInv
  <2> QED BY <1>1, <2>2, <2>3, GoodStep
<1> QED BY <1>2, <1>3 DEF TokenInv

LEMMA TokenInvStep == TokenInv /\ [TokenNext]_tokenVars => TokenInv'
<1> SUFFICES ASSUME TokenInv, [TokenNext]_tokenVars PROVE TokenInv'
  OBVIOUS
<1>1. TokenTypeOK'
  BY TokenTypeStep DEF TokenInv
<1>2. ASSUME NEW p \in Processes, Unauthorized(p) PROVE TokenInv'
  BY <1>1, <1>2, UnauthorizedStep
<1>3. ASSUME NEW p \in Processes, LockRow(p) \/ Load(p) \/ Patch(p) \/ PatchTokens(p)
      PROVE  TokenInv'
  BY <1>1, <1>3, ReadStep
<1>4. ASSUME NEW p \in Processes, NEW s \in Sites, Discover(p, s) PROVE TokenInv'
  BY <1>1, <1>4, DiscoverStep
<1>5. ASSUME NEW p \in Processes, Reauthorize(p) PROVE TokenInv'
  BY <1>1, <1>5, ReauthorizeStep
<1>6. ASSUME NEW p \in Processes, Rotated(p) PROVE TokenInv'
  BY <1>1, <1>6, RotatedStep
<1>7. ASSUME NEW p \in Processes, Renewed(p) PROVE TokenInv'
  BY <1>1, <1>7, RenewedStep
<1>8. ASSUME NEW p \in Processes, Refused(p) PROVE TokenInv'
  BY <1>1, <1>8, RefusedStep
<1>9. ASSUME NEW p \in Processes, Save(p) PROVE TokenInv'
  BY <1>1, <1>9, SaveStep
<1>10. ASSUME NEW p \in Processes, Invalid(p) \/ Lose(p) PROVE TokenInv'
  BY <1>1, <1>10, DroppedStep DEF Invalid, Lose
<1>11. CASE Revoke
  BY <1>1, <1>11, RevokeStep
<1>12. CASE UNCHANGED tokenVars
  BY <1>1, <1>12 DEF tokenVars, TokenInv, Known, Locked, WithRow, LoadersRead, Private, Kept,
                     HeldGood, Accepted, Own
<1> QED BY <1>2, <1>3, <1>4, <1>5, <1>6, <1>7, <1>8, <1>9, <1>10, <1>11, <1>12 DEF TokenNext

THEOREM TokenInvariant == TokenSpec => []TokenInv
BY TokenInvInit, TokenInvStep, PTL DEF TokenSpec

(***************************************************************************)
(* Unless a refresh token was revoked, or its successor lost, dropped or     *)
(* overwritten by an exchange without the lock, the row of the MCP server     *)
(* (base_auth.py, mcp_servers.py) has one that its provider accepts, or a     *)
(* process is about to save its successor.                                  *)
(***************************************************************************)
THEOREM RefreshTokens == TokenSpec => []RefreshTokenKept
<1>1. TokenInv => RefreshTokenKept
  BY DEF TokenInv, Kept, RefreshTokenKept, Replacing, Fresh
<1> QED BY <1>1, TokenInvariant, PTL

(***************************************************************************)
(* A request that has got the row's lock has a refresh token that its         *)
(* provider accepts, however many requests were before it; the only other way  *)
(* is that a loader or an update, which do not lock, is exchanging it.        *)
(***************************************************************************)
THEOREM RequestsServed == TokenSpec => []QueuedRequestsServed
<1>1. ASSUME TokenInv, NEW p \in Requests, proc[p].pc = "exchange", spoilt = ""
      PROVE  \/ Accepted(proc[p].refresh, proc[p].site)
             \/ \E q \in Loaders \cup Updates : Replacing(q, proc[p].refresh)
  <2>1. /\ lock = p /\ proc[p].refresh = server.refresh /\ proc[p].site = server.site
    BY <1>1 DEF TokenInv, Locked, WithRow
  <2>2. ASSUME NEW q \in Processes, Fresh(proc[q]), proc[q].refresh = server.refresh
        PROVE  q \in Loaders \cup Updates
    <3>1. ASSUME q \in Requests PROVE FALSE
      <4>1. lock = q
        BY <1>1, <2>2, <3>1 DEF TokenInv, Locked, WithRow, Fresh
      <4> QED BY <1>1, <2>1, <2>2, <4>1 DEF Fresh
    <3> QED BY <3>1 DEF Processes
  <2> QED BY <1>1, <2>1, <2>2 DEF TokenInv, Kept, Replacing, Fresh
<1>2. TokenInv => QueuedRequestsServed
  BY <1>1 DEF QueuedRequestsServed
<1> QED BY <1>2, TokenInvariant, PTL
=============================================================================
