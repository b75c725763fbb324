--------------------------- MODULE UserRowsProofs ----------------------------
(***************************************************************************)
(* What is known of a user, and her account: the background in her row is    *)
(* current, her memories are what was stored, and her account is as it was    *)
(* set, for every number of requests and every set of facts, profiles and     *)
(* passwords.  At the end the types of all her rows together.               *)
(***************************************************************************)
EXTENDS MCUserRows, OAuthTokensProofs, FiniteSetTheorems

(***************************************************************************)
(* UserContext: the inductive invariant.  c and m are the profile and the     *)
(* memories that are now in the database.                                   *)
(***************************************************************************)
Current(b, c, m) == b.late \/ (b.profile = c /\ b.facts = m)

\* What a thread has read is still so, or it is behind.
UpToDate(k, c, m) ==
  /\ k.pc = "loaded" => k.late \/ k.profile = c
  /\ k.pc = "gathered" => Current(k.background, c, m)
  /\ k.pc = "patch" => k.row.background = None \/ Current(k.row.background, c, m)
  /\ k.pc \in {"compress", "import"} => (k.seen \ m) \cup (m \ k.seen) \subseteq k.missed

UserInv ==
  /\ UserTypeOK
  /\ BackgroundCurrent
  /\ MemoriesKept
  /\ \A t \in Threads : UpToDate(threads[t], user.profile, memories)

(***************************************************************************)
(* The states of a thread.                                                 *)
(***************************************************************************)
LEMMA RestingParts ==
  /\ Resting \in ThreadStates /\ Resting.pc = "idle"
  /\ \A c, m : UpToDate(Resting, c, m)
BY DEF Resting, ThreadStates, UpToDate

LEMMA LoadedParts ==
  ASSUME NEW c \in Profiles
  PROVE  LET k == [pc |-> "loaded", profile |-> c, late |-> FALSE]
         IN  k \in ThreadStates /\ k.pc = "loaded" /\ \A m : UpToDate(k, c, m)
BY DEF ThreadStates, UpToDate

LEMMA GatheredParts ==
  ASSUME NEW b \in Backgrounds
  PROVE  LET k == [pc |-> "gathered", background |-> b]
         IN  /\ k \in ThreadStates /\ k.pc = "gathered"
             /\ \A c, m : Current(b, c, m) => UpToDate(k, c, m)
BY DEF ThreadStates, UpToDate

LEMMA KeeperParts ==
  ASSUME NEW S \in SUBSET Facts, NEW pc \in {"compress", "import"}
  PROVE  LET k == [pc |-> pc, seen |-> S, missed |-> {}]
         IN  k \in ThreadStates /\ k.pc = pc /\ \A c : UpToDate(k, c, S)
BY DEF ThreadStates, UpToDate

LEMMA PatchParts ==
  ASSUME NEW row \in UserRows
  PROVE  LET k == [pc |-> "patch", row |-> row]
         IN  /\ k \in ThreadStates /\ k.pc = "patch"
             /\ \A c, m : row.background = None \/ Current(row.background, c, m) =>
                            UpToDate(k, c, m)
BY DEF ThreadStates, UpToDate

\* Where a thread is tells what it has read.
LEMMA ThreadFields ==
  ASSUME NEW k \in ThreadStates
  PROVE  /\ k.pc \in {"idle", "loaded", "gathered", "compress", "import", "patch"}
         /\ k.pc = "loaded" => /\ k \in [pc : {"loaded"}, profile : Profiles, late : BOOLEAN]
                               /\ k.profile \in Profiles /\ k.late \in BOOLEAN
         /\ k.pc = "gathered" => /\ k \in [pc : {"gathered"}, background : Backgrounds]
                                 /\ k.background \in Backgrounds
         /\ k.pc \in {"compress", "import"} =>
              /\ k \in [pc : {"compress", "import"}, seen : SUBSET Facts, missed : SUBSET Facts]
              /\ k.seen \subseteq Facts /\ k.missed \subseteq Facts
         /\ k.pc = "patch" => /\ k \in [pc : {"patch"}, row : UserRows]
                              /\ k.row \in UserRows
BY DEF ThreadStates, Resting

LEMMA LateParts ==
  ASSUME NEW b \in Backgrounds \cup {None}
  PROVE  /\ Late(b) \in Backgrounds \cup {None}
         /\ b = None <=> Late(b) = None
         /\ b # None => Late(b).late /\ b \in Backgrounds /\ Late(b) \in Backgrounds
<1>1. ASSUME b \in Backgrounds
      PROVE  [b EXCEPT !.late = TRUE] \in Backgrounds /\ [b EXCEPT !.late = TRUE].late
  BY <1>1 DEF Backgrounds
<1>2. \A d \in Backgrounds : d # None
  BY UserConstants DEF UserConstants
<1> QED BY <1>1, <1>2 DEF Late

\* A thread that does nothing stays up to date, since it notes every change.
LEMMA BehindParts ==
  ASSUME NEW k \in ThreadStates, NEW change,
         NEW c, NEW d, NEW m, NEW n \in SUBSET Facts, UpToDate(k, c, m), m \subseteq Facts,
         c # d => "profile" \in change,
         (m \ n) \cup (n \ m) \subseteq change
  PROVE  /\ Behind(k, change) \in ThreadStates /\ Behind(k, change).pc = k.pc
         /\ UpToDate(Behind(k, change), d, n)
<1>0. change = {} => c = d /\ m = n
  OBVIOUS
<1>1. CASE k.pc = "idle"
  <2>1. Behind(k, change) = k
    BY <1>1 DEF Behind
  <2> QED BY <1>1, <2>1 DEF UpToDate
<1>2. CASE k.pc = "loaded"
  <2> DEFINE l == k.late \/ "profile" \in change
  <2>1. Behind(k, change) = [k EXCEPT !.late = l]
    BY <1>2 DEF Behind
  <2>2. k \in [pc : {"loaded"}, profile : Profiles, late : BOOLEAN] /\ l \in BOOLEAN
    BY <1>2, ThreadFields
  <2> HIDE DEF l
  <2>3. /\ [k EXCEPT !.late = l] \in [pc : {"loaded"}, profile : Profiles, late : BOOLEAN]
        /\ [k EXCEPT !.late = l].late = l /\ [k EXCEPT !.late = l].profile = k.profile
        /\ [k EXCEPT !.late = l].pc = "loaded"
    BY <2>2
  <2>4. l \/ k.profile = d
    BY <1>2 DEF l, UpToDate
  <2> QED BY <1>2, <2>1, <2>3, <2>4 DEF ThreadStates, UpToDate
<1>3. CASE k.pc = "gathered"
  <2>1. k \in [pc : {"gathered"}, background : Backgrounds] /\ k.background \in Backgrounds
    BY <1>3, ThreadFields
  <2>2. CASE change = {}
    <3>1. Behind(k, change) = k
      BY <1>3, <2>2 DEF Behind
    <3> QED BY <1>0, <2>2, <3>1
  <2>3. CASE change # {}
    <3> DEFINE b == Late(k.background)
    <3>1. Behind(k, change) = [k EXCEPT !.background = b]
      BY <1>3, <2>3 DEF Behind
    <3>2. b \in Backgrounds /\ b.late
      <4>1. k.background # None
        BY <2>1, UserConstants DEF UserConstants
      <4> QED BY <2>1, <4>1, LateParts
    <3> HIDE DEF b
    <3>3. /\ [k EXCEPT !.background = b] \in [pc : {"gathered"}, background : Backgrounds]
          /\ [k EXCEPT !.background = b].background = b
          /\ [k EXCEPT !.background = b].pc = "gathered"
      BY <2>1, <3>2
    <3> QED BY <1>3, <3>1, <3>2, <3>3 DEF ThreadStates, UpToDate, Current
  <2> QED BY <2>2, <2>3
<1>4. CASE k.pc = "patch"
  <2>1. k \in [pc : {"patch"}, row : UserRows] /\ k.row \in UserRows
    BY <1>4, ThreadFields
  <2>2. CASE change = {}
    <3>1. Behind(k, change) = k
      BY <1>4, <2>2 DEF Behind
    <3> QED BY <1>0, <2>2, <3>1
  <2>3. CASE change # {}
    <3> DEFINE b == Late(k.row.background)
    <3>1. Behind(k, change) = [k EXCEPT !.row.background = b]
      BY <1>4, <2>3 DEF Behind
    <3>2. b \in Backgrounds \cup {None} /\ (b # None => b.late)
      <4>1. k.row.background \in Backgrounds \cup {None}
        BY <2>1 DEF UserRows
      <4> QED BY <4>1, LateParts
    <3> HIDE DEF b
    <3> DEFINE r == [k.row EXCEPT !.background = b]
    <3>3. r \in UserRows /\ r.background = b
      BY <2>1, <3>2 DEF UserRows
    <3>4. [k EXCEPT !.row.background = b] = [k EXCEPT !.row = r]
      BY <2>1
    <3> HIDE DEF r
    <3>5. /\ [k EXCEPT !.row = r] \in [pc : {"patch"}, row : UserRows]
          /\ [k EXCEPT !.row = r].row = r
          /\ [k EXCEPT !.row = r].pc = "patch"
      BY <2>1, <3>3
    <3> QED BY <1>4, <3>1, <3>2, <3>3, <3>4, <3>5 DEF ThreadStates, UpToDate, Current
  <2> QED BY <2>2, <2>3
<1>5. CASE k.pc \in {"compress", "import"}
  <2> DEFINE x == k.missed \cup (change \cap Facts)
             K == [pc : {"compress", "import"}, seen : SUBSET Facts, missed : SUBSET Facts]
  <2>1. Behind(k, change) = [k EXCEPT !.missed = x]
    BY <1>5 DEF Behind
  <2>2. k \in K /\ x \in SUBSET Facts /\ k.seen \subseteq Facts
    BY <1>5, ThreadFields
  <2>3. (k.seen \ n) \cup (n \ k.seen) \subseteq x
    BY <1>5, <2>2 DEF UpToDate
  <2> HIDE DEF x
  <2>4. /\ [k EXCEPT !.missed = x] \in K /\ [k EXCEPT !.missed = x].missed = x
        /\ [k EXCEPT !.missed = x].seen = k.seen /\ [k EXCEPT !.missed = x].pc = k.pc
    BY <2>2
  <2> QED BY <1>5, <2>1, <2>3, <2>4 DEF ThreadStates, UpToDate
<1> QED BY <1>1, <1>2, <1>3, <1>4, <1>5, ThreadFields

\* Threads are where they can be, and up to date.
Fits(t, k) ==
  /\ k \in ThreadStates
  /\ t \in Generators => k.pc \in {"idle", "loaded", "gathered"}
  /\ t \in Keepers => k.pc \in {"idle", "compress", "import"}
  /\ t \in Patches => k.pc \in {"idle", "patch"}

ThreadsFit ==
  /\ threads \in [Threads -> ThreadStates]
  /\ \A t \in Threads : Fits(t, threads[t]) /\ UpToDate(threads[t], user.profile, memories)

LEMMA UserInvParts ==
  UserInv <=> /\ user \in UserRows /\ memories \subseteq Facts /\ stored \subseteq Facts
              /\ ThreadsFit /\ BackgroundCurrent /\ MemoriesKept
BY DEF UserInv, UserTypeOK, ThreadsFit, Fits, Threads

LEMMA RestingFits == \A t : Fits(t, Resting)
BY RestingParts DEF Fits

LEMMA ActStep ==
  ASSUME ThreadsFit, NEW t \in Threads, NEW k, Fits(t, k), UpToDate(k, user.profile, memories),
         threads' = [threads EXCEPT ![t] = k],
         user'.profile = user.profile, memories' = memories
  PROVE  ThreadsFit'
<1>1. threads' \in [Threads -> ThreadStates]
  BY DEF ThreadsFit, Fits
<1>2. ASSUME NEW s \in Threads
      PROVE  Fits(s, threads'[s]) /\ UpToDate(threads'[s], user'.profile, memories')
  <2>1. CASE s = t
    BY <2>1 DEF ThreadsFit
  <2>2. CASE s # t
    BY <2>2 DEF ThreadsFit
  <2> QED BY <2>1, <2>2
<1> QED BY <1>1, <1>2 DEF ThreadsFit, Fits

\* The others note what has changed.
LEMMA MissingFits ==
  ASSUME ThreadsFit, NEW change, NEW d, NEW n \in SUBSET Facts, memories \subseteq Facts,
         user.profile # d => "profile" \in change,
         (memories \ n) \cup (n \ memories) \subseteq change
  PROVE  /\ Missing(change) \in [Threads -> ThreadStates]
         /\ \A s \in Threads : /\ Fits(s, Missing(change)[s])
                               /\ UpToDate(Missing(change)[s], d, n)
<1>1. ASSUME NEW s \in Threads
      PROVE  Fits(s, Behind(threads[s], change)) /\ UpToDate(Behind(threads[s], change), d, n)
  <2>1. Fits(s, threads[s]) /\ UpToDate(threads[s], user.profile, memories)
    BY DEF ThreadsFit
  <2>2. threads[s] \in ThreadStates
    BY <2>1 DEF Fits
  <2>3. /\ Behind(threads[s], change) \in ThreadStates
        /\ Behind(threads[s], change).pc = threads[s].pc
        /\ UpToDate(Behind(threads[s], change), d, n)
    BY <2>1, <2>2, BehindParts
  <2> QED BY <2>1, <2>3 DEF Fits
<1> QED BY <1>1 DEF Missing, Fits

LEMMA MissStep ==
  ASSUME ThreadsFit, NEW change, memories \subseteq Facts, memories' \subseteq Facts,
         user.profile # user'.profile => "profile" \in change,
         (memories \ memories') \cup (memories' \ memories) \subseteq change,
         \/ threads' = Missing(change)
         \/ \E t \in Threads, k \in ThreadStates :
              /\ threads' = [Missing(change) EXCEPT ![t] = k]
              /\ Fits(t, k) /\ UpToDate(k, user'.profile, memories')
  PROVE  ThreadsFit'
<1> DEFINE M == Missing(change)
<1>1. /\ M \in [Threads -> ThreadStates]
      /\ \A s \in Threads : Fits(s, M[s]) /\ UpToDate(M[s], user'.profile, memories')
  <2> DEFINE d == user'.profile
             n == memories'
  <2>1. n \in SUBSET Facts /\ (user.profile # d => "profile" \in change)
        /\ (memories \ n) \cup (n \ memories) \subseteq change
    OBVIOUS
  <2> HIDE DEF d, n
  <2>2. /\ M \in [Threads -> ThreadStates]
        /\ \A s \in Threads : Fits(s, M[s]) /\ UpToDate(M[s], d, n)
    BY <2>1, MissingFits
  <2> QED BY <2>2 DEF d, n
<1> HIDE DEF M
<1>2. CASE threads' = M
  BY <1>1, <1>2 DEF ThreadsFit, Fits
<1>3. CASE \E t \in Threads, k \in ThreadStates :
             /\ threads' = [M EXCEPT ![t] = k]
             /\ Fits(t, k) /\ UpToDate(k, user'.profile, memories')
  <2>1. PICK t \in Threads, k \in ThreadStates :
             /\ threads' = [M EXCEPT ![t] = k]
             /\ Fits(t, k) /\ UpToDate(k, user'.profile, memories')
    BY <1>3
  <2>2. threads' \in [Threads -> ThreadStates]
    BY <1>1, <2>1
  <2>3. \A s \in Threads : threads'[s] = IF s = t THEN k ELSE M[s]
    BY <1>1, <2>1
  <2>4. \A s \in Threads : /\ Fits(s, threads'[s])
                           /\ UpToDate(threads'[s], user'.profile, memories')
    BY <1>1, <2>1, <2>3
  <2> QED BY <2>2, <2>4 DEF ThreadsFit, Fits
<1> QED BY <1>2, <1>3 DEF M

(***************************************************************************)
(* The steps of generators.                                                *)
(***************************************************************************)
LEMMA UserInvInit == UserInit => UserInv
<1> SUFFICES ASSUME UserInit PROVE UserInv
  OBVIOUS
<1>1. PICK c \in Profiles : user = [profile |-> c, background |-> None]
  BY DEF UserInit
<1>2. user \in UserRows /\ user.background = None
  BY <1>1 DEF UserRows
<1>3. ThreadsFit
  BY RestingParts, RestingFits DEF UserInit, ThreadsFit
<1> QED BY <1>2, <1>3, UserInvParts DEF UserInit, BackgroundCurrent, MemoriesKept

LEMMA LoadUserStep ==
  ASSUME UserInv, NEW g \in Generators, LoadUser(g)
  PROVE  UserInv'
<1> DEFINE k == [pc |-> "loaded", profile |-> user.profile, late |-> FALSE]
<1>0. user \in UserRows /\ user.profile \in Profiles /\ ThreadsFit
  BY UserInvParts DEF UserRows
<1>1. threads' = [threads EXCEPT ![g] = k] /\ UNCHANGED <<user, memories, stored>>
  BY DEF LoadUser
<1>2. k \in ThreadStates /\ k.pc = "loaded" /\ UpToDate(k, user.profile, memories)
  BY <1>0, LoadedParts
<1> HIDE DEF k
<1>3. g \in Threads /\ Fits(g, k)
  BY <1>2, UserConstants DEF Fits, Threads, UserConstants
<1>4. ThreadsFit'
  BY <1>0, <1>1, <1>2, <1>3, ActStep
<1> QED BY <1>1, <1>4 DEF UserInv, UserTypeOK, ThreadsFit, Fits, BackgroundCurrent, MemoriesKept,
                          Threads

LEMMA GatherStep ==
  ASSUME UserInv, NEW g \in Generators, Gather(g)
  PROVE  UserInv'
<1> DEFINE b == [profile |-> threads[g].profile, facts |-> memories, late |-> threads[g].late]
           k == [pc |-> "gathered", background |-> b]
<1>0. /\ user \in UserRows /\ memories \subseteq Facts /\ stored \subseteq Facts
      /\ ThreadsFit /\ BackgroundCurrent /\ MemoriesKept /\ g \in Threads
  BY UserInvParts DEF Threads
<1>1. /\ threads' = [threads EXCEPT ![g] = k] \/ threads' = [threads EXCEPT ![g] = Resting]
      /\ UNCHANGED <<user, memories, stored>> /\ threads[g].pc = "loaded"
  BY DEF Gather
<1>2. /\ threads[g] \in ThreadStates
      /\ threads[g].late \/ threads[g].profile = user.profile
  BY <1>0, <1>1 DEF ThreadsFit, UpToDate
<1>3. threads[g].profile \in Profiles /\ threads[g].late \in BOOLEAN
  BY <1>1, <1>2, ThreadFields
<1>4. b \in Backgrounds /\ Current(b, user.profile, memories)
  BY <1>0, <1>2, <1>3 DEF Backgrounds, Current
<1> HIDE DEF b
<1>5. k \in ThreadStates /\ k.pc = "gathered" /\ UpToDate(k, user.profile, memories)
  BY <1>4, GatheredParts
<1> HIDE DEF k
<1>6. Fits(g, k)
  BY <1>5, UserConstants DEF Fits, UserConstants
<1>7. ThreadsFit'
  <2>1. CASE threads' = [threads EXCEPT ![g] = k]
    BY <1>0, <1>1, <1>5, <1>6, <2>1, ActStep
  <2>2. CASE threads' = [threads EXCEPT ![g] = Resting]
    BY <1>0, <1>1, <2>2, RestingParts, RestingFits, ActStep
  <2> QED BY <1>1, <2>1, <2>2
<1> QED BY <1>0, <1>1, <1>7 DEF UserInv, UserTypeOK, ThreadsFit, Fits, BackgroundCurrent,
                                MemoriesKept, Threads

LEMMA GeneratedStep ==
  ASSUME UserInv, NEW g \in Generators, Generated(g) \/ Failed(g)
  PROVE  UserInv'
<1>0. /\ user \in UserRows /\ memories \subseteq Facts /\ stored \subseteq Facts
      /\ ThreadsFit /\ BackgroundCurrent /\ MemoriesKept /\ g \in Threads
  BY UserInvParts DEF Threads
<1>1. /\ threads[g].pc = "gathered" /\ UNCHANGED <<memories, stored>>
      /\ threads' = [threads EXCEPT ![g] = Resting]
      /\ user' = user \/ user' = [user EXCEPT !.background = threads[g].background]
  BY DEF Generated, Failed
<1>2. threads[g] \in ThreadStates /\ Current(threads[g].background, user.profile, memories)
  BY <1>0, <1>1 DEF ThreadsFit, UpToDate
<1>3. threads[g].background \in Backgrounds
  BY <1>1, <1>2, ThreadFields
<1>4. user' \in UserRows /\ user'.profile = user.profile
      /\ (user'.background = user.background \/ user'.background = threads[g].background)
  BY <1>0, <1>1, <1>3 DEF UserRows
<1>5. ThreadsFit'
  BY <1>0, <1>1, <1>4, RestingParts, RestingFits, ActStep
<1>6. BackgroundCurrent'
  BY <1>0, <1>1, <1>2, <1>4 DEF BackgroundCurrent, Current
<1> QED BY <1>0, <1>1, <1>4, <1>5, <1>6 DEF UserInv, UserTypeOK, ThreadsFit, Fits,
                                            MemoriesKept, Threads

(***************************************************************************)
(* The steps of keepers.                                                   *)
(***************************************************************************)
LEMMA UnsignalledParts ==
  ASSUME user \in UserRows
  PROVE  /\ Unsignalled \in UserRows /\ Unsignalled.profile = user.profile
         /\ Unsignalled.background = None \/ Unsignalled.background.late
         /\ Cleared \in UserRows /\ Cleared.profile = user.profile /\ Cleared.background = None
<1>1. user.background \in Backgrounds \cup {None}
  BY DEF UserRows
<1> DEFINE b == Late(user.background)
<1>2. b \in Backgrounds \cup {None} /\ (b = None \/ b.late)
  BY <1>1, LateParts
<1> HIDE DEF b
<1>3. LET u == [user EXCEPT !.background = b]
      IN  u \in UserRows /\ u.profile = user.profile /\ u.background = b
  BY <1>2 DEF UserRows
<1>4. Unsignalled = [user EXCEPT !.background = b]
  BY DEF Unsignalled, b
<1>5. Unsignalled \in UserRows /\ Unsignalled.profile = user.profile /\ Unsignalled.background = b
  BY <1>3, <1>4
<1>6. LET u == [user EXCEPT !.background = None]
      IN  u \in UserRows /\ u.profile = user.profile /\ u.background = None
  BY DEF UserRows
<1> QED BY <1>2, <1>5, <1>6 DEF Cleared

LEMMA ExtractStep ==
  ASSUME UserInv, NEW k \in Keepers, NEW f \in Facts, Extract(k, f)
  PROVE  UserInv'
<1>0. /\ user \in UserRows /\ memories \subseteq Facts /\ stored \subseteq Facts
      /\ ThreadsFit /\ MemoriesKept /\ k \in Threads
  BY UserInvParts DEF Threads
<1>1. /\ memories' = memories \cup {f} /\ stored' = stored \cup {f} /\ user' = Unsignalled
      /\ memories' \subseteq Facts
  BY <1>0 DEF Extract
<1>2. /\ user' \in UserRows /\ user'.profile = user.profile
      /\ user'.background = None \/ user'.background.late
  BY <1>0, <1>1, UnsignalledParts
<1> DEFINE m == memories'
           t == [pc |-> "compress", seen |-> m, missed |-> {}]
<1>3. threads' = Missing({f}) \/ threads' = [Missing({f}) EXCEPT ![k] = t]
  BY DEF Extract
<1>4. t \in ThreadStates /\ Fits(k, t) /\ UpToDate(t, user'.profile, m)
  <2>1. m \in SUBSET Facts
    BY <1>1
  <2> HIDE DEF m
  <2>2. t \in ThreadStates /\ t.pc = "compress" /\ \A c : UpToDate(t, c, m)
    BY <2>1, KeeperParts
  <2> HIDE DEF t
  <2> QED BY <2>2, UserConstants DEF Fits, UserConstants
<1> HIDE DEF t
<1>5. ThreadsFit'
  <2> DEFINE change == {f}
  <2>1. (memories \ memories') \cup (memories' \ memories) \subseteq change
    BY <1>1
  <2>2. \/ threads' = Missing(change)
        \/ \E s \in Threads, u \in ThreadStates :
             /\ threads' = [Missing(change) EXCEPT ![s] = u]
             /\ Fits(s, u) /\ UpToDate(u, user'.profile, memories')
    BY <1>0, <1>3, <1>4
  <2> HIDE DEF change
  <2> QED BY <1>0, <1>1, <1>2, <2>1, <2>2, MissStep
<1>6. BackgroundCurrent'
  BY <1>2 DEF BackgroundCurrent
<1>7. MemoriesKept' /\ stored' \subseteq Facts
  BY <1>0, <1>1 DEF MemoriesKept
<1> QED BY <1>1, <1>2, <1>5, <1>6, <1>7 DEF UserInv, UserTypeOK, ThreadsFit, Fits, Threads

LEMMA ImportStep ==
  ASSUME UserInv, NEW k \in Keepers, Import(k)
  PROVE  UserInv'
<1> DEFINE t == [pc |-> "import", seen |-> memories, missed |-> {}]
<1>0. ThreadsFit /\ k \in Threads /\ memories \in SUBSET Facts
  BY UserInvParts DEF Threads
<1>1. threads' = [threads EXCEPT ![k] = t] /\ UNCHANGED <<user, memories, stored>>
  BY DEF Import
<1>2. t \in ThreadStates /\ t.pc = "import" /\ UpToDate(t, user.profile, memories)
  BY <1>0, KeeperParts
<1> HIDE DEF t
<1>3. Fits(k, t)
  BY <1>2, UserConstants DEF Fits, UserConstants
<1>4. ThreadsFit'
  BY <1>0, <1>1, <1>2, <1>3, ActStep
<1> QED BY <1>1, <1>4 DEF UserInv, UserTypeOK, ThreadsFit, Fits, BackgroundCurrent, MemoriesKept,
                          Threads

\* An answer replaces what it was made of, whatever was stored meanwhile.
LEMMA ReplaceStep ==
  ASSUME UserInv, NEW k \in Keepers, NEW answer \in SUBSET Facts, NEW missed \in SUBSET Facts,
         Replace(answer),
         stored' = SetBack(missed, answer),
         answer # {} => (answer \ memories) \cup (memories \ answer) \subseteq missed,
         threads' = [Missing(Altered) EXCEPT ![k] = Resting]
  PROVE  UserInv'
<1>0. /\ user \in UserRows /\ memories \subseteq Facts /\ stored \subseteq Facts
      /\ ThreadsFit /\ BackgroundCurrent /\ memories = stored /\ k \in Threads
  BY UserInvParts DEF Threads, MemoriesKept
<1>1. memories' \subseteq Facts /\ stored' \subseteq Facts /\ memories' = stored'
  <2>1. CASE answer = {}
    BY <1>0, <2>1 DEF Replace, Usable, SetBack
  <2>2. CASE answer # {}
    <3>1. memories' = answer /\ stored' = (stored \ missed) \cup (missed \cap answer)
      BY <2>2 DEF Replace, Usable, SetBack
    <3> QED BY <1>0, <2>2, <3>1
  <2> QED BY <2>1, <2>2
<1>2. /\ user' \in UserRows /\ user'.profile = user.profile
      /\ BackgroundCurrent'
  <2>1. CASE UNCHANGED <<memories, user>>
    BY <1>0, <2>1 DEF BackgroundCurrent
  <2>2. CASE user' \in {Unsignalled, Cleared}
    <3>1. /\ user' \in UserRows /\ user'.profile = user.profile
          /\ user'.background = None \/ user'.background.late
      BY <1>0, <2>2, UnsignalledParts
    <3> QED BY <3>1 DEF BackgroundCurrent
  <2> QED BY <2>1, <2>2 DEF Replace
<1>3. ThreadsFit'
  <2> DEFINE change == Altered
  <2>1. (memories \ memories') \cup (memories' \ memories) \subseteq change
    BY DEF Altered
  <2>2. \E s \in Threads, u \in ThreadStates :
          /\ threads' = [Missing(change) EXCEPT ![s] = u]
          /\ Fits(s, u) /\ UpToDate(u, user'.profile, memories')
    BY <1>0, RestingParts, RestingFits
  <2> HIDE DEF change
  <2> QED BY <1>0, <1>1, <1>2, <2>1, <2>2, MissStep
<1> QED BY <1>1, <1>2, <1>3 DEF UserInv, UserTypeOK, ThreadsFit, Fits, Threads, MemoriesKept

LEMMA KeeperRead ==
  ASSUME UserInv, NEW k \in Keepers, threads[k].pc \in {"compress", "import"}
  PROVE  /\ threads[k].seen \subseteq Facts /\ threads[k].missed \subseteq Facts
         /\ (threads[k].seen \ memories) \cup (memories \ threads[k].seen)
              \subseteq threads[k].missed
<1>1. threads[k] \in ThreadStates /\ UpToDate(threads[k], user.profile, memories)
  BY DEF UserInv, UserTypeOK, Threads
<1> QED BY <1>1, ThreadFields DEF UpToDate

LEMMA CompressedStep ==
  ASSUME UserInv, NEW k \in Keepers, NEW answer \in SUBSET Facts, Compressed(k, answer)
  PROVE  UserInv'
<1> DEFINE missed == threads[k].missed
<1>1. /\ threads[k].pc = "compress" /\ answer \in {{}, threads[k].seen}
      /\ Replace(answer) /\ stored' = SetBack(missed, answer)
      /\ threads' = [Missing(Altered) EXCEPT ![k] = Resting]
  BY DEF Compressed
<1>2. /\ missed \in SUBSET Facts
      /\ answer # {} => (answer \ memories) \cup (memories \ answer) \subseteq missed
  BY <1>1, KeeperRead
<1> HIDE DEF missed
<1> QED BY <1>1, <1>2, ReplaceStep

LEMMA ImportedStep ==
  ASSUME UserInv, NEW k \in Keepers, NEW f \in Facts, NEW answer \in SUBSET Facts,
         Imported(k, f, answer)
  PROVE  UserInv'
<1> DEFINE missed == threads[k].missed \cup {f}
<1>1. /\ threads[k].pc = "import" /\ answer \in {{}, threads[k].seen \cup {f}}
      /\ Replace(answer) /\ stored' = SetBack(missed, answer)
      /\ threads' = [Missing(Altered) EXCEPT ![k] = Resting]
  BY DEF Imported
<1>2. /\ missed \in SUBSET Facts
      /\ answer # {} => (answer \ memories) \cup (memories \ answer) \subseteq missed
  BY <1>1, KeeperRead
<1> HIDE DEF missed
<1> QED BY <1>1, <1>2, ReplaceStep

LEMMA ForgetStep ==
  ASSUME UserInv, NEW f \in Facts, Forget(f)
  PROVE  UserInv'
<1>0. /\ user \in UserRows /\ memories \subseteq Facts /\ stored \subseteq Facts
      /\ ThreadsFit /\ MemoriesKept
  BY UserInvParts
<1>1. /\ memories' = memories \ {f} /\ stored' = stored \ {f} /\ user' = Cleared
      /\ threads' = Missing({f})
  BY DEF Forget
<1>2. user' \in UserRows /\ user'.profile = user.profile /\ user'.background = None
  BY <1>0, <1>1, UnsignalledParts
<1>3. ThreadsFit'
  <2> DEFINE change == {f}
  <2>1. (memories \ memories') \cup (memories' \ memories) \subseteq change
    BY <1>1
  <2>2. threads' = Missing(change)
    BY <1>1
  <2> HIDE DEF change
  <2> QED BY <1>0, <1>1, <1>2, <2>1, <2>2, MissStep
<1>4. MemoriesKept'
  BY <1>0, <1>1 DEF MemoriesKept
<1> QED BY <1>0, <1>1, <1>2, <1>3, <1>4 DEF UserInv, UserTypeOK, ThreadsFit, Fits, Threads,
                                            BackgroundCurrent

(***************************************************************************)
(* The steps of patches.                                                   *)
(***************************************************************************)
LEMMA AuthenticateStep ==
  ASSUME UserInv, NEW p \in Patches, Authenticate(p)
  PROVE  UserInv'
<1> DEFINE k == [pc |-> "patch", row |-> user]
<1>0. user \in UserRows /\ ThreadsFit /\ BackgroundCurrent /\ p \in Threads
  BY UserInvParts DEF Threads
<1>1. threads' = [threads EXCEPT ![p] = k] /\ UNCHANGED <<user, memories, stored>>
  BY DEF Authenticate
<1>2. user.background = None \/ Current(user.background, user.profile, memories)
  BY <1>0 DEF BackgroundCurrent, Current
<1>3. k \in ThreadStates /\ k.pc = "patch" /\ UpToDate(k, user.profile, memories)
  BY <1>0, <1>2, PatchParts
<1> HIDE DEF k
<1>4. Fits(p, k)
  BY <1>3, UserConstants DEF Fits, UserConstants
<1>5. ThreadsFit'
  BY <1>0, <1>1, <1>3, <1>4, ActStep
<1> QED BY <1>1, <1>5 DEF UserInv, UserTypeOK, ThreadsFit, Fits, BackgroundCurrent, MemoriesKept,
                          Threads

LEMMA PatchUserStep ==
  ASSUME UserInv, NEW p \in Patches, NEW c \in Profiles, PatchUser(p, c)
  PROVE  UserInv'
<1>0. /\ user \in UserRows /\ memories \subseteq Facts /\ stored \subseteq Facts
      /\ ThreadsFit /\ MemoriesKept /\ p \in Threads
  BY UserInvParts DEF Threads
<1> DEFINE k == threads[p]
           r == [k.row EXCEPT !.profile = c]
           change == {d \in {"profile"} : user'[d] # user[d]}
<1>1. /\ k.pc = "patch" /\ UNCHANGED <<memories, stored>>
      /\ user' = PreSave(r)
      /\ threads' = [Missing(change) EXCEPT ![p] = Resting]
  BY DEF PatchUser
<1>2. k \in ThreadStates /\ UpToDate(k, user.profile, memories)
  BY <1>0 DEF ThreadsFit
<1>3. k.row \in UserRows
  BY <1>1, <1>2, ThreadFields
<1>4. k.row.background = None \/ Current(k.row.background, user.profile, memories)
  BY <1>1, <1>2 DEF UpToDate
<1>5. r \in UserRows /\ r.profile = c /\ r.background = k.row.background
  BY <1>3 DEF UserRows
<1> HIDE DEF r
<1>7. user' \in UserRows /\ BackgroundCurrent'
  <2>1. CASE c # user.profile
    <3>1. user' = [r EXCEPT !.background = None]
      BY <1>1, <1>5, <2>1 DEF PreSave
    <3>2. user' \in UserRows /\ user'.background = None
      BY <1>5, <3>1 DEF UserRows
    <3> QED BY <3>2 DEF BackgroundCurrent
  <2>2. CASE c = user.profile
    <3>1. user' = r
      BY <1>1, <1>5, <2>2 DEF PreSave
    <3> QED BY <1>1, <1>4, <1>5, <2>2, <3>1 DEF BackgroundCurrent, Current
  <2> QED BY <2>1, <2>2
<1>8. ThreadsFit'
  <2>1. user.profile # user'.profile => "profile" \in change
    BY <1>0, <1>7 DEF UserRows
  <2> HIDE DEF change
  <2>2. \E s \in Threads, u \in ThreadStates :
          /\ threads' = [Missing(change) EXCEPT ![s] = u]
          /\ Fits(s, u) /\ UpToDate(u, user'.profile, memories')
    BY <1>0, <1>1, RestingParts, RestingFits
  <2> QED BY <1>0, <1>1, <2>1, <2>2, MissStep
<1> QED BY <1>0, <1>1, <1>7, <1>8 DEF UserInv, UserTypeOK, ThreadsFit, Fits, Threads,
                                      MemoriesKept

LEMMA UserInvStep == UserInv /\ [UserNext]_userVars => UserInv'
<1> SUFFICES ASSUME UserInv, [UserNext]_userVars PROVE UserInv'
  OBVIOUS
<1>1. CASE UNCHANGED userVars
  BY <1>1 DEF userVars, UserInv, UserTypeOK, BackgroundCurrent, MemoriesKept
<1> QED BY <1>1, LoadUserStep, GatherStep, GeneratedStep, ExtractStep, ImportStep,
           CompressedStep, ImportedStep, ForgetStep, AuthenticateStep, PatchUserStep
        DEF UserNext

THEOREM UserInvariant == UserSpec => []UserInv
BY UserInvInit, UserInvStep, PTL DEF UserSpec

(***************************************************************************)
(* A background that is not late says what the profile and the memories say:  *)
(* every change of them clears it, or is a change the code cannot see        *)
(* (user_background.py, serializers' whole-row saves, bulk_create).           *)
(***************************************************************************)
THEOREM BackgroundsCurrent == UserSpec => []BackgroundCurrent
<1>1. UserInv => BackgroundCurrent
  BY DEF UserInv
<1> QED BY <1>1, UserInvariant, PTL

(***************************************************************************)
(* No compression or import of memories loses or brings back another than     *)
(* those that were stored or deleted during its call of the LLM.             *)
(***************************************************************************)
THEOREM MemoriesAreKept == UserSpec => []MemoriesKept
<1>1. UserInv => MemoriesKept
  BY DEF UserInv
<1> QED BY <1>1, UserInvariant, PTL

(***************************************************************************)
(* Accounts: the inductive invariant.                                      *)
(***************************************************************************)
Verified(row) == row # Absent /\ row.verified

\* What a request has read when it was authenticated, or followed a link, or
\* found the row of a Google user, still says something of the row: it is not
\* deleted, its address stays verified, and mails are sent once.
StillSo(k, row, sent, in) ==
  /\ k.pc \in {"welcome", "remind", "follow", "delete"} => row # Absent
  /\ k.pc \in {"follow", "delete"} => sent[k.mail] # "unsent"
  /\ k.pc = "delete" /\ k.mail = Verification => Verified(row)
  /\ k.pc = "google" /\ k.row # Absent => row # Absent /\ (k.row.verified => Verified(row))
  /\ k.pc = "patch" => k.row # Absent /\ k.row.verified /\ in

\* The requests that have read a token, and those of them that have yet to
\* write the row.
Follows(k, m) == k.pc = "follow" /\ k.mail = m
Works(k, m)   == k.pc \in {"follow", "delete"} /\ k.mail = m

Following(m) == {h \in Handlers : Follows(handlers[h], m)}
Working(m)   == {h \in Handlers : Works(handlers[h], m)}

\* What has been done with a mail, and what is about to be done, is no more
\* than its requests and the deaths are, as long as its token can be read; and
\* never more than the handlers and the deaths.
MailsFit ==
  \A m \in Resets :
    /\ uses[m] + Cardinality(Following(m)) <= Cardinality(Handlers) + deaths
    /\ mail[m] \in Present \cup {"unsent"} =>
         uses[m] + Cardinality(Following(m)) <= Cardinality(Working(m)) + deaths

AccountInv ==
  /\ AccountTypeOK
  /\ SettingsKept
  /\ MailsFit
  /\ WayIn
  /\ access => Verified(account)
  /\ \A m \in Mails : mail[m] # "unsent" => account # Absent
  /\ \A h \in Handlers : StillSo(handlers[h], account, mail, access)

LEMMA MailFacts ==
  /\ Verification \in Mails /\ Resets \subseteq Mails /\ Verification \notin Resets
  /\ "unsent" \in MailPcs /\ "valid" \in MailPcs /\ "deleted" \in MailPcs /\ "purged" \in MailPcs
  /\ "expired" \in MailPcs /\ Present = {"valid", "expired"} /\ Present \subseteq MailPcs
  /\ \A n \in Present : n # "unsent"
BY DEF Verification, Mails, Resets, MailPcs, Present

\* The states of a handler.
LEMMA HandlerFields ==
  ASSUME NEW k \in HandlerStates
  PROVE  /\ k.pc \in {"free", "welcome", "remind", "follow", "delete", "google", "patch"}
         /\ k.pc \in {"follow", "delete"} =>
              k \in [pc : {"follow", "delete"}, mail : Mails] /\ k.mail \in Mails
         /\ k.pc \in {"google", "patch"} => k.row \in Rows \cup {Absent}
BY DEF HandlerStates

LEMMA PlainParts ==
  ASSUME NEW pc \in {"free", "welcome", "remind"}
  PROVE  LET k == [pc |-> pc]
         IN  k \in HandlerStates /\ k.pc = pc
BY DEF HandlerStates

LEMMA LinkParts ==
  ASSUME NEW m \in Mails
  PROVE  LET k == [pc |-> "follow", mail |-> m]
         IN  k \in HandlerStates /\ k.pc = "follow" /\ k.mail = m
BY DEF HandlerStates

LEMMA DeleteParts ==
  ASSUME NEW k \in HandlerStates, k.pc = "follow"
  PROVE  LET d == [k EXCEPT !.pc = "delete"]
         IN  d \in HandlerStates /\ d.pc = "delete" /\ d.mail = k.mail /\ d.mail \in Mails
<1>1. k \in [pc : {"follow", "delete"}, mail : Mails]
  BY HandlerFields
<1> QED BY <1>1 DEF HandlerStates

LEMMA RowParts ==
  ASSUME NEW row \in Rows \cup {Absent}, NEW pc \in {"google", "patch"}
  PROVE  LET k == [pc |-> pc, row |-> row]
         IN  k \in HandlerStates /\ k.pc = pc /\ k.row = row
BY DEF HandlerStates

\* Every row is one; Absent is none.
LEMMA RowFacts == \A row \in Rows : row # Absent /\ row.verified \in BOOLEAN
BY AccountConstants DEF AccountConstants, Rows

(***************************************************************************)
(* What the steps of one handler, and those of none, leave as it is.        *)
(***************************************************************************)
\* Rows are not deleted, addresses stay verified, no mail is unsent again.
Grows ==
  /\ account # Absent => account' # Absent
  /\ Verified(account) => Verified(account')
  /\ \A m \in Mails : mail[m] # "unsent" => mail'[m] # "unsent"
  /\ access => access'

LEMMA StillSoGrows ==
  ASSUME Grows, NEW k \in HandlerStates, StillSo(k, account, mail, access)
  PROVE  StillSo(k, account', mail', access')
<1>1. k.pc \in {"follow", "delete"} => k.mail \in Mails
  BY HandlerFields
<1> QED BY <1>1 DEF StillSo, Grows

HandlersFit ==
  /\ handlers \in [Handlers -> HandlerStates]
  /\ \A h \in Handlers : StillSo(handlers[h], account, mail, access)

LEMMA HandlerStep ==
  ASSUME HandlersFit, Grows, NEW h \in Handlers, NEW k \in HandlerStates, Becomes(h, k),
         StillSo(k, account', mail', access')
  PROVE  /\ HandlersFit'
         /\ handlers'[h] = k /\ \A g \in Handlers : g # h => handlers'[g] = handlers[g]
<1>1. handlers' = [handlers EXCEPT ![h] = k] /\ handlers \in [Handlers -> HandlerStates]
  BY DEF Becomes, HandlersFit
<1>2. handlers' \in [Handlers -> HandlerStates]
  BY <1>1
<1>3. handlers'[h] = k /\ \A g \in Handlers : g # h => handlers'[g] = handlers[g]
  BY <1>1
<1>4. \A g \in Handlers : StillSo(handlers[g], account', mail', access')
  BY <1>1, StillSoGrows DEF HandlersFit
<1>5. \A g \in Handlers : StillSo(handlers'[g], account', mail', access')
  BY <1>3, <1>4
<1> QED BY <1>2, <1>3, <1>5 DEF HandlersFit

LEMMA NoHandlerStep ==
  ASSUME HandlersFit, Grows, UNCHANGED handlers
  PROVE  HandlersFit'
BY StillSoGrows DEF HandlersFit

\* The rest of the invariant.
AccountFits ==
  /\ account \in Rows \cup {Absent} /\ chosen = account
  /\ mail \in [Mails -> MailPcs]
  /\ access \in BOOLEAN /\ (access => Verified(account))
  /\ uses \in [Resets -> Nat] /\ deaths \in 0 .. MaxDeaths /\ cut \in BOOLEAN
  /\ \A m \in Mails : mail[m] # "unsent" => account # Absent

LEMMA AccountInvParts ==
  AccountInv <=> AccountFits /\ HandlersFit /\ MailsFit /\ WayIn
BY DEF AccountInv, AccountTypeOK, AccountFits, HandlersFit, SettingsKept

Acts(h, k) ==
  handlers'[h] = k /\ \A g \in Handlers : g # h => handlers'[g] = handlers[g]

\* How one handler's step changes the requests of a mail.
Bit(b) == IF b THEN 1 ELSE 0

LEMMA HandlersFinite == IsFiniteSet(Handlers)
BY AccountConstants DEF AccountConstants

LEMMA RequestsCount ==
  \A m : /\ Following(m) \subseteq Handlers /\ Cardinality(Following(m)) \in Nat
         /\ Working(m) \subseteq Handlers /\ Cardinality(Working(m)) \in Nat
         /\ Cardinality(Working(m)) <= Cardinality(Handlers)
<1>1. \A m : Following(m) \in SUBSET Handlers /\ Working(m) \in SUBSET Handlers
  BY DEF Following, Working
<1> QED BY <1>1, HandlersFinite, FS_Subset, FS_CardinalityType

\* A set that differs from another in one element at most has its size or one
\* more or less.
LEMMA OneMoreOrLess ==
  ASSUME NEW S, NEW T, NEW x, IsFiniteSet(S), T \ {x} = S \ {x}
  PROVE  Cardinality(T) = Cardinality(S) + Bit(x \in T) - Bit(x \in S)
<1> DEFINE R == S \ {x}
<1>1. IsFiniteSet(R) /\ Cardinality(R) \in Nat /\ Cardinality(S) \in Nat
  BY FS_RemoveElement, FS_CardinalityType
<1>2. Cardinality(R) = Cardinality(S) - Bit(x \in S)
  BY <1>1, FS_RemoveElement DEF Bit
<1>3. Cardinality(T) = Cardinality(R) + Bit(x \in T)
  <2>1. CASE x \in T
    <3>1. T = R \cup {x} /\ x \notin R
      BY <2>1
    <3>2. Cardinality(R \cup {x}) = Cardinality(R) + 1
      BY <1>1, <3>1, FS_AddElement
    <3> QED BY <2>1, <3>1, <3>2 DEF Bit
  <2>2. CASE x \notin T
    <3>1. T = R
      BY <2>2
    <3> QED BY <1>1, <2>2, <3>1 DEF Bit
  <2> QED BY <2>1, <2>2
<1> QED BY <1>1, <1>2, <1>3 DEF Bit

LEMMA RequestsStep ==
  ASSUME NEW h \in Handlers, NEW k, Acts(h, k), NEW m
  PROVE  /\ Cardinality(Following(m))' = Cardinality(Following(m))
              + Bit(Follows(k, m)) - Bit(Follows(handlers[h], m))
         /\ Cardinality(Working(m))' = Cardinality(Working(m))
              + Bit(Works(k, m)) - Bit(Works(handlers[h], m))
<1>1. IsFiniteSet(Following(m)) /\ IsFiniteSet(Working(m))
  <2>1. Following(m) \in SUBSET Handlers /\ Working(m) \in SUBSET Handlers
    BY DEF Following, Working
  <2> QED BY <2>1, HandlersFinite, FS_Subset
<1>2. Following(m)' \ {h} = Following(m) \ {h} /\ Working(m)' \ {h} = Working(m) \ {h}
  BY DEF Acts, Following, Working, Follows, Works
<1>3. /\ (h \in Following(m)') = Follows(k, m) /\ (h \in Following(m)) = Follows(handlers[h], m)
      /\ (h \in Working(m)') = Works(k, m) /\ (h \in Working(m)) = Works(handlers[h], m)
  BY DEF Acts, Following, Working, Follows, Works
<1>4. Cardinality(Following(m)') = Cardinality(Following(m))
        + Bit(h \in Following(m)') - Bit(h \in Following(m))
  BY <1>1, <1>2, OneMoreOrLess
<1>5. Cardinality(Working(m)') = Cardinality(Working(m))
        + Bit(h \in Working(m)') - Bit(h \in Working(m))
  BY <1>1, <1>2, OneMoreOrLess
<1> QED BY <1>3, <1>4, <1>5

\* A use is counted when its request stops to be about to use the mail; and a
\* request that ends without deleting the token has died.
LEMMA MailsFitStep ==
  ASSUME MailsFit, AccountFits, AccountFits', NEW h \in Handlers, NEW k, Acts(h, k),
         \A m \in Resets :
           /\ \/ uses'[m] + Bit(Follows(k, m)) + deaths
                   <= uses[m] + Bit(Follows(handlers[h], m)) + deaths'
              \/ mail'[m] \in Present
           /\ mail'[m] \in Present \cup {"unsent"} =>
                /\ mail[m] \in Present \cup {"unsent"}
                /\ uses'[m] + Bit(Follows(k, m)) + Bit(Works(handlers[h], m)) + deaths
                     <= uses[m] + Bit(Follows(handlers[h], m)) + Bit(Works(k, m)) + deaths'
  PROVE  MailsFit'
<1> SUFFICES ASSUME NEW m \in Resets
             PROVE  /\ uses'[m] + Cardinality(Following(m))' <= Cardinality(Handlers) + deaths'
                    /\ mail'[m] \in Present \cup {"unsent"} =>
                         uses'[m] + Cardinality(Following(m))' <= Cardinality(Working(m))' + deaths'
  BY DEF MailsFit
<1> DEFINE f == Cardinality(Following(m))  w == Cardinality(Working(m))
           g == Cardinality(Following(m))' v == Cardinality(Working(m))'
           a == Bit(Follows(k, m))  b == Bit(Follows(handlers[h], m))
           c == Bit(Works(k, m))    d == Bit(Works(handlers[h], m))
<1>1. /\ g = f + a - b /\ v = w + c - d
  BY RequestsStep
<1>2. f \in Nat /\ w \in Nat
  BY RequestsCount
<1>3. v <= Cardinality(Handlers)
  <2>1. Working(m)' \in SUBSET Handlers
    BY DEF Working
  <2> QED BY <2>1, HandlersFinite, FS_Subset
<1>4. a \in Nat /\ b \in Nat /\ c \in Nat /\ d \in Nat
  BY DEF Bit
<1>5. uses[m] \in Nat /\ uses'[m] \in Nat
  BY DEF AccountFits
<1>6. deaths \in Int /\ deaths' \in Int
  BY DEF AccountFits
<1>7. Cardinality(Handlers) \in Nat
  BY HandlersFinite, FS_CardinalityType
<1>8. /\ uses[m] + f <= Cardinality(Handlers) + deaths
      /\ mail[m] \in Present \cup {"unsent"} => uses[m] + f <= w + deaths
  BY DEF MailsFit
<1>9. /\ uses'[m] + a + deaths <= uses[m] + b + deaths' \/ mail'[m] \in Present
      /\ mail'[m] \in Present \cup {"unsent"} =>
           mail[m] \in Present \cup {"unsent"}
           /\ uses'[m] + a + d + deaths <= uses[m] + b + c + deaths'
  OBVIOUS
<1> HIDE DEF f, w, g, v, a, b, c, d
<1>10. mail'[m] \in Present \cup {"unsent"} => uses'[m] + g <= v + deaths'
  BY <1>1, <1>2, <1>4, <1>5, <1>6, <1>8, <1>9
<1>11. uses'[m] + g <= Cardinality(Handlers) + deaths'
  <2>1. CASE mail'[m] \in Present
    BY <1>1, <1>2, <1>3, <1>4, <1>5, <1>6, <1>7, <1>10, <2>1
  <2>2. CASE uses'[m] + a + deaths <= uses[m] + b + deaths'
    BY <1>1, <1>2, <1>4, <1>5, <1>6, <1>7, <1>8, <2>2
  <2> QED BY <1>9, <2>1, <2>2
<1> QED BY <1>10, <1>11 DEF f, w, g, v

\* Requests that follow no link.
LEMMA NoLinkStep ==
  ASSUME MailsFit, AccountFits, AccountFits', NEW h \in Handlers, NEW k, Acts(h, k),
         handlers[h].pc \notin {"follow", "delete"}, k.pc \notin {"follow", "delete"},
         UNCHANGED <<uses, deaths>>,
         \A m \in Resets : mail'[m] \in Present \cup {"unsent"} =>
                              mail[m] \in Present \cup {"unsent"}
  PROVE  MailsFit'
<1>1. \A m : /\ Bit(Follows(k, m)) = 0 /\ Bit(Follows(handlers[h], m)) = 0
             /\ Bit(Works(k, m)) = 0 /\ Bit(Works(handlers[h], m)) = 0
  BY DEF Bit, Follows, Works
<1>2. \A m \in Resets : uses[m] \in Nat /\ deaths \in Int
  BY DEF AccountFits
<1> QED BY <1>1, <1>2, MailsFitStep

\* Steps of none of them.
LEMMA NobodyStep ==
  ASSUME MailsFit, UNCHANGED <<handlers, uses, deaths>>,
         \A m \in Resets : mail'[m] \in Present \cup {"unsent"} =>
                              mail[m] \in Present \cup {"unsent"}
  PROVE  MailsFit'
<1>1. \A m : Following(m)' = Following(m) /\ Working(m)' = Working(m)
  BY DEF Following, Working
<1> QED BY <1>1 DEF MailsFit

LEMMA AccountInvInit == AccountInit => AccountInv
<1> SUFFICES ASSUME AccountInit PROVE AccountInv
  OBVIOUS
<1>1. Free \in HandlerStates /\ Free.pc = "free"
  BY PlainParts DEF Free
<1>2. HandlersFit
  BY <1>1 DEF AccountInit, HandlersFit, StillSo
<1>3. mail \in [Mails -> MailPcs] /\ \A m \in Mails : mail[m] = "unsent"
  BY MailFacts DEF AccountInit
<1>4. deaths \in 0 .. MaxDeaths
  <2>1. deaths = 0 /\ MaxDeaths \in Nat
    BY AccountConstants DEF AccountInit, AccountConstants
  <2> QED BY <2>1
<1>5. AccountFits
  BY <1>3, <1>4 DEF AccountInit, AccountFits
<1>6. MailsFit
  <2>1. \A h \in Handlers : handlers[h].pc = "free"
    BY <1>1 DEF AccountInit
  <2>2. \A m \in Resets : uses[m] = 0 /\ Following(m) = {} /\ Working(m) = {}
    BY <2>1 DEF AccountInit, Following, Working, Follows, Works
  <2>3. deaths = 0 /\ Cardinality(Handlers) \in Nat
    BY HandlersFinite, FS_CardinalityType DEF AccountInit
  <2>4. \A m \in Resets : Cardinality(Following(m)) = 0 /\ Cardinality(Working(m)) = 0
    BY <2>2, FS_EmptySet
  <2> QED BY <2>2, <2>3, <2>4 DEF MailsFit
<1>7. WayIn
  BY DEF AccountInit, WayIn
<1> QED BY <1>2, <1>5, <1>6, <1>7, AccountInvParts

LEMMA WayInStep ==
  ASSUME WayIn, NEW h \in Handlers, NEW k, Acts(h, k),
         \/ account' = Absent \/ Verified(account')
         \/ mail'[Verification] \in {"valid", "expired", "purged"}
         \/ cut' \/ k.pc = "welcome"
         \/ /\ handlers[h].pc # "welcome" /\ account # Absent
            /\ Verified(account) => Verified(account')
            /\ mail[Verification] \in {"valid", "expired", "purged"} =>
                 mail'[Verification] \in {"valid", "expired", "purged"}
            /\ (cut => cut')
  PROVE  WayIn'
<1>1. CASE \/ account' = Absent \/ Verified(account')
           \/ mail'[Verification] \in {"valid", "expired", "purged"}
           \/ cut'
  BY <1>1 DEF WayIn, Verified
<1>2. CASE k.pc = "welcome"
  BY <1>2 DEF WayIn, Acts
<1>3. CASE /\ handlers[h].pc # "welcome" /\ account # Absent
           /\ Verified(account) => Verified(account')
           /\ mail[Verification] \in {"valid", "expired", "purged"} =>
                mail'[Verification] \in {"valid", "expired", "purged"}
           /\ (cut => cut')
  <2>1. CASE Verified(account) \/ cut
             \/ mail[Verification] \in {"valid", "expired", "purged"}
    BY <1>3, <2>1 DEF WayIn, Verified
  <2>2. CASE \E g \in Handlers : handlers[g].pc = "welcome"
    <3>1. PICK g \in Handlers : handlers[g].pc = "welcome"
      BY <2>2
    <3>2. handlers'[g].pc = "welcome"
      BY <1>3, <3>1 DEF Acts
    <3> QED BY <3>2 DEF WayIn
  <2> QED BY <1>3, <2>1, <2>2 DEF WayIn, Verified
<1> QED BY <1>1, <1>2, <1>3

(***************************************************************************)
(* One lemma for each kind of request.                                     *)
(***************************************************************************)
\* A handler that becomes another while the rows stay as they are.
LEMMA ReadOnlyStep ==
  ASSUME AccountInv, NEW h \in Handlers, NEW k \in HandlerStates, Becomes(h, k),
         StillSo(k, account, mail, access), 
         handlers[h].pc \notin {"welcome", "follow", "delete"}, k.pc # "delete",
         k.pc = "follow" => mail[k.mail] \in Present,
         UNCHANGED <<account, mail, access, chosen, uses, deaths, cut>>
  PROVE  AccountInv'
<1>0. AccountFits /\ HandlersFit /\ MailsFit /\ WayIn
  BY AccountInvParts
<1>1. Grows
  BY DEF Grows
<1>2. HandlersFit' /\ Acts(h, k)
  BY <1>0, <1>1, HandlerStep DEF Acts
<1>3. AccountFits'
  BY <1>0 DEF AccountFits
<1>4. MailsFit'
  <2>1. \A m \in Resets : uses[m] \in Nat /\ deaths \in Int
    BY <1>0 DEF AccountFits
  <2>2. \A m : /\ Bit(Follows(handlers[h], m)) = 0 /\ Bit(Works(handlers[h], m)) = 0
               /\ Bit(Follows(k, m)) = Bit(Works(k, m)) /\ Bit(Works(k, m)) \in Nat
               /\ Bit(Follows(k, m)) = 0 \/ mail[m] \in Present
    BY DEF Bit, Follows, Works
  <2>3. UNCHANGED <<uses, deaths, mail>>
    OBVIOUS
  <2> QED BY <1>0, <1>2, <1>3, <2>1, <2>2, <2>3, MailsFitStep
<1>5. WayIn'
  BY <1>0, <1>2, WayInStep
<1> QED BY <1>2, <1>3, <1>4, <1>5 DEF AccountInv, AccountTypeOK, AccountFits, HandlersFit,
                                      SettingsKept

LEMMA RegisterStep ==
  ASSUME AccountInv, NEW h \in Handlers, NEW s \in Secrets, Register(h, s)
  PROVE  AccountInv'
<1> DEFINE k == [pc |-> "welcome"]
<1>0. AccountFits /\ HandlersFit /\ MailsFit /\ WayIn
  BY AccountInvParts
<1>1. /\ handlers[h].pc = "free" /\ account = Absent
      /\ account' = [password |-> s, verified |-> FALSE] /\ chosen' = account'
      /\ Becomes(h, k) /\ UNCHANGED <<mail, access, uses, deaths, cut>>
  BY DEF Register
<1>2. account' \in Rows /\ account' # Absent
  BY <1>1, RowFacts DEF Rows
<1>3. Grows
  BY <1>1, <1>2 DEF Grows, Verified
<1>4. k \in HandlerStates /\ k.pc = "welcome"
  BY PlainParts
<1> HIDE DEF k
<1>5. HandlersFit' /\ Acts(h, k)
  <2>1. StillSo(k, account', mail', access')
    BY <1>2, <1>4 DEF StillSo
  <2> QED BY <1>0, <1>1, <1>3, <1>4, <2>1, HandlerStep DEF Acts
<1>6. AccountFits'
  BY <1>0, <1>1, <1>2 DEF AccountFits, Verified
<1>7. MailsFit'
  BY <1>0, <1>1, <1>4, <1>5, <1>6, NoLinkStep
<1>8. WayIn'
  BY <1>0, <1>4, <1>5, WayInStep
<1> QED BY <1>5, <1>6, <1>7, <1>8 DEF AccountInv, AccountTypeOK, AccountFits, HandlersFit,
                                      SettingsKept

\* A mail is sent, and the request is done.
LEMMA SendStep ==
  ASSUME AccountInv, NEW h \in Handlers, NEW m \in Mails,
         handlers[h].pc \in {"welcome", "remind"}, m \in Resets => mail[m] = "unsent",
         handlers[h].pc = "welcome" => m = Verification,
         mail' = [mail EXCEPT ![m] = "valid"], Becomes(h, Free),
         UNCHANGED <<account, access, chosen, uses, deaths, cut>>
  PROVE  AccountInv'
<1>0. AccountFits /\ HandlersFit /\ MailsFit /\ WayIn
  BY AccountInvParts
<1>1. mail' \in [Mails -> MailPcs] /\ mail'[m] = "valid"
      /\ \A n \in Mails : n # m => mail'[n] = mail[n]
  BY <1>0, MailFacts DEF AccountFits
<1>2. Free \in HandlerStates /\ Free.pc = "free"
  BY PlainParts DEF Free
<1>3. account # Absent
  BY <1>0 DEF HandlersFit, StillSo
<1>4. Grows
  BY <1>1 DEF Grows
<1>5. HandlersFit' /\ Acts(h, Free)
  <2>1. StillSo(Free, account', mail', access')
    BY <1>2 DEF StillSo
  <2> QED BY <1>0, <1>2, <1>4, <2>1, HandlerStep DEF Acts
<1>6. AccountFits'
  BY <1>0, <1>1, <1>3 DEF AccountFits
<1>7. MailsFit'
  <2>1. \A n \in Resets : mail'[n] \in Present \cup {"unsent"} => mail[n] \in Present \cup {"unsent"}
    BY <1>1, MailFacts
  <2>2. handlers[h].pc \notin {"follow", "delete"}
    OBVIOUS
  <2> QED BY <1>0, <1>2, <1>5, <1>6, <2>1, <2>2, NoLinkStep
<1>8. WayIn'
  <2>1. CASE m = Verification
    BY <1>0, <1>1, <1>5, <2>1, WayInStep
  <2>2. CASE m # Verification
    <3>1. handlers[h].pc # "welcome" /\ mail'[Verification] = mail[Verification]
      BY <1>1, <2>2, MailFacts
    <3> QED BY <1>0, <1>3, <1>5, <3>1, WayInStep
  <2> QED BY <2>1, <2>2
<1> QED BY <1>5, <1>6, <1>7, <1>8 DEF AccountInv, AccountTypeOK, AccountFits, HandlersFit,
                                      SettingsKept

\* Tokens that are there are deleted, or expire; none else changes.
LEMMA MailsEnd ==
  ASSUME AccountFits, NEW sent, mail' = sent, sent \in [Mails -> MailPcs],
         \A m \in Mails : mail[m] # "unsent" <=> sent[m] # "unsent",
         UNCHANGED <<account, access, chosen, uses, deaths, cut>>
  PROVE  AccountFits' /\ Grows
BY DEF AccountFits, Grows

LEMMA RemindStep ==
  ASSUME AccountInv, NEW h \in Handlers, RequestPasswordReset(h)
  PROVE  AccountInv'
<1> DEFINE k == [pc |-> "remind"]
<1>0. AccountFits /\ HandlersFit /\ MailsFit /\ WayIn
  BY AccountInvParts
<1>1. /\ handlers[h].pc = "free" /\ account # Absent /\ mail' = Superseded /\ Becomes(h, k)
      /\ UNCHANGED <<account, access, chosen, uses, deaths, cut>>
  BY DEF RequestPasswordReset
<1>2. \A m \in Mails : /\ Superseded[m] \in MailPcs
                       /\ Superseded[m] = mail[m] \/ (Superseded[m] = "deleted" /\ mail[m] \in Present)
  BY <1>0, MailFacts DEF Superseded, AccountFits
<1>3. Superseded[Verification] = mail[Verification]
  BY MailFacts DEF Superseded
<1>4. AccountFits' /\ Grows
  <2>1. Superseded \in [Mails -> MailPcs]
    BY <1>2 DEF Superseded
  <2>2. \A m \in Mails : mail[m] # "unsent" <=> Superseded[m] # "unsent"
    BY <1>2, MailFacts
  <2> QED BY <1>0, <1>1, <2>1, <2>2, MailsEnd
<1>5. k \in HandlerStates /\ k.pc = "remind"
  BY PlainParts
<1> HIDE DEF k
<1>6. HandlersFit' /\ Acts(h, k)
  <2>1. StillSo(k, account', mail', access')
    BY <1>1, <1>5 DEF StillSo
  <2> QED BY <1>0, <1>1, <1>4, <1>5, <2>1, HandlerStep DEF Acts
<1>7. MailsFit'
  <2>1. \A m \in Resets : mail'[m] \in Present \cup {"unsent"} => mail[m] \in Present \cup {"unsent"}
    BY <1>1, <1>2, MailFacts
  <2> QED BY <1>0, <1>1, <1>4, <1>5, <1>6, <2>1, NoLinkStep
<1>8. WayIn'
  BY <1>0, <1>1, <1>3, <1>6, WayInStep
<1> QED BY <1>4, <1>6, <1>7, <1>8 DEF AccountInv, AccountTypeOK, AccountFits, HandlersFit,
                                      SettingsKept

LEMMA FollowStep ==
  ASSUME AccountInv, NEW h \in Handlers, NEW m \in Mails, Follow(h, m)
  PROVE  AccountInv'
<1>0. AccountFits /\ HandlersFit /\ MailsFit /\ WayIn
  BY AccountInvParts
<1>1. /\ handlers[h].pc = "free" /\ mail[m] \in Present
      /\ UNCHANGED <<account, access, chosen, uses, deaths, cut>>
  BY DEF Follow
<1>2. CASE mail[m] = "expired"
  <2> DEFINE sent == [mail EXCEPT ![m] = "purged"]
  <2>1. mail' = sent /\ UNCHANGED handlers
    BY <1>2 DEF Follow
  <2>2. /\ sent \in [Mails -> MailPcs] /\ sent[m] = "purged"
        /\ \A n \in Mails : n # m => sent[n] = mail[n]
    BY <1>0, MailFacts DEF AccountFits
  <2> HIDE DEF sent
  <2>3. AccountFits' /\ Grows
    BY <1>0, <1>1, <1>2, <2>1, <2>2, MailsEnd
  <2>4. HandlersFit'
    BY <1>0, <2>1, <2>3, NoHandlerStep
  <2>5. MailsFit'
    <3>1. \A n \in Resets : mail'[n] \in Present \cup {"unsent"} => mail[n] \in Present \cup {"unsent"}
      BY <1>1, <2>1, <2>2, MailFacts
    <3> QED BY <1>0, <1>1, <2>1, <3>1, NobodyStep
  <2>6. WayIn'
    BY <1>0, <1>1, <2>1, <2>2, MailFacts DEF WayIn
  <2> QED BY <2>3, <2>4, <2>5, <2>6 DEF AccountInv, AccountTypeOK, AccountFits, HandlersFit,
                                        SettingsKept
<1>3. CASE mail[m] # "expired"
  <2> DEFINE k == [pc |-> "follow", mail |-> m]
  <2>1. Becomes(h, k) /\ UNCHANGED mail
    BY <1>3 DEF Follow
  <2>2. k \in HandlerStates /\ k.pc = "follow" /\ k.mail = m
    BY LinkParts
  <2> HIDE DEF k
  <2>3. mail[m] # "unsent" /\ account # Absent
    BY <1>0, <1>1, MailFacts DEF AccountFits
  <2>4. StillSo(k, account, mail, access)
    BY <2>2, <2>3 DEF StillSo
  <2> QED BY <1>1, <2>1, <2>2, <2>4, ReadOnlyStep
<1> QED BY <1>2, <1>3

\* The row is written for a mailed link, which is deleted next.
LEMMA LinkStep ==
  ASSUME AccountInv, NEW h \in Handlers, handlers[h].pc = "follow",
         account' \in Rows, chosen' = account', account'.verified,
         \/ uses' = uses
         \/ uses' = [uses EXCEPT ![handlers[h].mail] = @ + 1] /\ handlers[h].mail \in Resets,
         Becomes(h, [handlers[h] EXCEPT !.pc = "delete"]),
         UNCHANGED <<mail, access, deaths, cut>>
  PROVE  AccountInv'
<1>0. AccountFits /\ HandlersFit /\ MailsFit /\ WayIn
  BY AccountInvParts
<1> DEFINE k == [handlers[h] EXCEPT !.pc = "delete"]
           m == handlers[h].mail
<1>1. handlers[h] \in HandlerStates /\ mail[m] # "unsent"
  BY <1>0 DEF HandlersFit, StillSo
<1>2. k \in HandlerStates /\ k.pc = "delete" /\ k.mail = m /\ k.mail \in Mails
  BY <1>1, DeleteParts
<1>3. Becomes(h, k)
  OBVIOUS
<1> HIDE DEF k, m
<1>4. account' # Absent /\ Verified(account')
  BY RowFacts DEF Verified
<1>5. Grows
  BY <1>4 DEF Grows
<1>6. HandlersFit' /\ Acts(h, k)
  <2>1. StillSo(k, account', mail', access')
    BY <1>1, <1>2, <1>4 DEF StillSo
  <2> QED BY <1>0, <1>2, <1>3, <1>5, <2>1, HandlerStep DEF Acts
<1>7. \A n \in Resets : uses'[n] \in Nat /\ uses[n] \in Nat
                         /\ uses'[n] <= uses[n] + (IF n = m THEN 1 ELSE 0)
  BY <1>0 DEF AccountFits, m
<1>8. AccountFits'
  <2>1. uses' \in [Resets -> Nat]
    BY <1>0 DEF AccountFits
  <2> QED BY <1>0, <1>4, <2>1 DEF AccountFits
<1>9. MailsFit'
  <2>1. \A n : /\ Follows(k, n) = FALSE /\ Works(k, n) = (n = m)
               /\ Follows(handlers[h], n) = (n = m) /\ Works(handlers[h], n) = (n = m)
    BY <1>2 DEF Follows, Works, m
  <2>2. \A n : /\ Bit(Follows(k, n)) = 0
               /\ Bit(Works(k, n)) = IF n = m THEN 1 ELSE 0
               /\ Bit(Follows(handlers[h], n)) = IF n = m THEN 1 ELSE 0
               /\ Bit(Works(handlers[h], n)) = IF n = m THEN 1 ELSE 0
    BY <2>1 DEF Bit
  <2>3. UNCHANGED <<deaths, mail>> /\ deaths \in Int
    BY <1>0 DEF AccountFits
  <2> QED BY <1>0, <1>6, <1>7, <1>8, <2>2, <2>3, MailsFitStep
<1>10. WayIn'
  BY <1>0, <1>4, <1>6, WayInStep
<1> QED BY <1>6, <1>8, <1>9, <1>10 DEF AccountInv, AccountTypeOK, AccountFits, HandlersFit,
                                      SettingsKept

LEMMA VerifyStep ==
  ASSUME AccountInv, NEW h \in Handlers, Verify(h)
  PROVE  AccountInv'
<1>1. /\ handlers[h].pc = "follow" /\ UNCHANGED <<mail, access, uses, deaths, cut>>
      /\ Becomes(h, [handlers[h] EXCEPT !.pc = "delete"])
      /\ account' = [account EXCEPT !.verified = TRUE]
      /\ chosen' = [chosen EXCEPT !.verified = TRUE]
  BY DEF Verify
<1>2. account \in Rows /\ chosen = account
  BY <1>1, AccountInvParts DEF AccountFits, HandlersFit, StillSo
<1>3. account' \in Rows /\ account'.verified
  BY <1>1, <1>2 DEF Rows
<1>4. chosen' = account' /\ uses' = uses
  BY <1>1, <1>2
<1> QED BY <1>1, <1>3, <1>4, LinkStep

LEMMA ConfirmStep ==
  ASSUME AccountInv, NEW h \in Handlers, NEW s \in Secrets, ConfirmPasswordReset(h, s)
  PROVE  AccountInv'
<1>1. /\ handlers[h].pc = "follow" /\ handlers[h].mail \in Resets
      /\ UNCHANGED <<mail, access, deaths, cut>>
      /\ Becomes(h, [handlers[h] EXCEPT !.pc = "delete"])
      /\ account' = [account EXCEPT !.password = s, !.verified = TRUE]
      /\ chosen' = [password |-> s, verified |-> TRUE]
      /\ uses' = [uses EXCEPT ![handlers[h].mail] = @ + 1]
  BY DEF ConfirmPasswordReset, SaveFields
<1>2. account \in Rows
  BY <1>1, AccountInvParts DEF AccountFits, HandlersFit, StillSo
<1>3. \A row \in Rows : [row EXCEPT !.password = s, !.verified = TRUE]
                         = [password |-> s, verified |-> TRUE]
  <2>1. \A row \in Rows : LET r == [row EXCEPT !.password = s, !.verified = TRUE]
                          IN  r \in Rows /\ r.password = s /\ r.verified = TRUE
    BY DEF Rows
  <2>2. \A r \in Rows : r = [password |-> r.password, verified |-> r.verified]
    BY DEF Rows
  <2> QED BY <2>1, <2>2
<1>4. chosen' \in Rows /\ chosen'.verified
  BY <1>1 DEF Rows
<1>5. account' = chosen'
  BY <1>1, <1>2, <1>3
<1> QED BY <1>1, <1>4, <1>5, LinkStep

LEMMA DeleteTokenStep ==
  ASSUME AccountInv, NEW h \in Handlers, DeleteToken(h)
  PROVE  AccountInv'
<1>0. AccountFits /\ HandlersFit /\ MailsFit /\ WayIn
  BY AccountInvParts
<1> DEFINE m == handlers[h].mail
           sent == [mail EXCEPT ![m] = IF @ \in Present THEN "deleted" ELSE @]
<1>1. /\ handlers[h].pc = "delete" /\ mail' = sent /\ Becomes(h, Free)
      /\ UNCHANGED <<account, access, chosen, uses, deaths, cut>>
  BY DEF DeleteToken
<1>2. m \in Mails /\ account # Absent /\ (m = Verification => Verified(account))
  BY <1>0, <1>1, HandlerFields DEF HandlersFit, StillSo
<1> HIDE DEF m
<1>3. /\ sent \in [Mails -> MailPcs] /\ sent[m] \notin Present
      /\ \A n \in Mails : n # m => sent[n] = mail[n]
      /\ \A n \in Mails : mail[n] # "unsent" <=> sent[n] # "unsent"
  BY <1>0, <1>2, MailFacts DEF AccountFits
<1> HIDE DEF sent
<1>4. AccountFits' /\ Grows
  BY <1>0, <1>1, <1>3, MailsEnd
<1>5. Free \in HandlerStates /\ Free.pc = "free"
  BY PlainParts DEF Free
<1>6. HandlersFit' /\ Acts(h, Free)
  <2>1. StillSo(Free, account', mail', access')
    BY <1>5 DEF StillSo
  <2> QED BY <1>0, <1>1, <1>4, <1>5, <2>1, HandlerStep DEF Acts
<1>7. mail[m] # "unsent"
  BY <1>0, <1>1 DEF HandlersFit, StillSo, m
<1>8. MailsFit'
  <2>1. \A n : Follows(Free, n) = FALSE /\ Works(Free, n) = FALSE
              /\ Follows(handlers[h], n) = FALSE /\ (n # m => Works(handlers[h], n) = FALSE)
    BY <1>1, <1>5 DEF Follows, Works, m
  <2>2. \A n : /\ Bit(Follows(Free, n)) = 0 /\ Bit(Works(Free, n)) = 0
               /\ Bit(Follows(handlers[h], n)) = 0 /\ (n # m => Bit(Works(handlers[h], n)) = 0)
    BY <2>1 DEF Bit
  <2>3. \A n \in Resets : /\ mail'[n] \in Present \cup {"unsent"} => n # m /\ mail[n] = mail'[n]
                          /\ uses[n] \in Nat /\ deaths \in Int
    BY <1>0, <1>1, <1>2, <1>3, <1>7, MailFacts DEF AccountFits
  <2> QED BY <1>0, <1>1, <1>4, <1>6, <2>2, <2>3, MailsFitStep
<1>9. WayIn'
  <2>1. CASE m = Verification
    BY <1>0, <1>1, <1>2, <1>6, <2>1, WayInStep
  <2>2. CASE m # Verification
    <3>1. mail'[Verification] = mail[Verification]
      BY <1>1, <1>3, <2>2, MailFacts
    <3> QED BY <1>0, <1>1, <1>2, <1>6, <3>1, WayInStep
  <2> QED BY <2>1, <2>2
<1> QED BY <1>4, <1>6, <1>8, <1>9 DEF AccountInv, AccountTypeOK, AccountFits, HandlersFit,
                                      SettingsKept

\* Tokens that are as good as gone, by time or by the watchdog.
LEMMA EndStep ==
  ASSUME AccountInv, HandleTokens \/ \E m \in Mails : Expire(m)
  PROVE  AccountInv'
<1>0. AccountFits /\ HandlersFit /\ MailsFit /\ WayIn
  BY AccountInvParts
<1>1. UNCHANGED <<account, handlers, access, chosen, uses, deaths, cut>>
  BY DEF HandleTokens, Expire
<1>2. /\ mail' \in [Mails -> MailPcs]
      /\ \A n \in Mails : \/ mail'[n] = mail[n]
                          \/ mail[n] = "valid" /\ mail'[n] = "expired"
                          \/ mail[n] = "expired" /\ mail'[n] = "purged"
  BY <1>0, MailFacts DEF AccountFits, HandleTokens, Expire
<1>3. \A n \in Mails : mail[n] # "unsent" <=> mail'[n] # "unsent"
  BY <1>2
<1>4. AccountFits' /\ Grows
  BY <1>0, <1>1, <1>2, <1>3, MailFacts DEF AccountFits, Grows
<1>5. HandlersFit'
  BY <1>0, <1>1, <1>4, NoHandlerStep
<1>6. MailsFit'
  <2>1. \A n \in Resets : mail'[n] \in Present \cup {"unsent"} => mail[n] \in Present \cup {"unsent"}
    BY <1>2, MailFacts
  <2> QED BY <1>0, <1>1, <2>1, NobodyStep
<1>7. WayIn'
  BY <1>0, <1>1, <1>2, MailFacts DEF WayIn
<1> QED BY <1>4, <1>5, <1>6, <1>7 DEF AccountInv, AccountTypeOK, AccountFits, HandlersFit,
                                      SettingsKept

(***************************************************************************)
(* Signing in and changing settings.                                       *)
(***************************************************************************)
LEMMA LoginStep ==
  ASSUME AccountInv, NEW s \in Secrets, Login(s)
  PROVE  AccountInv'
<1>0. AccountFits /\ HandlersFit /\ MailsFit /\ WayIn
  BY AccountInvParts
<1>1. /\ access' = TRUE /\ Verified(account)
      /\ UNCHANGED <<account, mail, handlers, chosen, uses, deaths, cut>>
  BY DEF Login, Verified
<1>2. AccountFits' /\ Grows
  BY <1>0, <1>1 DEF AccountFits, Grows
<1>3. HandlersFit'
  BY <1>0, <1>1, <1>2, NoHandlerStep
<1>4. MailsFit' /\ WayIn'
  BY <1>0, <1>1, NobodyStep DEF WayIn
<1> QED BY <1>2, <1>3, <1>4 DEF AccountInv, AccountTypeOK, AccountFits, HandlersFit,
                                SettingsKept

\* Requests that read the row.
LEMMA ReadRowStep ==
  ASSUME AccountInv, NEW h \in Handlers, GoogleAuth(h) \/ Authenticated(h)
  PROVE  AccountInv'
<1>0. AccountFits /\ HandlersFit
  BY AccountInvParts
<1>1. account \in Rows \cup {Absent} /\ (access => Verified(account))
  BY <1>0 DEF AccountFits
<1>2. PICK pc \in {"google", "patch"} :
        /\ handlers[h].pc = "free" /\ Becomes(h, [pc |-> pc, row |-> account])
        /\ pc = "patch" => access
        /\ UNCHANGED <<account, mail, access, chosen, uses, deaths, cut>>
  BY DEF GoogleAuth, Authenticated
<1> DEFINE k == [pc |-> pc, row |-> account]
<1>3. k \in HandlerStates /\ k.pc = pc /\ k.row = account
  BY <1>1, RowParts
<1>4. Becomes(h, k)
  BY <1>2
<1> HIDE DEF k
<1>5. StillSo(k, account, mail, access)
  BY <1>1, <1>2, <1>3 DEF StillSo, Verified
<1> QED BY <1>2, <1>3, <1>4, <1>5, ReadOnlyStep

\* Requests that write the row they have read, or what is wrong in it: of an
\* address that is verified.
LEMMA WriteRowStep ==
  ASSUME AccountInv, NEW h \in Handlers, handlers[h].pc \in {"google", "patch"},
         account' \in Rows, chosen' = account', account'.verified,
         access' \in BOOLEAN, access => access',
         Becomes(h, Free), UNCHANGED <<mail, uses, deaths, cut>>
  PROVE  AccountInv'
<1>0. AccountFits /\ HandlersFit /\ MailsFit /\ WayIn
  BY AccountInvParts
<1>1. account' # Absent /\ Verified(account')
  BY RowFacts DEF Verified
<1>2. Grows
  BY <1>1 DEF Grows
<1>3. Free \in HandlerStates /\ Free.pc = "free"
  BY PlainParts DEF Free
<1>4. HandlersFit' /\ Acts(h, Free)
  <2>1. StillSo(Free, account', mail', access')
    BY <1>3 DEF StillSo
  <2> QED BY <1>0, <1>2, <1>3, <2>1, HandlerStep DEF Acts
<1>5. AccountFits'
  BY <1>0, <1>1 DEF AccountFits
<1>6. MailsFit'
  <2>1. handlers[h].pc \notin {"follow", "delete"}
    OBVIOUS
  <2> QED BY <1>0, <1>3, <1>4, <1>5, <2>1, NoLinkStep
<1>7. WayIn'
  BY <1>0, <1>1, <1>4, WayInStep
<1> QED BY <1>4, <1>5, <1>6, <1>7 DEF AccountInv, AccountTypeOK, AccountFits, HandlersFit,
                                      SettingsKept

LEMMA GoogleStep ==
  ASSUME AccountInv, NEW h \in Handlers,
         CreateNewUserFromOauth(h) \/ UpdateExistingUserFromOauth(h)
  PROVE  AccountInv'
<1>0. AccountFits /\ HandlersFit
  BY AccountInvParts
<1>1. account \in Rows \cup {Absent} /\ chosen = account /\ access \in BOOLEAN
  BY <1>0 DEF AccountFits
<1>2. CASE CreateNewUserFromOauth(h) /\ account = Absent
  <2>1. /\ handlers[h].pc = "google" /\ Becomes(h, Free) /\ UNCHANGED <<mail, uses, deaths, cut>>
        /\ account' = [password |-> "unusable", verified |-> TRUE]
        /\ chosen' = account' /\ access' = TRUE
    BY <1>2 DEF CreateNewUserFromOauth
  <2>2. account' \in Rows /\ account'.verified
    BY <2>1 DEF Rows
  <2> QED BY <2>1, <2>2, WriteRowStep
<1>3. CASE CreateNewUserFromOauth(h) /\ account # Absent
  <2>1. /\ handlers[h].pc = "google" /\ Becomes(h, Free)
        /\ UNCHANGED <<account, chosen, access, mail, uses, deaths, cut>>
    BY <1>3 DEF CreateNewUserFromOauth
  <2>2. Free \in HandlerStates /\ Free.pc = "free"
    BY PlainParts DEF Free
  <2>3. StillSo(Free, account, mail, access)
    BY <2>2 DEF StillSo
  <2> QED BY <2>1, <2>2, <2>3, ReadOnlyStep
<1>4. CASE UpdateExistingUserFromOauth(h)
  <2> DEFINE row == handlers[h].row
  <2>1. /\ handlers[h].pc = "google" /\ row # Absent /\ Becomes(h, Free)
        /\ UNCHANGED <<mail, uses, deaths, cut>> /\ access' = TRUE
        /\ account' = FromGoogle(handlers[h], account) /\ chosen' = account'
    BY <1>1, <1>4 DEF UpdateExistingUserFromOauth
  <2>2. handlers[h] \in HandlerStates /\ StillSo(handlers[h], account, mail, access)
    BY <1>0 DEF HandlersFit
  <2>3. row \in Rows /\ account \in Rows /\ (row.verified => account.verified)
    BY <1>1, <2>1, <2>2, HandlerFields DEF StillSo, Verified
  <2>4. row.verified \in BOOLEAN /\ account.verified \in BOOLEAN
    BY <2>3, RowFacts
  <2>5. account' \in Rows /\ account'.verified
    <3>1. account'.verified = (~row.verified \/ account.verified)
      BY <2>1 DEF FromGoogle
    <3>2. account'.verified = TRUE
      BY <2>3, <2>4, <3>1
    <3>3. account.password \in Secrets \cup {"unusable"}
      BY <2>3 DEF Rows
    <3>4. account' = [password |-> IF row.password # "unusable" THEN "unusable"
                                   ELSE account.password,
                      verified |-> ~row.verified \/ account.verified]
      BY <2>1 DEF FromGoogle
    <3> QED BY <2>4, <3>2, <3>3, <3>4 DEF Rows
  <2> QED BY <2>1, <2>5, WriteRowStep
<1> QED BY <1>2, <1>3, <1>4

LEMMA CurrentUserStep ==
  ASSUME AccountInv, NEW h \in Handlers, CurrentUser(h)
  PROVE  AccountInv'
<1>0. AccountFits /\ HandlersFit
  BY AccountInvParts
<1> DEFINE row == handlers[h].row
<1>1. /\ handlers[h].pc = "patch" /\ account' = row /\ Becomes(h, Free)
      /\ UNCHANGED <<mail, access, uses, deaths, cut>>
      /\ chosen' = [chosen EXCEPT !.password = IF row.password # account.password
                                               THEN row.password ELSE @]
  BY DEF CurrentUser
<1>2. /\ handlers[h] \in HandlerStates /\ StillSo(handlers[h], account, mail, access)
      /\ access => Verified(account)
      /\ account \in Rows \cup {Absent} /\ chosen = account /\ access \in BOOLEAN
  BY <1>0 DEF HandlersFit, AccountFits
<1>3. row \in Rows /\ row.verified /\ account \in Rows /\ account.verified
  BY <1>1, <1>2, HandlerFields DEF StillSo, Verified
<1>4. chosen' = row
  <2>1. row.verified = account.verified
    BY <1>3, RowFacts
  <2> QED BY <1>1, <1>2, <1>3, <2>1 DEF Rows
<1> QED BY <1>1, <1>2, <1>3, <1>4, WriteRowStep

LEMMA DieStep ==
  ASSUME AccountInv, NEW h \in Handlers, Die(h)
  PROVE  AccountInv'
<1>0. AccountFits /\ HandlersFit /\ MailsFit /\ WayIn
  BY AccountInvParts
<1>1. /\ deaths < MaxDeaths /\ deaths' = deaths + 1 /\ Becomes(h, Free)
      /\ UNCHANGED <<account, mail, access, chosen, uses>>
      /\ cut' = (cut \/ handlers[h].pc = "welcome")
  BY DEF Die
<1>2. Grows
  BY <1>1 DEF Grows
<1>3. Free \in HandlerStates /\ Free.pc = "free"
  BY PlainParts DEF Free
<1>4. HandlersFit' /\ Acts(h, Free)
  <2>1. StillSo(Free, account', mail', access')
    BY <1>3 DEF StillSo
  <2> QED BY <1>0, <1>1, <1>2, <1>3, <2>1, HandlerStep DEF Acts
<1>5. AccountFits'
  <2>1. deaths \in 0 .. MaxDeaths /\ MaxDeaths \in Nat
    BY <1>0, AccountConstants DEF AccountFits, AccountConstants
  <2>2. deaths' \in 0 .. MaxDeaths
    BY <1>1, <2>1
  <2>3. cut' \in BOOLEAN
    BY <1>1
  <2> QED BY <1>0, <1>1, <2>2, <2>3 DEF AccountFits
<1>6. MailsFit'
  <2>1. \A m : /\ Bit(Follows(Free, m)) = 0 /\ Bit(Works(Free, m)) = 0
               /\ Bit(Follows(handlers[h], m)) \in {0, 1} /\ Bit(Works(handlers[h], m)) \in {0, 1}
    BY <1>3 DEF Follows, Works, Bit
  <2>2. \A m \in Resets : uses[m] \in Nat /\ uses'[m] = uses[m] /\ deaths \in Int
    BY <1>0, <1>1 DEF AccountFits
  <2>3. UNCHANGED mail /\ deaths' = deaths + 1
    BY <1>1
  <2> QED BY <1>0, <1>4, <1>5, <2>1, <2>2, <2>3, MailsFitStep
<1>7. WayIn'
  <2>1. (cut => cut') /\ (handlers[h].pc = "welcome" => cut')
    BY <1>1
  <2>2. account = Absent => account' = Absent
    BY <1>1
  <2> QED BY <1>0, <1>1, <1>4, <2>1, <2>2, WayInStep
<1> QED BY <1>4, <1>5, <1>6, <1>7 DEF AccountInv, AccountTypeOK, AccountFits, HandlersFit,
                                      SettingsKept

LEMMA SendVerificationStep ==
  ASSUME AccountInv, NEW h \in Handlers,
         SendVerificationEmail(h) \/ \E m \in Mails : SendPasswordResetEmail(h, m)
  PROVE  AccountInv'
BY SendStep, MailFacts DEF SendVerificationEmail, SendPasswordResetEmail

LEMMA AccountInvStep == AccountInv /\ [AccountNext]_accountVars => AccountInv'
<1> SUFFICES ASSUME AccountInv, [AccountNext]_accountVars PROVE AccountInv'
  OBVIOUS
<1>1. CASE UNCHANGED accountVars
  BY <1>1, NobodyStep DEF accountVars, AccountInv, AccountTypeOK, SettingsKept, WayIn
<1>2. ASSUME NEW h \in Handlers,
             \/ SendVerificationEmail(h) \/ \E m \in Mails : SendPasswordResetEmail(h, m)
             \/ RequestPasswordReset(h) \/ Verify(h) \/ DeleteToken(h)
             \/ \E m \in Mails : Follow(h, m)
             \/ \E s \in Secrets : Register(h, s) \/ ConfirmPasswordReset(h, s)
      PROVE  AccountInv'
  BY <1>2, SendVerificationStep, RemindStep, VerifyStep, ConfirmStep, DeleteTokenStep,
     FollowStep, RegisterStep
<1>3. ASSUME NEW h \in Handlers,
             \/ GoogleAuth(h) \/ CreateNewUserFromOauth(h) \/ UpdateExistingUserFromOauth(h)
             \/ Authenticated(h) \/ CurrentUser(h) \/ Die(h)
      PROVE  AccountInv'
  BY <1>3, ReadRowStep, GoogleStep, CurrentUserStep, DieStep
<1>4. CASE (\E s \in Secrets : Login(s)) \/ (\E m \in Mails : Expire(m)) \/ HandleTokens
  BY <1>4, LoginStep, EndStep
<1> QED BY <1>1, <1>2, <1>3, <1>4 DEF AccountNext

THEOREM AccountInvariant == AccountSpec => []AccountInv
BY AccountInvInit, AccountInvStep, PTL DEF AccountSpec

(***************************************************************************)
(* The account of an address is as it was last set, whatever rows requests    *)
(* have read before; and whoever has registered can verify the address        *)
(* (auth_views.py).                                                        *)
(***************************************************************************)
THEOREM AccountIsKept == AccountSpec => []AccountKept
<1>1. AccountInv => AccountKept
  BY DEF AccountInv, AccountKept
<1> QED BY <1>1, AccountInvariant, PTL

(***************************************************************************)
(* A mailed link resets the password at most once for each request that is    *)
(* handled at a time and each that is cut off, however many mails and requests *)
(* there are (auth_views.py, confirm_password_reset): once, if there is one    *)
(* handler and it never dies.                                              *)
(***************************************************************************)
THEOREM MailsAreUsed == AccountSpec => []MailUses
<1>1. AccountInv => MailUses
  <2>1. \A m : Cardinality(Following(m)) \in Nat
    BY RequestsCount
  <2>2. Cardinality(Handlers) \in Nat
    BY HandlersFinite, FS_CardinalityType
  <2>3. AccountInv => MailsFit /\ uses \in [Resets -> Nat] /\ deaths \in Int
    BY DEF AccountInv, AccountTypeOK
  <2> QED BY <2>1, <2>2, <2>3 DEF MailsFit, MailUses
<1> QED BY <1>1, AccountInvariant, PTL

(***************************************************************************)
(* The rows of a user together.  A step of one component leaves the others.   *)
(***************************************************************************)
LEMMA RowsParts == RowsSpec => TokenSpec /\ UserSpec /\ AccountSpec
<1>1. RowsInit => TokenInit /\ UserInit /\ AccountInit
  BY DEF RowsInit
<1>2. [RowsNext]_<<tokenVars, userVars, accountVars, focus>>
        => [TokenNext]_tokenVars /\ [UserNext]_userVars /\ [AccountNext]_accountVars
  BY DEF RowsNext
<1> QED BY <1>1, <1>2, PTL DEF RowsSpec, TokenSpec, UserSpec, AccountSpec

\* Each of the rows has its types.
THEOREM RowsTypeCorrect == RowsSpec => []RowsTypeOK
<1>1. TokenTypeOK /\ UserInv /\ AccountInv => RowsTypeOK
  BY DEF UserInv, AccountInv, RowsTypeOK
<1> QED BY <1>1, RowsParts, TokenTypeCorrect, UserInvariant, AccountInvariant, PTL
==============================================================================
