----------------------------- MODULE UserContext -----------------------------
(***************************************************************************)
(* The row of a user, the memories kept of her sessions, and the background  *)
(* paragraph that an LLM writes from her profile and her memories and that    *)
(* is put into the row (user_background.py).  A change of the profile or of   *)
(* a memory clears the background; the next run that wants it, or the         *)
(* watchdog, generates it anew.  All of it is read before a call of an LLM    *)
(* that may take minutes, and written after it:                              *)
(*   generators load the row, gather the memories, and store the paragraph;   *)
(*   keepers store what the LLM finds in sessions (memory_generation), and    *)
(*     replace all memories by a compression of them, or by an import;        *)
(*   patches of the user save the whole row they read when they were          *)
(*     authenticated.                                                        *)
(***************************************************************************)
EXTENDS Integers, FiniteSets

CONSTANTS
  Generators, Keepers, Patches,   \* processes
  Profiles,      \* profile contexts; "" is one
  Facts,         \* what a memory can say
  None           \* no background: ""

(* A background, with what it was written from.  late (history): some of that    *)
(* has changed since it was read.                                           *)
Backgrounds == [profile : Profiles, facts : SUBSET Facts, late : BOOLEAN]

ASSUME UserConstants ==
  /\ "" \in Profiles /\ "profile" \notin Facts /\ None \notin Backgrounds
  /\ Generators \cap Keepers = {} /\ Generators \cap Patches = {} /\ Keepers \cap Patches = {}

VARIABLES
  user,       \* the User row: profile_context, llm_generated_background
  memories,   \* what the MemoryEntry rows say
  threads,
  stored      \* history: the facts as they were last stored or deleted, or set
              \* back by a late replacement

userVars == <<user, memories, threads, stored>>

Threads == Generators \cup Keepers \cup Patches

Resting == [pc |-> "idle"]

(* The user has registered.  *)
UserInit ==
  /\ \E c \in Profiles : user = [profile |-> c, background |-> None]
  /\ memories = {} /\ stored = {}
  /\ threads = [t \in Threads |-> Resting]

-----------------------------------------------------------------------------
(* What a background was written from has changed.                            *)
Late(background) ==
  IF background = None THEN None ELSE [background EXCEPT !.late = TRUE]

(* A thread at work misses a change: what it has read is behind (history).      *)
Behind(k, change) ==
  CASE k.pc = "idle" -> k
    [] k.pc = "loaded" -> [k EXCEPT !.late = @ \/ "profile" \in change]
    [] k.pc = "gathered" -> IF change = {} THEN k ELSE [k EXCEPT !.background = Late(@)]
    [] k.pc = "patch" -> IF change = {} THEN k ELSE [k EXCEPT !.row.background = Late(@)]
    [] OTHER -> [k EXCEPT !.missed = @ \cup (change \cap Facts)]

Missing(change) == [t \in Threads |-> Behind(threads[t], change)]

(* get_effective_user_background, or the watchdog's run over all users: the    *)
(* row is loaded, and its background is empty.                              *)
LoadUser(g) ==
  /\ g \in Generators /\ threads[g].pc = "idle" /\ user.background = None
  /\ threads' = [threads EXCEPT ![g] =
       [pc |-> "loaded", profile |-> user.profile, late |-> FALSE]]
  /\ UNCHANGED <<user, memories, stored>>

(* generate_user_background: with nothing to go by there is no background.     *)
Gather(g) ==
  LET k == threads[g] IN
  /\ k.pc = "loaded"
  /\ threads' = [threads EXCEPT ![g] =
       IF k.profile = "" /\ memories = {} THEN Resting
       ELSE [pc |-> "gathered", background |->
               [profile |-> k.profile, facts |-> memories, late |-> k.late]]]
  /\ UNCHANGED <<user, memories, stored>>

(* The LLM's paragraph is stored, whatever has happened since                 *)
Generated(g) ==
  /\ threads[g].pc = "gathered"
  /\ user' = [user EXCEPT !.background = threads[g].background]
  /\ threads' = [threads EXCEPT ![g] = Resting]
  /\ UNCHANGED <<memories, stored>>

(* or the call fails, or the paragraph is empty *)
Failed(g) ==
  /\ threads[g].pc = "gathered"
  /\ threads' = [threads EXCEPT ![g] = Resting]
  /\ UNCHANGED <<user, memories, stored>>

-----------------------------------------------------------------------------
(* Memories                                                                *)

(* bulk_create sends no signal: the background stays, and is late            *)
Unsignalled == [user EXCEPT !.background = Late(@)]

(* Variant: the signal is not handled *)
StillThere == user

(* _on_memory_entry_change *)
Cleared == [user EXCEPT !.background = None]

(* _extract_memories_from_batch stores a new memory.  If there are more than    *)
(* memory_max_entries then, all of them are to be compressed.                *)
Extract(k, f) ==
  /\ k \in Keepers /\ threads[k].pc = "idle" /\ f \in Facts \ memories
  /\ memories' = memories \cup {f} /\ user' = Unsignalled
  /\ stored' = stored \cup {f}
  /\ \/ threads' = Missing({f})
     \/ threads' = [Missing({f}) EXCEPT ![k] =
          [pc |-> "compress", seen |-> memories', missed |-> {}]]

(* import_memories: the LLM merges what a text of the user says with them      *)
Import(k) ==
  /\ k \in Keepers /\ threads[k].pc = "idle"
  /\ threads' = [threads EXCEPT ![k] =
       [pc |-> "import", seen |-> memories, missed |-> {}]]
  /\ UNCHANGED <<user, memories, stored>>

(* Variant: an empty answer replaces them as well *)
AnyAnswer(answer) == TRUE

Usable(answer) == answer # {}

(* The memories are replaced by the answer, in one transaction: the rows that   *)
(* are deleted send the signal, the new ones do not.                        *)
Replace(answer) ==
  IF Usable(answer)
  THEN /\ memories' = answer
       /\ user' = IF memories = {} THEN Unsignalled ELSE Cleared
  ELSE UNCHANGED <<memories, user>>

(* what was stored or deleted since they were read is set back (history)       *)
SetBack(missed, answer) ==
  IF answer = {} THEN stored ELSE (stored \ missed) \cup (missed \cap answer)

Altered == (memories' \ memories) \cup (memories \ memories')

Compressed(k, answer) ==
  LET t == threads[k] IN
  /\ t.pc = "compress" /\ answer \in {{}, t.seen}
  /\ Replace(answer)
  /\ stored' = SetBack(t.missed, answer)
  /\ threads' = [Missing(Altered) EXCEPT ![k] = Resting]

Imported(k, f, answer) ==
  LET t == threads[k] IN
  /\ t.pc = "import" /\ answer \in {{}, t.seen \cup {f}}
  /\ Replace(answer)
  /\ stored' = SetBack(t.missed \cup {f}, answer)
  /\ threads' = [Missing(Altered) EXCEPT ![k] = Resting]

(* delete_memory *)
Forget(f) ==
  /\ f \in memories
  /\ memories' = memories \ {f} /\ user' = Cleared
  /\ stored' = stored \ {f}
  /\ threads' = Missing({f})

-----------------------------------------------------------------------------
(* The row                                                                 *)

(* PATCH /me: request.user is loaded *)
Authenticate(p) ==
  /\ p \in Patches /\ threads[p].pc = "idle"
  /\ threads' = [threads EXCEPT ![p] = [pc |-> "patch", row |-> user]]
  /\ UNCHANGED <<user, memories, stored>>

(* _on_user_pre_save *)
PreSave(row) ==
  IF row.profile # user.profile THEN [row EXCEPT !.background = None] ELSE row

(* serializer.save() writes all columns, with or without a new profile.        *)
PatchUser(p, profile) ==
  LET k == threads[p] IN
  /\ k.pc = "patch"
  /\ user' = PreSave([k.row EXCEPT !.profile = profile])
  /\ threads' = [Missing({c \in {"profile"} : user'[c] # user[c]}) EXCEPT ![p] = Resting]
  /\ UNCHANGED <<memories, stored>>

UserNext ==
  \/ \E g \in Generators : LoadUser(g) \/ Gather(g) \/ Generated(g) \/ Failed(g)
  \/ \E k \in Keepers :
       \/ Import(k)
       \/ \E answer \in SUBSET Facts : Compressed(k, answer)
       \/ \E f \in Facts : Extract(k, f) \/ \E answer \in SUBSET Facts : Imported(k, f, answer)
  \/ \E f \in Facts : Forget(f)
  \/ \E p \in Patches : Authenticate(p) \/ \E c \in Profiles : PatchUser(p, c)

UserSpec == UserInit /\ [][UserNext]_userVars

-----------------------------------------------------------------------------
(* Properties                                                              *)

UserRows == [profile : Profiles, background : Backgrounds \cup {None}]

ThreadStates ==
  {Resting} \cup
  [pc : {"loaded"}, profile : Profiles, late : BOOLEAN] \cup
  [pc : {"gathered"}, background : Backgrounds] \cup
  [pc : {"compress", "import"}, seen : SUBSET Facts, missed : SUBSET Facts] \cup
  [pc : {"patch"}, row : UserRows]

UserTypeOK ==
  /\ user \in UserRows
  /\ memories \subseteq Facts /\ stored \subseteq Facts
  /\ threads \in [Threads -> ThreadStates]
  /\ \A g \in Generators : threads[g].pc \in {"idle", "loaded", "gathered"}
  /\ \A k \in Keepers : threads[k].pc \in {"idle", "compress", "import"}
  /\ \A p \in Patches : threads[p].pc \in {"idle", "patch"}

(* The background in the row says what the user's profile and memories say,    *)
(* unless they changed between being read for it and its being stored, it was  *)
(* set back by a patch that had read it before a change, or memories were       *)
(* stored that nothing signalled (bulk_create), with none before deleted.       *)
BackgroundCurrent ==
  user.background # None /\ ~ user.background.late =>
    /\ user.background.profile = user.profile
    /\ user.background.facts = memories

(* What was stored is remembered and what the user deleted is forgotten, unless *)
(* it was stored or deleted while the LLM was at work on a compression or an    *)
(* import: no answer of it, and none that is empty, loses another memory or     *)
(* brings another back.                                                      *)
MemoriesKept == memories = stored
=============================================================================
