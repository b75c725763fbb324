------------------------------ MODULE Accounts ------------------------------
(***************************************************************************)
(* The account of one e-mail address: its password, whether the address is    *)
(* verified, and the tokens that are mailed to it (VerificationToken), one to  *)
(* verify the address and others to reset the password.  The requests of      *)
(* auth_views.py, several at a time, read a row in one statement and write it  *)
(* in another: registering, following a mailed link, asking for a reset,       *)
(* signing in with Google, and changing other settings.  A change of settings  *)
(* writes all columns of the row as it was when the request was authenticated.*)
(*                                                                         *)
(* Signing in with a password is one step, since it reads the row once.  An    *)
(* access token is good without the row, and never runs out here.             *)
(***************************************************************************)
EXTENDS Integers, FiniteSets

CONSTANTS
  Handlers,     \* requests that are handled at a time
  Secrets,      \* passwords
  Absent,       \* no row
  MaxResets,    \* bound on mails that reset the password
  MaxDeaths     \* bound on requests that are cut off

Rows == [password : Secrets \cup {"unusable"}, verified : BOOLEAN]

ASSUME AccountConstants ==
  /\ IsFiniteSet(Handlers) /\ MaxResets \in Nat /\ MaxDeaths \in Nat
  /\ "unusable" \notin Secrets /\ Absent \notin Rows

VARIABLES
  account,    \* the row of the user
  mail,       \* the VerificationToken rows
  handlers,
  access,     \* somebody has an access token of the account
  chosen,     \* history: the account as it was last set, or its password set
              \* back by a change of settings
  uses,       \* history: how often each mail has reset the password
  deaths,
  cut         \* history: a registration was cut off

accountVars == <<account, mail, handlers, access, chosen, uses, deaths, cut>>

(* one mail to verify, the others to reset *)
Verification == 0
Resets == 1 .. MaxResets
Mails  == {Verification} \cup Resets

Present == {"valid", "expired"}   \* the row is there
MailPcs == {"unsent", "purged", "deleted"} \cup Present

Free == [pc |-> "free"]

AccountInit ==
  /\ account = Absent /\ mail = [m \in Mails |-> "unsent"]
  /\ handlers = [h \in Handlers |-> Free] /\ access = FALSE
  /\ chosen = Absent /\ uses = [m \in Resets |-> 0] /\ deaths = 0 /\ cut = FALSE

Becomes(h, k) == handlers' = [handlers EXCEPT ![h] = k]

-----------------------------------------------------------------------------
(* Registering: the row, then the token *)

Register(h, secret) ==
  /\ handlers[h].pc = "free" /\ account = Absent
  /\ account' = [password |-> secret, verified |-> FALSE] /\ chosen' = account'
  /\ Becomes(h, [pc |-> "welcome"])
  /\ UNCHANGED <<mail, access, uses, deaths, cut>>

SendVerificationEmail(h) ==
  /\ handlers[h].pc = "welcome"
  /\ mail' = [mail EXCEPT ![Verification] = "valid"]
  /\ Becomes(h, Free)
  /\ UNCHANGED <<account, access, chosen, uses, deaths, cut>>

-----------------------------------------------------------------------------
(* Asking for a reset: the tokens there are go, then there is a new one *)

Superseded == [m \in Mails |-> IF m \in Resets /\ mail[m] \in Present THEN "deleted" ELSE mail[m]]

RequestPasswordReset(h) ==
  /\ handlers[h].pc = "free" /\ account # Absent
  /\ mail' = Superseded
  /\ Becomes(h, [pc |-> "remind"])
  /\ UNCHANGED <<account, access, chosen, uses, deaths, cut>>

SendPasswordResetEmail(h, m) ==
  /\ handlers[h].pc = "remind" /\ m \in Resets /\ mail[m] = "unsent"
  /\ mail' = [mail EXCEPT ![m] = "valid"]
  /\ Becomes(h, Free)
  /\ UNCHANGED <<account, access, chosen, uses, deaths, cut>>

-----------------------------------------------------------------------------
(* Following a mailed link: the token is read, the user's row written, and    *)
(* the token deleted.  One that has expired is deleted at once.              *)

Follow(h, m) ==
  /\ handlers[h].pc = "free" /\ mail[m] \in Present
  /\ IF mail[m] = "expired"
     THEN mail' = [mail EXCEPT ![m] = "purged"] /\ UNCHANGED handlers
     ELSE Becomes(h, [pc |-> "follow", mail |-> m]) /\ UNCHANGED mail
  /\ UNCHANGED <<account, access, chosen, uses, deaths, cut>>

(* verify_email *)
Verify(h) ==
  /\ handlers[h].pc = "follow" /\ handlers[h].mail = Verification
  /\ account' = [account EXCEPT !.verified = TRUE]
  /\ chosen' = [chosen EXCEPT !.verified = TRUE]
  /\ Becomes(h, [handlers[h] EXCEPT !.pc = "delete"])
  /\ UNCHANGED <<mail, access, uses, deaths, cut>>

(* Variant: update_fields lacks "password" *)
SaveOthers(secret) == [account EXCEPT !.verified = TRUE]

SaveFields(secret) == [account EXCEPT !.password = secret, !.verified = TRUE]

(* confirm_password_reset *)
ConfirmPasswordReset(h, secret) ==
  /\ handlers[h].pc = "follow" /\ handlers[h].mail \in Resets
  /\ account' = SaveFields(secret)
  /\ chosen' = [password |-> secret, verified |-> TRUE]
  /\ uses' = [uses EXCEPT ![handlers[h].mail] = @ + 1]
  /\ Becomes(h, [handlers[h] EXCEPT !.pc = "delete"])
  /\ UNCHANGED <<mail, access, deaths, cut>>

(* Variant: the token is left to its expiry *)
KeepToken(h) ==
  /\ handlers[h].pc = "delete"
  /\ Becomes(h, Free)
  /\ UNCHANGED <<account, mail, access, chosen, uses, deaths, cut>>

DeleteToken(h) ==
  /\ handlers[h].pc = "delete"
  /\ mail' = [mail EXCEPT ![handlers[h].mail] = IF @ \in Present THEN "deleted" ELSE @]
  /\ Becomes(h, Free)
  /\ UNCHANGED <<account, access, chosen, uses, deaths, cut>>

(* the watchdog deletes what has expired *)
Expire(m) ==
  /\ mail[m] = "valid" /\ mail' = [mail EXCEPT ![m] = "expired"]
  /\ UNCHANGED <<account, handlers, access, chosen, uses, deaths, cut>>

HandleTokens ==
  /\ \E m \in Mails : mail[m] = "expired"
  /\ mail' = [m \in Mails |-> IF mail[m] = "expired" THEN "purged" ELSE mail[m]]
  /\ UNCHANGED <<account, handlers, access, chosen, uses, deaths, cut>>

-----------------------------------------------------------------------------
(* Signing in *)

Login(secret) ==
  /\ account # Absent /\ account.password = secret /\ account.verified
  /\ access' = TRUE
  /\ UNCHANGED <<account, mail, handlers, chosen, uses, deaths, cut>>

(* google_auth looks for the row, *)
GoogleAuth(h) ==
  /\ handlers[h].pc = "free"
  /\ Becomes(h, [pc |-> "google", row |-> account])
  /\ UNCHANGED <<account, mail, access, chosen, uses, deaths, cut>>

(* and creates it (an error, if somebody else has done so meanwhile) *)
CreateNewUserFromOauth(h) ==
  /\ handlers[h].pc = "google" /\ handlers[h].row = Absent
  /\ IF account = Absent
     THEN /\ account' = [password |-> "unusable", verified |-> TRUE]
          /\ chosen' = account' /\ access' = TRUE
     ELSE UNCHANGED <<account, chosen, access>>
  /\ Becomes(h, Free)
  /\ UNCHANGED <<mail, uses, deaths, cut>>

(* or writes the columns that are not as they should be in what it has read. *)
FromGoogle(k, row) ==
  [password |-> IF k.row.password # "unusable" THEN "unusable" ELSE row.password,
   verified |-> ~k.row.verified \/ row.verified]

UpdateExistingUserFromOauth(h) ==
  LET k == handlers[h] IN
  /\ k.pc = "google" /\ k.row # Absent
  /\ account' = FromGoogle(k, account) /\ chosen' = FromGoogle(k, chosen)
  /\ access' = TRUE
  /\ Becomes(h, Free)
  /\ UNCHANGED <<mail, uses, deaths, cut>>

-----------------------------------------------------------------------------
(* Changing settings: the row is read when the request is authenticated *)

Authenticated(h) ==
  /\ handlers[h].pc = "free" /\ access
  /\ Becomes(h, [pc |-> "patch", row |-> account])
  /\ UNCHANGED <<account, mail, access, chosen, uses, deaths, cut>>

CurrentUser(h) ==
  LET row == handlers[h].row IN
  /\ handlers[h].pc = "patch"
  /\ account' = row
  /\ chosen' = [chosen EXCEPT !.password = IF row.password # account.password
                                           THEN row.password ELSE @]
  /\ Becomes(h, Free)
  /\ UNCHANGED <<mail, access, uses, deaths, cut>>

(* a process dies while it handles a request *)
Die(h) ==
  /\ handlers[h].pc # "free" /\ deaths < MaxDeaths
  /\ deaths' = deaths + 1
  /\ cut' = (cut \/ handlers[h].pc = "welcome")
  /\ Becomes(h, Free)
  /\ UNCHANGED <<account, mail, access, chosen, uses>>

AccountNext ==
  \/ \E h \in Handlers :
       \/ SendVerificationEmail(h) \/ RequestPasswordReset(h) \/ Verify(h) \/ DeleteToken(h)
       \/ GoogleAuth(h) \/ CreateNewUserFromOauth(h) \/ UpdateExistingUserFromOauth(h)
       \/ Authenticated(h) \/ CurrentUser(h) \/ Die(h)
       \/ \E s \in Secrets : Register(h, s) \/ ConfirmPasswordReset(h, s)
       \/ \E m \in Mails : Follow(h, m) \/ SendPasswordResetEmail(h, m)
  \/ \E s \in Secrets : Login(s)
  \/ \E m \in Mails : Expire(m)
  \/ HandleTokens

AccountSpec == AccountInit /\ [][AccountNext]_accountVars

-----------------------------------------------------------------------------
(* Properties                                                              *)

HandlerStates ==
  [pc : {"free", "welcome", "remind"}] \cup
  [pc : {"follow", "delete"}, mail : Mails] \cup
  [pc : {"google", "patch"}, row : Rows \cup {Absent}]

AccountTypeOK ==
  /\ account \in Rows \cup {Absent} /\ chosen \in Rows \cup {Absent}
  /\ mail \in [Mails -> MailPcs]
  /\ handlers \in [Handlers -> HandlerStates] /\ access \in BOOLEAN
  /\ uses \in [Resets -> Nat] /\ deaths \in 0 .. MaxDeaths /\ cut \in BOOLEAN

(* The password is the one that was set last, by registering, a reset or       *)
(* Google, unless a change of settings has written back what it had read       *)
(* before; and an address that was verified stays so, whatever is written      *)
(* back: only somebody who has signed in changes settings.                   *)
SettingsKept == account = chosen

(* Whoever has registered can verify the address: until that is done there is  *)
(* a token for it, unless it has expired or the registration was cut off.     *)
WayIn ==
  account # Absent =>
    \/ account.verified \/ mail[Verification] \in {"valid", "expired", "purged"}
    \/ \E h \in Handlers : handlers[h].pc = "welcome"
    \/ cut

AccountKept == SettingsKept /\ WayIn

(* A mailed link resets the password once for each request that is handled at  *)
(* the time, and once more for each request that is cut off: every request    *)
(* deletes the token when it is through, so that only those that had read it   *)
(* before come after it, and they are no more than the other handlers.  So it  *)
(* works once if requests come one at a time and none is cut off; two that     *)
(* follow it at the same time may both set a password.                       *)
MailUses == \A m \in Resets : uses[m] <= Cardinality(Handlers) + deaths
=============================================================================
