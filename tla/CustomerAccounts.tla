--------------------------- MODULE CustomerAccounts ---------------------------
(***************************************************************************)
(* The account of one customer: registration, verification of the e-mail   *)
(* address, sign-in and recovery of the password.                          *)
(*                                                                         *)
(* Each handler runs on a worker thread: it loads the row, decides, spends *)
(* a while on a hash, commits the columns it changed, and sends its mail   *)
(* afterwards.  Handlers interleave between these steps, a handler may be  *)
(* lost after any of them, and mail may not arrive.                        *)
(***************************************************************************)
EXTENDS Integers, Sequences

CONSTANTS
  Sessions,    \* worker threads
  ResendWait,  \* five minutes
  LinkLife,    \* 24 hours
  MaxTime,     \* bound: time that passes
  MaxSecrets   \* bound: links and codes that are generated

AccountsAssumption ==
  /\ ResendWait \in Nat /\ LinkLife \in Nat
  /\ MaxTime \in Nat /\ MaxSecrets \in Nat

Kinds == {"register", "verify", "resend", "request", "confirm"}

VARIABLES
  clock,
  exists,    \* the row is there
  verified,  \* email_verified
  link,      \* email_verification_token, 0 for none
  linkAt,    \* email_verification_sent_at
  code,      \* the code password_reset_token is the hash of, 0 for none
  codeAt,    \* password_reset_sent_at, 0 for none
  password,  \* the code the password was set with, 0 for the first one
  step,      \* step[s]: "idle", "loaded" or "mailing"
  kind,      \* kind[s]: the handler of the session, "none" when idle
  secret,    \* secret[s]: the link or code it was given or has generated
  copy,      \* copy[s]: email_verified in its copy of the row
  born,      \* born[n]: when secret n was written to the row, 0 if it was not
  mailed,    \* secrets that arrived by mail
  accepted,  \* registrations answered with 201
  usedAge,   \* the age of the link that verified the address
  spent,     \* codes that set a password
  signedIn   \* the customer was given session cookies

row == <<exists, verified, link, linkAt, code, codeAt, password>>
session == <<step, kind, secret, copy>>
history == <<born, mailed, accepted, usedAge, spent, signedIn>>
vars == <<clock, row, session, history>>

Secrets == 1 .. MaxSecrets

TypeOK ==
  /\ clock \in 1 .. MaxTime + 1
  /\ exists \in BOOLEAN /\ verified \in BOOLEAN
  /\ link \in {0} \cup Secrets /\ linkAt \in 0 .. MaxTime + 1
  /\ code \in {0} \cup Secrets /\ codeAt \in 0 .. MaxTime + 1
  /\ password \in {0} \cup Secrets
  /\ step \in [Sessions -> {"idle", "loaded", "mailing"}]
  /\ kind \in [Sessions -> Kinds \cup {"none"}]
  /\ secret \in [Sessions -> {0} \cup Secrets]
  /\ copy \in [Sessions -> BOOLEAN]
  /\ born \in Seq(0 .. MaxTime + 1) /\ Len(born) <= MaxSecrets
  /\ mailed \subseteq Secrets /\ spent \subseteq Secrets
  /\ accepted \in Nat /\ usedAge \in Nat
  /\ signedIn \in BOOLEAN

Init ==
  /\ clock = 1
  /\ exists = FALSE /\ verified = FALSE
  /\ link = 0 /\ linkAt = 0 /\ code = 0 /\ codeAt = 0 /\ password = 0
  /\ step = [s \in Sessions |-> "idle"]
  /\ kind = [s \in Sessions |-> "none"]
  /\ secret = [s \in Sessions |-> 0]
  /\ copy = [s \in Sessions |-> FALSE]
  /\ born = <<>> /\ mailed = {} /\ accepted = 0 /\ usedAge = 0
  /\ spent = {} /\ signedIn = FALSE

Tick ==
  /\ clock <= MaxTime
  /\ clock' = clock + 1
  /\ UNCHANGED <<row, session, history>>

-----------------------------------------------------------------------------
(* What the handlers have in common.                                       *)

\* The row is loaded, and what the handler decides on it holds.
Load(s, k, n) ==
  /\ step' = [step EXCEPT ![s] = "loaded"]
  /\ kind' = [kind EXCEPT ![s] = k]
  /\ secret' = [secret EXCEPT ![s] = n]
  /\ copy' = [copy EXCEPT ![s] = verified]

\* secrets.token_urlsafe and secrets.token_hex.
Generate(s, k) ==
  /\ Len(born) < MaxSecrets
  /\ born' = Append(born, 0)
  /\ Load(s, k, Len(born) + 1)

Committing(s, k) == step[s] = "loaded" /\ kind[s] = k

Leave(s) ==
  /\ step' = [step EXCEPT ![s] = "idle"]
  /\ kind' = [kind EXCEPT ![s] = "none"]
  /\ secret' = [secret EXCEPT ![s] = 0]
  /\ copy' = [copy EXCEPT ![s] = FALSE]

\* The mail is sent when the secret is committed.
ThenMail(s) ==
  /\ step' = [step EXCEPT ![s] = "mailing"]
  /\ born' = [born EXCEPT ![secret[s]] = clock]
  /\ UNCHANGED <<kind, secret, copy>>

Mail(s) ==
  /\ step[s] = "mailing"
  /\ mailed' \in {mailed, mailed \cup {secret[s]}}
  /\ Leave(s)
  /\ UNCHANGED <<clock, row, born, accepted, usedAge, spent, signedIn>>

\* The handler raises or the process dies.
Fail(s) ==
  /\ step[s] = "loaded"
  /\ Leave(s)
  /\ UNCHANGED <<clock, row, history>>

\* Faulty variant of VerifiedWritten: the whole copy of the row is written.
VerifiedOfCopy(s) == copy[s]

\* A handler that does not touch email_verified leaves it as it is.
VerifiedWritten(s) == verified

-----------------------------------------------------------------------------
(* register, verify_email, resend_verification, login.                     *)

Register(s) ==
  /\ step[s] = "idle"
  /\ ~exists
  /\ Generate(s, "register")
  /\ UNCHANGED <<clock, row, mailed, accepted, usedAge, spent, signedIn>>

\* Faulty variant of Duplicate: the database has no unique index.
DuplicateAllowed == FALSE

\* The unique indexes on cpf_cnpj and email.
Duplicate == exists

\* The later one of two registrations is answered with 400.
RegisterCommit(s) ==
  /\ Committing(s, "register")
  /\ IF Duplicate
     THEN /\ Leave(s)
          /\ UNCHANGED <<row, born, accepted>>
     ELSE /\ exists' = TRUE
          /\ verified' = FALSE
          /\ link' = secret[s] /\ linkAt' = clock
          /\ code' = 0 /\ codeAt' = 0 /\ password' = 0
          /\ accepted' = accepted + 1
          /\ ThenMail(s)
  /\ UNCHANGED <<clock, mailed, usedAge, spent, signedIn>>

VerifyEmail(s, n) ==
  /\ step[s] = "idle"
  /\ n \in mailed
  /\ link = n
  /\ clock - linkAt <= LinkLife
  /\ Load(s, "verify", n)
  /\ usedAge' = IF verified THEN usedAge ELSE clock - born[n]
  /\ UNCHANGED <<clock, row, born, mailed, accepted, spent, signedIn>>

VerifyCommit(s) ==
  /\ Committing(s, "verify")
  /\ verified' = TRUE
  /\ link' = 0
  /\ signedIn' = TRUE
  /\ Leave(s)
  /\ UNCHANGED <<clock, exists, linkAt, code, codeAt, password,
                 born, mailed, accepted, usedAge, spent>>

Resend(s) ==
  /\ step[s] = "idle"
  /\ exists /\ ~verified
  /\ clock - linkAt >= ResendWait
  /\ Generate(s, "resend")
  /\ UNCHANGED <<clock, row, mailed, accepted, usedAge, spent, signedIn>>

\* Faulty variant of NewLink: the link of before is sent with a new date.
SameLink(s) == IF link = 0 THEN secret[s] ELSE link

NewLink(s) == secret[s]

ResendCommit(s) ==
  /\ Committing(s, "resend")
  /\ link' = NewLink(s) /\ linkAt' = clock
  /\ verified' = VerifiedWritten(s)
  /\ ThenMail(s)
  /\ UNCHANGED <<clock, exists, code, codeAt, password,
                 mailed, accepted, usedAge, spent, signedIn>>

\* With the password, or with the cookie of an earlier session (refresh_token):
\* both ask for a verified address.
Login ==
  /\ exists /\ verified
  /\ signedIn' = TRUE
  /\ UNCHANGED <<clock, row, session, born, mailed, accepted, usedAge, spent>>

logout ==
  /\ signedIn' = FALSE
  /\ UNCHANGED <<clock, row, session, born, mailed, accepted, usedAge, spent>>

-----------------------------------------------------------------------------
(* request_password_reset, confirm_password_reset.                         *)

RequestReset(s) ==
  /\ step[s] = "idle"
  /\ exists
  /\ codeAt # 0 => clock - codeAt >= ResendWait
  /\ Generate(s, "request")
  /\ UNCHANGED <<clock, row, mailed, accepted, usedAge, spent, signedIn>>

RequestCommit(s) ==
  /\ Committing(s, "request")
  /\ code' = secret[s] /\ codeAt' = clock
  /\ verified' = VerifiedWritten(s)
  /\ ThenMail(s)
  /\ UNCHANGED <<clock, exists, link, linkAt, password,
                 mailed, accepted, usedAge, spent, signedIn>>

\* The hash a code is compared with is that of the row as it was loaded.  The
\* first step of the form, validate_recovery_code, compares and changes nothing.
ConfirmReset(s, n) ==
  /\ step[s] = "idle"
  /\ n \in mailed
  /\ code = n
  /\ Load(s, "confirm", n)
  /\ UNCHANGED <<clock, row, history>>

\* Faulty variant of CodeLeft: the code stays in the row.
CodeKept(s) == code

CodeLeft(s) == 0

ConfirmCommit(s) ==
  /\ Committing(s, "confirm")
  /\ password' = secret[s]
  /\ code' = CodeLeft(s) /\ codeAt' = 0
  /\ verified' = VerifiedWritten(s)
  /\ spent' = spent \cup {secret[s]}
  /\ Leave(s)
  /\ UNCHANGED <<clock, exists, link, linkAt,
                 born, mailed, accepted, usedAge, signedIn>>

-----------------------------------------------------------------------------
Next ==
  \/ Tick \/ Login \/ logout
  \/ \E s \in Sessions :
       \/ Register(s) \/ RegisterCommit(s)
       \/ VerifyCommit(s)
       \/ Resend(s) \/ ResendCommit(s)
       \/ RequestReset(s) \/ RequestCommit(s)
       \/ ConfirmCommit(s)
       \/ Mail(s) \/ Fail(s)
       \/ \E n \in Secrets : VerifyEmail(s, n) \/ ConfirmReset(s, n)

Spec == Init /\ [][Next]_vars

-----------------------------------------------------------------------------
(* Properties.                                                             *)

\* Whoever is signed in has a verified address, whatever the handlers that
\* loaded the row before the verification write after it.
SignedInIsVerified == signedIn => verified

\* Registering twice at once gives one account, and one answer that says so.
OneAccount == accepted <= 1

\* The link that verified the address was not older than its life, however
\* often links were sent again meanwhile.
VerifiedInTime == verified => usedAge <= LinkLife

\* Once a code has set a password, no confirmation that compares it from then on
\* is let through: no handler that loaded the row before brings the code back.
\* Two that compared it before either committed both set a password, against
\* the "single-use" of the docstring.
SpentIsRefused ==
  [][\A s \in Sessions :
       step[s] = "idle" /\ step'[s] = "loaded" /\ kind'[s] = "confirm"
         => secret'[s] \notin spent]_vars
=============================================================================
