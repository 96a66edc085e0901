------------------------------- MODULE SignIn -------------------------------
(***************************************************************************)
(* Signing in and out: the connect screen, the second factor, the secrets  *)
(* that outlive the program, and the bearers of the server.                *)
(*                                                                         *)
(* The worker handles one command at a time; between two requests of one   *)
(* sign-in the server revokes bearers and changes passwords, and the       *)
(* program may be closed.  A bearer is the number under which the server   *)
(* issued it.  The credential store takes every write.                     *)
(***************************************************************************)
EXTENDS Naturals, Sequences, FiniteSets

CONSTANTS
    Account,      \* account names
    TwoFactor,    \* the accounts with a second factor
    Guest,        \* the nickname of a guest
    None,
    MaxTokens,    \* bearers the server issues
    MaxFaults     \* failed calls, revocations, changed passwords and restarts

VARIABLES
    issued,     \* server: owner and validity of every bearer
    password,   \* server: the password in force
    faults,
    profile,    \* servers.json: the kind of the remembered credential
    secret,     \* credential store: the bearer of a profile
    keyring,    \* keyring: the login password of a profile
    guest,      \* credential store: the bearer of the guest
    selected,   \* selected_profile_identifier
    auto,       \* auto_connect
    screen, connecting,
    job,        \* the sign-in under way
    pending,    \* pending_totp
    session,    \* client, token, login_identifier, guest_session
    rejected    \* history: bearers this program saw rejected

server == <<issued, password>>
store == <<profile, secret, keyring, guest, selected, auto>>
view == <<screen, connecting>>
vars == <<issued, password, faults, profile, secret, keyring, guest, selected, auto, screen,
          connecting, job, pending, session, rejected>>

Who == Account \union {Guest}
Bearer == 1..MaxTokens
Legacy == MaxTokens + 1     \* a password that an older release kept as the secret

NoJob == [step |-> "idle", how |-> None, who |-> None, token |-> 0, typed |-> None, kept |-> FALSE]
NoPending == [job |-> NoJob, code |-> FALSE, passkey |-> FALSE]
NoSession == [who |-> None, token |-> 0]

TypeOK ==
    /\ issued \in Seq([who : Who, live : BOOLEAN]) /\ Len(issued) <= MaxTokens
    /\ secret \in [Account -> 0..Legacy] /\ guest \in 0..MaxTokens
    /\ profile \in [Account -> {"none", "legacy", "bearer"}]
    /\ keyring \in [Account -> {"none", "old", "new"}] /\ selected \in Account \union {None}
    /\ screen \in {"connect", "totp", "connected"} /\ connecting \in BOOLEAN /\ auto \in BOOLEAN
    /\ job.step \in {"idle", "login", "boot", "code", "assert"}
    /\ (screen = "connected") <=> (session # NoSession)

Init ==
    /\ issued = <<>> /\ password = [a \in Account |-> "old"] /\ faults = 0
    /\ profile \in [Account -> {"none", "legacy"}]
    /\ secret = [a \in Account |-> IF profile[a] = "legacy" THEN Legacy ELSE 0]
    /\ keyring = [a \in Account |-> "none"] /\ guest = 0
    /\ selected = None /\ auto = FALSE /\ screen = "connect" /\ connecting = FALSE
    /\ job = NoJob /\ pending = NoPending /\ session = NoSession /\ rejected = {}

-----------------------------------------------------------------------------
(* The server. *)

Fault == faults < MaxFaults /\ faults' = faults + 1
Live(t) == t \in DOMAIN issued /\ issued[t].live
Issue(w) == Append(issued, [who |-> w, live |-> TRUE])
Killed(t) == [issued EXCEPT ![t].live = FALSE]
Free == Len(issued) < MaxTokens

Revoke(t) ==
    /\ Fault /\ Live(t) /\ issued' = Killed(t)
    /\ UNCHANGED <<password, store, view, job, pending, session, rejected>>

PasswordChanges(a) ==
    /\ Fault /\ password[a] = "old" /\ password' = [password EXCEPT ![a] = "new"]
    /\ UNCHANGED <<issued, store, view, job, pending, session, rejected>>

-----------------------------------------------------------------------------
(* What is remembered. *)

\* remembered_profile_credential: a bearer only when the profile marks it as one.
HasBearer(a) == profile[a] = "bearer" /\ secret[a] # 0

\* discard_legacy_profile_secret.
Discarded(a) == IF profile[a] = "legacy" THEN [secret EXCEPT ![a] = 0] ELSE secret

\* A mutant: a rejected bearer stays for the next try.
ForgottenNot(a) == secret

\* forget_remembered_bearer: the mark of the profile stays.
Forgotten(a) == IF profile[a] = "bearer" THEN [secret EXCEPT ![a] = 0] ELSE secret

\* remember_profile, remember_login_password, set_auto_connect.
Remember(a, j) ==
    /\ secret' = [secret EXCEPT ![a] = j.token] /\ profile' = [profile EXCEPT ![a] = "bearer"]
    /\ keyring' = IF j.typed # None THEN [keyring EXCEPT ![a] = j.typed] ELSE keyring
    /\ selected' = a /\ auto' = TRUE /\ UNCHANGED guest

\* remember_guest_bearer.
RememberGuest(t) == guest' = t /\ UNCHANGED <<profile, secret, keyring, selected, auto>>

-----------------------------------------------------------------------------
(* Starting a sign-in. *)

Open == screen = "connect" /\ ~connecting /\ job = NoJob /\ Free

Job(step, how, w) ==
    [step |-> step, how |-> how, who |-> w, token |-> 0, typed |-> None, kept |-> FALSE]
Begin(j) == connecting' = TRUE /\ job' = j /\ UNCHANGED screen

\* handle_connect with what the form holds: the current password, or the old one.
ConnectForm(a, pw) ==
    /\ Open /\ Begin([Job("login", "form", a) EXCEPT !.typed = pw])
    /\ secret' = Discarded(a)
    /\ UNCHANGED <<server, faults, profile, keyring, guest, selected, auto, pending, session,
                   rejected>>

ConnectGuest ==
    /\ Open /\ Begin([Job("login", "guest", Guest) EXCEPT !.token = guest])
    /\ UNCHANGED <<server, faults, store, pending, session, rejected>>

StartWith(how, a) ==
    /\ Open /\ Begin(Job("login", how, a))
    /\ UNCHANGED <<server, faults, store, pending, session, rejected>>

\* A share link names the account; a recovery code and a passkey are asked for on this screen.
ConnectShare(a) == StartWith("share", a)
ConnectRecovery(a) == StartWith("recovery", a)
ConnectPasskey(a) == StartWith("passkey", a)

\* The password of the keyring, when no bearer is usable.
KeptJob(a) == [Job("login", "form", a) EXCEPT !.typed = keyring[a], !.kept = TRUE]

\* handle_connect with the saved profile.
SavedJob(a) ==
    IF HasBearer(a) THEN [Job("boot", "saved", a) EXCEPT !.token = secret[a]] ELSE KeptJob(a)

ConnectSaved(a) ==
    /\ Open
    /\ IF HasBearer(a) \/ keyring[a] # "none" THEN Begin(SavedJob(a))
       ELSE UNCHANGED <<view, job>>
    /\ UNCHANGED <<server, faults, store, pending, session, rejected>>

-----------------------------------------------------------------------------
(* The answers. *)

\* A mutant: the screen is not told that the attempt is over.
IdleUntold == job' = NoJob /\ UNCHANGED connecting

Idle == job' = NoJob /\ connecting' = FALSE

\* finish_connect with an error: the screen stays.
Failed == Idle /\ UNCHANGED <<screen, session, pending>>

\* finish_connect with a challenge: the second factor this platform can run.
Challenge(code, passkey) ==
    /\ job.how = "form" /\ job.who \in TwoFactor /\ job.typed = password[job.who]
    /\ IF code \/ passkey
       THEN Idle /\ screen' = "totp" /\ pending' = [job |-> job, code |-> code, passkey |-> passkey]
       ELSE Idle /\ UNCHANGED <<screen, pending>>
    /\ UNCHANGED <<server, faults, store, session, rejected>>

\* fetch_config or the login request fails, or the server is busy.
LoginUnanswered ==
    /\ job.step = "login" /\ Fault /\ Failed
    /\ UNCHANGED <<server, store, rejected>>

\* LoginError::InvalidCredentials: a kept password is dropped.
WrongPassword ==
    /\ job.step = "login" /\ job.how = "form" /\ job.typed # password[job.who] /\ Failed
    /\ keyring' = IF job.kept THEN [keyring EXCEPT ![job.who] = "none"] ELSE keyring
    /\ UNCHANGED <<server, faults, profile, secret, guest, selected, auto, rejected>>

\* A share token, a recovery code or an assertion is refused, or the prompt is cancelled.
OtherRefused ==
    /\ job.step = "login" /\ job.how \in {"share", "recovery", "passkey"} /\ Failed
    /\ UNCHANGED <<server, faults, store, rejected>>

LoginTaken ==
    /\ job.step = "login" /\ Free
    /\ \/ job.how = "form" /\ job.who \notin TwoFactor /\ job.typed = password[job.who]
       \/ job.how \in {"share", "recovery", "passkey"}
    /\ issued' = Issue(job.who) /\ job' = [job EXCEPT !.step = "boot", !.token = Len(issued')]
    /\ UNCHANGED <<password, faults, store, view, pending, session, rejected>>

ChallengeAsked ==
    /\ job.step = "login" /\ \E code, passkey \in BOOLEAN : Challenge(code, passkey)

HeldByOther == \E t \in DOMAIN issued : issued[t].who = Guest /\ issued[t].live /\ t # job.token

\* login_with_bearer: the nickname of the guest is proved with the previous bearer,
\* which the server replaces.
GuestTaken ==
    /\ job.step = "login" /\ job.how = "guest" /\ Free /\ ~HeldByOther
    /\ issued' = Append(IF Live(job.token) THEN Killed(job.token) ELSE issued,
                        [who |-> Guest, live |-> TRUE])
    /\ job' = [job EXCEPT !.step = "boot", !.token = Len(issued')]
    /\ UNCHANGED <<password, faults, store, view, pending, session, rejected>>

\* anon_collision, or invalid credentials for a bearer that ended meanwhile:
\* stale_guest_bearer drops the bearer that proves nothing.
GuestCollides ==
    /\ job.step = "login" /\ job.how = "guest" /\ Failed
    /\ HeldByOther \/ (job.token \in DOMAIN issued /\ ~Live(job.token))
    /\ guest' = 0
    /\ UNCHANGED <<server, faults, profile, secret, keyring, selected, auto, rejected>>

\* The rest of finish_connect: the worker holds the session and the screen shows it.
Entered == session' = [who |-> job.who, token |-> job.token] /\ screen' = "connected" /\ Idle

\* /boot and /me of a sign-in answer: finish_connect.
Booted ==
    /\ job.step = "boot" /\ Live(job.token)
    /\ IF job.who = Guest THEN RememberGuest(job.token) ELSE Remember(job.who, job)
    /\ Entered
    /\ UNCHANGED <<server, faults, pending, rejected>>

BootUnanswered ==
    /\ job.step = "boot" /\ Fault /\ Failed
    /\ UNCHANGED <<server, store, rejected>>

\* BearerRejected of a saved profile goes on with the kept password; any other sign-in fails.
BearerRejected ==
    /\ job.step = "boot" /\ ~Live(job.token)
    /\ IF job.how = "saved"
       THEN /\ secret' = Forgotten(job.who) /\ rejected' = rejected \union {job.token}
            /\ IF keyring[job.who] # "none"
               THEN job' = KeptJob(job.who) /\ UNCHANGED connecting
               ELSE Idle
       ELSE Idle /\ UNCHANGED <<secret, rejected>>
    /\ UNCHANGED <<server, faults, profile, keyring, guest, selected, auto, screen, pending, session>>

-----------------------------------------------------------------------------
(* The second factor. *)

\* on_totp_verify_requested, on_passkey_second_factor_requested: the worker takes the
\* pending sign-in.  Without one it returns and the screen keeps waiting.
Verify(step) ==
    /\ screen = "totp" /\ ~connecting /\ connecting' = TRUE /\ Free
    /\ job' = IF pending = NoPending THEN job ELSE [pending.job EXCEPT !.step = step]
    /\ UNCHANGED <<server, faults, store, screen, pending, session, rejected>>

VerifyCode == (pending # NoPending => pending.code) /\ Verify("code")
VerifyPasskey == (pending # NoPending => pending.passkey) /\ Verify("assert")

Verified ==
    /\ job.step \in {"code", "assert"} /\ Free
    /\ issued' = Issue(job.who) /\ pending' = NoPending
    /\ job' = [job EXCEPT !.step = "boot", !.token = Len(issued')]
    /\ UNCHANGED <<password, faults, store, view, session, rejected>>

\* A wrong code or a throttle, a ceremony that was not run: the step stays open.
StaysOpen ==
    /\ job.step \in {"code", "assert"} /\ Idle
    /\ UNCHANGED <<server, faults, store, screen, pending, session, rejected>>

\* two_factor_challenge_expired: back to the password.
Expired ==
    /\ job.step = "code" /\ Fault /\ Idle /\ screen' = "connect" /\ pending' = NoPending
    /\ UNCHANGED <<server, store, session, rejected>>

\* A refused assertion is spent; only the code is left.
AssertionRefused ==
    /\ job.step = "assert" /\ Fault /\ Idle
    /\ IF pending.code THEN pending' = [pending EXCEPT !.passkey = FALSE] /\ UNCHANGED screen
       ELSE pending' = NoPending /\ screen' = "connect"
    /\ UNCHANGED <<server, store, session, rejected>>

\* fetch_config fails before the code is sent: finish_connect with the error.
CodeUnanswered ==
    /\ job.step = "code" /\ Fault /\ Idle /\ pending' = NoPending
    /\ UNCHANGED <<server, store, screen, session, rejected>>

\* A mutant: going back keeps the sign-in that waited.
TotpCancelKeeps ==
    /\ screen = "totp" /\ ~connecting /\ screen' = "connect"
    /\ UNCHANGED <<server, faults, store, connecting, job, pending, session, rejected>>

TotpCancel ==
    /\ screen = "totp" /\ ~connecting /\ screen' = "connect" /\ pending' = NoPending
    /\ UNCHANGED <<server, faults, store, connecting, job, session, rejected>>

-----------------------------------------------------------------------------
(* The end of a session. *)

SignedOut == screen' = "connect" /\ session' = NoSession /\ auto' = FALSE

\* Disconnect: a guest's bearer is revoked first, and forgotten when the server knows.
Disconnect ==
    /\ session # NoSession /\ SignedOut
    /\ IF session.who = Guest
       THEN \/ issued' = Killed(session.token) /\ guest' = 0 /\ UNCHANGED faults
            \/ Fault /\ UNCHANGED <<issued, guest>>
       ELSE UNCHANGED <<issued, guest, faults>>
    /\ UNCHANGED <<password, profile, secret, keyring, selected, connecting, job, pending, rejected>>

\* end_revoked_session and the Disconnect that it asks for.
Severed ==
    /\ session # NoSession /\ ~Live(session.token) /\ SignedOut
    /\ rejected' = rejected \union {session.token}
    /\ IF session.who = Guest THEN guest' = 0 /\ UNCHANGED secret
       ELSE secret' = Forgotten(session.who) /\ UNCHANGED guest
    /\ UNCHANGED <<server, faults, profile, keyring, selected, connecting, job, pending>>

\* auto_connect_identifier.
AutoAccount ==
    {a \in {selected} \ {None} : HasBearer(a) \/ (profile[a] = "bearer" /\ keyring[a] # "none")}

\* The program is closed, at any step, and started again.
Restart ==
    /\ Fault /\ Free /\ session' = NoSession /\ pending' = NoPending /\ screen' = "connect"
    /\ IF auto /\ AutoAccount # {} THEN job' = SavedJob(selected) /\ connecting' = TRUE ELSE Idle
    /\ UNCHANGED <<server, store, rejected>>

-----------------------------------------------------------------------------
Start ==
    \/ \E a \in Account : \/ \E pw \in {"old", "new"} : ConnectForm(a, pw)
                          \/ ConnectShare(a) \/ ConnectRecovery(a) \/ ConnectPasskey(a)
                          \/ ConnectSaved(a)
    \/ ConnectGuest \/ VerifyCode \/ VerifyPasskey \/ TotpCancel
Answer ==
    \/ LoginUnanswered \/ WrongPassword \/ OtherRefused \/ LoginTaken \/ ChallengeAsked
    \/ GuestTaken \/ GuestCollides \/ Booted \/ BootUnanswered \/ BearerRejected
    \/ Verified \/ StaysOpen \/ Expired \/ AssertionRefused \/ CodeUnanswered
Ending == Disconnect \/ Severed \/ Restart

Next ==
    \/ Start \/ Answer \/ Ending
    \/ \E t \in Bearer : Revoke(t)
    \/ \E a \in Account : PasswordChanges(a)

Spec == Init /\ [][Next]_vars

-----------------------------------------------------------------------------
(* One sign-in never finishes as another: the bearer of a session, and every *)
(* bearer kept for an account or for the guest, was issued to that identity, *)
(* and a sign-in that waits for its second factor does so on its own screen. *)
OneIdentity ==
    /\ session # NoSession => issued[session.token].who = session.who
    /\ \A a \in Account : HasBearer(a) => secret[a] \in DOMAIN issued /\ issued[secret[a]].who = a
    /\ guest # 0 => issued[guest].who = Guest
    /\ pending # NoPending => screen = "totp"

(* A bearer that the server rejected is not kept for another try, whichever  *)
(* of /boot, the socket and the sign-in of the next launch saw it rejected.  *)
RejectedNotKept == \A a \in Account : secret[a] \notin rejected

(* The connect screen does not wait for ever: while it says that a sign-in   *)
(* runs, one does, and the server or the request's time-out answers it.      *)
Abandoned == screen = "totp" /\ pending = NoPending /\ job = NoJob
WaitsForAnswer == connecting /\ ~Abandoned => job # NoJob

(* A sign-in that failed shows its error on the connect screen; the step of  *)
(* the second factor is shown only while a sign-in waits for it.             *)
TotpStepIsOpen == screen = "totp" /\ ~connecting => pending # NoPending

(* The guest can come back under its nickname: as long as the server holds   *)
(* the nickname for a bearer of this guest, the stored bearer is that one.   *)
GuestReturns ==
    job = NoJob /\ session = NoSession /\ guest # 0
      => \A t \in DOMAIN issued : issued[t].who = Guest /\ issued[t].live => t = guest

(* The bearers and the screens of a sign-in, with their types.               *)
SignInSound == TypeOK /\ OneIdentity /\ RejectedNotKept /\ WaitsForAnswer
=============================================================================
