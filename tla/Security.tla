------------------------------ MODULE Security ------------------------------
(***************************************************************************)
(* Settings > Security: the TOTP enrolment, the passkeys, the two steps to *)
(* passwordless sign-in and the share link.                                *)
(*                                                                         *)
(* A click sends a command that waits in the worker's queue.  The worker   *)
(* handles one command at a time, so a handler and its request are one     *)
(* step; a change that asks for a passkey runs in a task of its own, whose *)
(* system prompt stays open while the worker, the user and even the        *)
(* session go on.  Codes and secrets are the numbers of the server's       *)
(* enrolments and preparations.                                            *)
(***************************************************************************)
EXTENDS Naturals, Sequences, FiniteSets

CONSTANTS
    Account,
    None,
    MaxMade,    \* enrolments and preparations
    MaxKeys,    \* passkeys of an account
    MaxClicks,  \* clicks on the buttons of the page
    MaxQueue,   \* clicks that wait for the worker
    MaxTasks,   \* prompts that are open
    MaxFaults   \* requests whose answer is lost, and changes of the account

VARIABLES
    srv,       \* server: second factors of every account
    made,      \* server: enrolments and preparations so far
    session,   \* the account signed in
    queue,     \* commands for the worker
    worker,    \* totp_enrollment, passwordless_recovery_token
    page,      \* what the screen shows
    tasks,     \* passkey changes under way
    faults, clicks,
    seen,      \* history: the codes each account was shown
    unsure,    \* history: accounts of which an answer was lost
    kept       \* history: the preparation that no one armed, cancelled or replaced

vars == <<srv, made, session, queue, worker, page, tasks, faults, clicks, seen, unsure, kept>>
ghosts == <<seen, unsure, kept>>

NoWorker == [enrolment |-> 0, recovery |-> 0]
Click == {"start", "confirm", "disable", "done", "add", "second", "disabled", "prepare",
          "activate", "cancel", "delete", "mint"}

TypeOK ==
    /\ \A a \in Account : srv[a].mode \in {"disabled", "second", "alone"} /\ srv[a].keys \in 0..MaxKeys
    /\ session \in Account \union {None} /\ made \in 0..MaxMade
    /\ worker.enrolment \in 0..made /\ worker.recovery \in 0..made
    /\ page.step \in {"", "enroll", "codes"} /\ page.busyP \in BOOLEAN
    /\ Cardinality(tasks) <= MaxTasks
    /\ session = None => worker = NoWorker

Init ==
    /\ srv = [a \in Account |-> [totp |-> 0, mode |-> "disabled", codes |-> 0, keys |-> 1]]
    /\ made = 0 /\ session = None /\ queue = <<>> /\ worker = NoWorker /\ tasks = {} /\ faults = 0 /\ clicks = 0
    /\ page = [open |-> FALSE, totp |-> "", step |-> "", secret |-> 0, codes |-> 0,
               busyP |-> FALSE, mode |-> "", keys |-> 0, plain |-> 0, share |-> FALSE]
    /\ seen = [a \in Account |-> {}] /\ unsure = {} /\ kept = 0

Fault == faults < MaxFaults /\ faults' = faults + 1

-----------------------------------------------------------------------------
(* The user. *)

SignIn(a) ==
    /\ session = None /\ queue = <<>> /\ session' = a
    /\ page' = [page EXCEPT !.open = FALSE]
    /\ UNCHANGED <<srv, made, queue, worker, tasks, faults, ghosts>>

\* on_disconnect_requested: the screen forgets the share link, and nothing else of this page.
Disconnect ==
    /\ session # None /\ Fault /\ Len(queue) < MaxQueue
    /\ page' = [page EXCEPT !.open = FALSE, !.share = FALSE]
    /\ queue' = Append(queue, "disconnect")
    /\ UNCHANGED <<srv, made, session, worker, tasks, ghosts>>

\* Security is opened, also while it is open.
OpenPage ==
    /\ session # None /\ Len(queue) < MaxQueue /\ "disconnect" \notin {queue[i] : i \in DOMAIN queue}
    /\ page' = [page EXCEPT !.open = TRUE, !.share = FALSE]
    /\ queue' = queue \o <<"totp", "passkeys">>
    /\ UNCHANGED <<srv, made, session, worker, tasks, faults, ghosts>>

\* The buttons that the page offers.
Offered(c) ==
    CASE c = "start" -> page.totp = "disabled" /\ page.step = ""
      [] c = "confirm" -> page.step = "enroll"
      [] c = "disable" -> page.totp = "enabled"
      [] c = "done" -> page.step # ""
      [] c = "add" -> ~page.busyP
      [] c \in {"second", "disabled"} -> page.keys > 0 /\ page.mode # c /\ ~page.busyP
      [] c = "prepare" -> page.keys > 0 /\ page.mode # "alone" /\ ~page.busyP
      [] c \in {"activate", "cancel"} -> page.plain # 0 /\ ~page.busyP
      [] c = "delete" -> page.keys > 0 /\ ~page.busyP
      [] c = "mint" -> ~page.share

ClickOn(c) ==
    /\ page.open /\ Offered(c) /\ Len(queue) < MaxQueue /\ queue' = Append(queue, c)
    /\ clicks < MaxClicks /\ clicks' = clicks + 1
    /\ UNCHANGED <<srv, made, session, worker, page, tasks, faults, ghosts>>

-----------------------------------------------------------------------------
(* The worker.  A request is answered, refused, or done with its answer lost. *)

Me == srv[session]
Set(f, v) == srv' = [srv EXCEPT ![session][f] = v]
Show(f, v) == page' = [page EXCEPT ![f] = v]
Lost == Fault /\ unsure' = unsure \union {session}
Known == UNCHANGED <<faults, unsure>>
Handled(c) == session # None /\ queue # <<>> /\ Head(queue) = c /\ queue' = Tail(queue)

Armed == IF Me.totp # 0 THEN "enabled" ELSE "disabled"

\* handle_security_totp_refresh.
TotpRefresh ==
    /\ Handled("totp")
    /\ \/ Show("totp", Armed) /\ Known
       \/ Show("totp", "unavailable") /\ Lost
    /\ UNCHANGED <<srv, made, session, worker, tasks, seen, kept>>

\* handle_security_totp_start: a new secret is shown and waits for its first code.
TotpStart ==
    /\ Handled("start")
    /\ \/ /\ Me.totp = 0 /\ made < MaxMade /\ made' = made + 1 /\ Known
          /\ worker' = [worker EXCEPT !.enrolment = made']
          /\ page' = [page EXCEPT !.secret = made', !.step = "enroll"]
       \/ /\ Me.totp # 0 /\ Show("totp", "enabled") /\ UNCHANGED <<made, worker>> /\ Known
       \/ /\ Lost /\ UNCHANGED <<made, worker, page>>
    /\ UNCHANGED <<srv, session, tasks, seen, kept>>

\* handle_security_totp_confirm: the codes are shown once.
TotpConfirm ==
    /\ Handled("confirm")
    /\ \/ /\ worker.enrolment # 0 /\ Me.totp = 0 /\ Set("totp", worker.enrolment)
          /\ \/ /\ page' = [page EXCEPT !.codes = worker.enrolment, !.secret = 0, !.totp = "enabled",
                                        !.step = "codes"]
                /\ seen' = [seen EXCEPT ![session] = @ \union {worker.enrolment}]
                /\ worker' = [worker EXCEPT !.enrolment = 0] /\ Known
             \/ Lost /\ UNCHANGED <<page, seen, worker>>
       \/ UNCHANGED <<srv, page, seen, worker>> /\ Known
    /\ UNCHANGED <<made, session, tasks, kept>>

\* handle_security_totp_disable.
TotpDisable ==
    /\ Handled("disable")
    /\ \/ Set("totp", 0) /\ Show("totp", "disabled") /\ Known
       \/ Set("totp", 0) /\ Lost /\ UNCHANGED page
       \/ Lost /\ UNCHANGED <<srv, page>>
    /\ UNCHANGED <<made, session, worker, tasks, seen, kept>>

\* run_security_totp_done.
TotpDone ==
    /\ Handled("done")
    /\ worker' = [worker EXCEPT !.enrolment = 0]
    /\ page' = [page EXCEPT !.step = "", !.secret = 0, !.codes = 0]
    /\ UNCHANGED <<srv, made, session, tasks, faults, ghosts>>

\* The list of the passkeys is shown, which also ends the wait of the page.
Listed(keys) == page' = [page EXCEPT !.keys = keys, !.mode = Me.mode, !.busyP = FALSE]

\* handle_security_passkeys_refresh.
PasskeysRefresh ==
    /\ Handled("passkeys")
    /\ \/ Listed(Me.keys) /\ Known
       \/ page' = [page EXCEPT !.keys = 0, !.busyP = FALSE] /\ Lost
    /\ UNCHANGED <<srv, made, session, worker, tasks, seen, kept>>

\* handle_security_passkey_delete: not the last one that a mode still needs.
PasskeyDelete ==
    /\ Handled("delete")
    /\ \/ /\ Me.keys > (IF Me.mode = "disabled" THEN 0 ELSE 1)
          /\ Set("keys", Me.keys - 1)
          /\ \/ Listed(Me.keys - 1) /\ Known
             \/ Show("busyP", FALSE) /\ Lost
       \/ UNCHANGED srv /\ Show("busyP", FALSE) /\ Known
    /\ UNCHANGED <<made, session, worker, tasks, seen, kept>>

\* A mutant: codes that are on the screen stay when others are made.
PreparedStays(n) ==
    /\ worker' = [worker EXCEPT !.recovery = n]
    /\ page' = [page EXCEPT !.plain = IF @ = 0 THEN n ELSE @, !.busyP = FALSE]

\* handle_security_passwordless_prepare: the codes are shown before anything is armed.
Prepared(n) ==
    /\ worker' = [worker EXCEPT !.recovery = n]
    /\ page' = [page EXCEPT !.plain = n, !.busyP = FALSE]

PasswordlessPrepare ==
    /\ Handled("prepare")
    /\ \/ /\ made < MaxMade /\ made' = made + 1 /\ Prepared(made') /\ kept' = made' /\ Known
          /\ seen' = [seen EXCEPT ![session] = @ \union {page'.plain}]
       \/ Show("busyP", FALSE) /\ Known /\ UNCHANGED <<made, worker, seen, kept>>
    /\ UNCHANGED <<srv, session, tasks>>

\* SecurityPasswordlessCancel, of the user or of a task that armed it.
Cancelled ==
    /\ worker' = [worker EXCEPT !.recovery = 0]
    /\ Show("plain", 0)

PasswordlessCancel ==
    /\ Handled("cancel") /\ Cancelled /\ kept' = 0
    /\ UNCHANGED <<srv, made, session, tasks, faults, seen, unsure>>

ArmedDone ==
    /\ Handled("armed") /\ Cancelled
    /\ UNCHANGED <<srv, made, session, tasks, faults, ghosts>>

\* handle_security_share_mint.
ShareMint ==
    /\ Handled("mint")
    /\ \/ Show("share", TRUE) /\ Known
       \/ UNCHANGED page /\ Known
    /\ UNCHANGED <<srv, made, session, worker, tasks, seen, kept>>

\* WorkerCommand::Disconnect: a new WorkerState.
DisconnectRun ==
    /\ Handled("disconnect") /\ session' = None /\ worker' = NoWorker /\ kept' = 0
    /\ UNCHANGED <<srv, made, page, tasks, faults, seen, unsure>>

\* Every handler returns at once without a session.
Dropped ==
    /\ session = None /\ queue # <<>> /\ queue' = Tail(queue)
    /\ IF Head(queue) \in {"cancel", "armed"} THEN Cancelled ELSE UNCHANGED <<worker, page>>
    /\ UNCHANGED <<srv, made, session, tasks, faults, ghosts>>

-----------------------------------------------------------------------------
(* The tasks. *)

\* spawn_passkey_change.
Spawn(c, change, recovery) ==
    /\ Handled(c) /\ Cardinality(tasks) < MaxTasks
    /\ tasks' = tasks \union {[change |-> change, who |-> session, recovery |-> recovery, step |-> "ask"]}
    /\ Show("busyP", TRUE)
    /\ UNCHANGED <<srv, made, session, worker, faults, ghosts>>

PasskeyAdd == Spawn("add", "add", 0)
PasskeyMode(m) == Spawn(m, m, 0)
PasswordlessActivate ==
    IF worker.recovery # 0 THEN Spawn("activate", "alone", worker.recovery)
    ELSE /\ Handled("activate")
         /\ UNCHANGED <<srv, made, session, worker, page, tasks, faults, ghosts>>

\* The options are granted after the password or the recovery token was checked.
Asked(t) ==
    /\ t.step = "ask"
    /\ tasks' = (tasks \ {t}) \union {[t EXCEPT !.step = "prompt"]}
    /\ UNCHANGED <<srv, made, session, queue, worker, page, faults, ghosts>>

\* A mutant: the list is not read again at the end.
FollowUpsNoRead(t, ok) == IF ok /\ t.change = "alone" THEN <<"armed">> ELSE <<>>

\* What a task sends to the worker at its end.
FollowUps(t, ok) == (IF ok /\ t.change = "alone" THEN <<"armed">> ELSE <<>>) \o <<"passkeys">>

Finish(t, ok) ==
    /\ tasks' = tasks \ {t} /\ page' = [page EXCEPT !.busyP = FALSE]
    /\ queue' = queue \o FollowUps(t, ok)

\* The server's part of finish_passkey_registration and finish_passkey_mode_change.
Applied(t) ==
    srv' = [srv EXCEPT ![t.who] =
        IF t.change = "add" THEN [@ EXCEPT !.keys = IF @ < MaxKeys THEN @ + 1 ELSE @]
        ELSE [@ EXCEPT !.mode = t.change, !.codes = IF t.change = "alone" THEN t.recovery ELSE 0]]

\* run_passkey_change: the prompt was answered and the server took the answer.
TaskDone(t) ==
    /\ t.step = "prompt" /\ (t.change # "add" => srv[t.who].keys > 0) /\ Applied(t)
    /\ kept' = IF kept = t.recovery THEN 0 ELSE kept
    /\ \/ Finish(t, TRUE) /\ UNCHANGED <<faults, unsure>>
       \/ Finish(t, FALSE) /\ Fault /\ unsure' = unsure \union {t.who}
    /\ UNCHANGED <<made, session, worker, seen>>

\* A wrong password, a cancelled prompt, a refused answer or an expired token.
TaskFails(t) ==
    /\ Finish(t, FALSE)
    /\ UNCHANGED <<srv, made, session, worker, faults, ghosts>>

-----------------------------------------------------------------------------
Worker ==
    \/ TotpRefresh \/ TotpStart \/ TotpConfirm \/ TotpDisable \/ TotpDone
    \/ PasskeysRefresh \/ PasskeyDelete \/ PasswordlessPrepare \/ PasswordlessCancel \/ ArmedDone
    \/ ShareMint \/ DisconnectRun \/ Dropped
    \/ PasskeyAdd \/ PasskeyMode("second") \/ PasskeyMode("disabled") \/ PasswordlessActivate

Others ==
    \/ \E a \in Account : SignIn(a)
    \/ Disconnect \/ OpenPage
    \/ Worker
    \/ \E t \in tasks : Asked(t) \/ TaskDone(t) \/ TaskFails(t)

Next == (Others /\ UNCHANGED clicks) \/ \E c \in Click : ClickOn(c)

Spec == Init /\ [][Next]_vars

-----------------------------------------------------------------------------
(* Second factors are armed only with recovery codes that the account was    *)
(* shown; for TOTP an answer that was lost is the one exception.             *)
ArmedWasShown ==
    \A a \in Account : /\ srv[a].codes \in seen[a] \union {0}
                       /\ a \notin unsure => srv[a].totp \in seen[a] \union {0}

(* When nothing is under way, the open page shows what the server holds,     *)
(* whatever prompts ended late or for an earlier session of the account.     *)
PageAgrees ==
    page.open /\ queue = <<>> /\ tasks = {} /\ session \in Account \ unsure
      => page.totp = Armed /\ page.keys = Me.keys /\ page.mode = Me.mode

(* "Kept until armed: a cancelled prompt can be tried again": a preparation  *)
(* that was neither armed nor cancelled nor replaced is still the worker's.  *)
KeptUntilArmed == kept # 0 => worker.recovery = kept

=============================================================================
