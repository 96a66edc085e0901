------------------------------- MODULE Session -------------------------------
(***************************************************************************)
(* The realtime session (session.rs, backoff.rs): the task that owns the   *)
(* WebSocket, joins the user topic and the topics the worker asks for,     *)
(* reports the window to the server, and connects again after a loss.      *)
(*                                                                         *)
(* The task talks to the worker over a queue of commands, which it reads   *)
(* only while it serves a connection, a shutdown flag, which it also reads *)
(* while it waits, and a queue of events, of which the model keeps what    *)
(* the last one tells about the connection.                                *)
(*                                                                         *)
(* The server is external: it holds a socket with the joined topics and    *)
(* the last report of the window, answers the user join, and may lose the  *)
(* socket at any step.  Delays are counted in quarters of a second, so     *)
(* that the jitter of a quarter stays whole.                               *)
(***************************************************************************)
EXTENDS Integers, Sequences

CONSTANTS
    Topic,          \* the topics of networks, channels and queries
    BaseDelay,      \* BASE_DELAY
    MaxDelay,       \* MAX_DELAY
    MaxRetryAfter,  \* MAX_RETRY_AFTER
    MaxDoublings,   \* MAX_DOUBLINGS
    Hints,          \* the values of Retry-After that a server sends
    MaxCommands,    \* bound: commands of the worker
    None

ASSUME SessionConstants ==
    /\ BaseDelay \in Nat \ {0} /\ BaseDelay % 4 = 0
    /\ MaxDelay \in Nat /\ MaxDelay >= BaseDelay /\ MaxDelay % 4 = 0
    /\ MaxRetryAfter \in Nat /\ MaxDoublings \in Nat /\ MaxCommands \in Nat
    /\ BaseDelay * 2^MaxDoublings >= MaxDelay
    /\ Hints \subseteq Nat
    /\ None \notin Topic

\* The powers in the delays, of which the provers know nothing.
ASSUME PowersAreNat == \A n \in 0 .. MaxDoublings : 2^n \in Nat \ {0}

VARIABLES
    \* The task.
    phase,       \* where run_session stands
    joined,      \* joined_topics without the user topic: the join_ref of each
    todo,        \* the topics still to join again
    refs,        \* RefCounter: the refs given to joins on this connection
    foreground,  \* Presence: the state of the window
    acked,       \* Presence: the user topic is joined
    age,         \* joined_at: not set, set, or set STABLE_AFTER ago
    failures,    \* Backoff, up to MaxDoublings: more decide the same
    wait,        \* the delay before the next connect
    \* The channels.
    commands,    \* the commands not yet read
    shutdown,    \* the watch channel
    flushed,     \* the answer to Close
    told,        \* the connection as the last event shows it
    \* The worker.
    handle,      \* it holds the SessionHandle
    issued,      \* the commands it sent
    window,      \* the last state of the window
    wish,        \* the last command for each topic
    \* The server.
    up,          \* it holds the socket
    srv,         \* the join_ref of each topic of the socket, or 0
    visible,     \* the last report of the window on the socket
    answer,      \* its answer to the user join, not yet read
    \* The history of the run.
    missed,      \* the topics whose join the task could not write
    flaps,       \* the losses since a connection was stable
    hint         \* the Retry-After of the current wait

task == <<phase, joined, todo, refs, foreground, acked, age, failures, wait>>
worker == <<handle, issued, window, wish>>
server == <<up, srv, visible, answer>>
ghost == <<missed, flaps, hint>>
vars == <<task, commands, shutdown, flushed, told, worker, server, ghost>>

Init ==
    /\ phase = "connect" /\ joined = <<>> /\ todo = {} /\ refs = 0
    /\ foreground = FALSE /\ acked = FALSE /\ age = "none"
    /\ failures = 0 /\ wait = 0
    /\ commands = <<>> /\ shutdown = FALSE /\ flushed = "none" /\ told = "connecting"
    /\ handle = TRUE /\ issued = 0 /\ window = FALSE
    /\ wish = [t \in Topic |-> "out"]
    /\ up = FALSE /\ srv = [t \in Topic |-> 0] /\ visible = FALSE /\ answer = "none"
    /\ missed = {} /\ flaps = 0 /\ hint = 0

-----------------------------------------------------------------------------
(***************************************************************************)
(* Backoff.                                                                *)
(***************************************************************************)

Smaller(a, b) == IF a < b THEN a ELSE b
Greater(a, b) == IF a > b THEN a ELSE b
Capped(n) == Smaller(n, MaxDoublings)

\* nominal_delay.
NominalDelay(n) == Smaller(BaseDelay * 2^Capped(n), MaxDelay)

\* jittered: a factor from 3/4 to 5/4.
Jittered(d, unit) == (d * (3 + unit)) \div 4

\* spread_upwards: a factor from 1 to 5/4.
SpreadUpwards(d, unit) == d + (d * unit) \div 8

\* Mutant: a connection that was joined at all starts the growth over.
FailuresAfterJoin == IF age = "none" THEN failures ELSE 0

\* next_delay: only a connection that stayed up starts the growth over.
FailuresNow == IF age = "stable" THEN 0 ELSE failures

\* next_delay: the random unit is 0, 1/2 or 1.  A hint is a floor.
NextDelay(retryAfter, unit) ==
    LET backoff == Jittered(NominalDelay(FailuresNow), unit)
        spread == SpreadUpwards(Smaller(retryAfter, MaxRetryAfter), unit)
    IN  Greater(backoff, Smaller(spread, MaxRetryAfter))

-----------------------------------------------------------------------------
(***************************************************************************)
(* The end of a connection.                                                *)
(***************************************************************************)

\* next_delay, the event and wait_before_reconnect.  A session that is shut
\* down does not wait.
Lose(event, retryAfter) ==
    /\ \E unit \in 0 .. 2 : wait' = NextDelay(retryAfter, unit)
    /\ failures' = Capped(FailuresNow + 1)
    /\ flaps' = IF age = "stable" THEN 1 ELSE Smaller(flaps + 1, MaxDoublings + 1)
    /\ hint' = retryAfter
    /\ told' = event
    /\ phase' = IF shutdown THEN "ended" ELSE "wait"
    /\ flushed' = IF shutdown /\ flushed = "open" THEN "done" ELSE flushed
    /\ up' = FALSE /\ answer' = "none"

\* The task returns, and its socket and its channels go with it.
Ends(event) ==
    /\ phase' = "ended" /\ told' = event
    /\ flushed' = IF flushed = "open" THEN "done" ELSE flushed
    /\ up' = FALSE /\ answer' = "none"
    /\ UNCHANGED <<joined, todo, refs, foreground, acked, age, failures, wait, commands,
                   shutdown, worker, srv, visible, ghost>>

\* Mutant: the flag is not read after the wait.
WaitEndsAnyway ==
    /\ phase = "wait"
    /\ phase' = "connect"
    /\ acked' = FALSE /\ age' = "none"
    /\ UNCHANGED <<joined, todo, refs, foreground, failures, wait, commands, shutdown,
                   flushed, told, worker, server, ghost>>

\* The wait is over, or a shutdown or the drop of the handle ends it.  The drop
\* sets no flag: when the delay ends with it, select may take the delay.  A new
\* attempt starts the presence and the time of the join afresh.
WaitEnds ==
    /\ phase = "wait"
    /\ \/ (handle => shutdown) /\ Ends(told)
       \/ /\ ~shutdown
          /\ phase' = "connect"
          /\ acked' = FALSE /\ age' = "none"
          /\ UNCHANGED <<joined, todo, refs, foreground, failures, wait, commands, shutdown,
                         flushed, told, worker, server, ghost>>

-----------------------------------------------------------------------------
(***************************************************************************)
(* Connect and join.                                                       *)
(***************************************************************************)

\* PhoenixSocket::connect succeeds: a new socket, hidden and without topics.
ConnectOk ==
    /\ phase = "connect"
    /\ phase' = "join"
    /\ up' = TRUE /\ srv' = [t \in Topic |-> 0] /\ visible' = FALSE /\ answer' = "none"
    /\ refs' = 0
    /\ UNCHANGED <<joined, todo, foreground, acked, age, failures, wait, commands, shutdown,
                   flushed, told, worker, ghost>>

\* It fails: 401 or 403, a certificate or 426 end the session, and anything
\* else is tried again, after the delay that the server asks for.
ConnectRefused == phase = "connect" /\ Ends("refused")

ConnectFails ==
    /\ phase = "connect"
    /\ \E h \in Hints \cup {0} : Lose("reconnecting", h)
    /\ UNCHANGED <<joined, todo, refs, foreground, acked, age, commands, shutdown, worker,
                   srv, visible, missed>>

\* A frame goes out.  On a socket that the server lost, the write fails or goes
\* nowhere.
Writes == IF up THEN {TRUE} ELSE BOOLEAN

\* The join of the user topic, ref 1.
JoinUser ==
    /\ phase = "join"
    /\ \E ok \in Writes :
          IF ok
          THEN /\ phase' = "rejoin"
               /\ refs' = 1
               /\ todo' = DOMAIN joined
               /\ UNCHANGED <<failures, wait, flushed, told, up, answer, flaps, hint>>
          ELSE Lose("reconnecting", 0) /\ UNCHANGED <<refs, todo>>
    /\ UNCHANGED <<joined, foreground, acked, age, commands, shutdown, worker, srv, visible,
                   missed>>

\* join of another topic: the server takes it or refuses it.
JoinTopic(t, ok) ==
    /\ refs' = refs + 1
    /\ srv' \in IF up THEN {[srv EXCEPT ![t] = r] : r \in {0, refs + 1}} ELSE {srv}
    /\ joined' = IF ok
                 THEN [x \in DOMAIN joined \cup {t} |-> IF x = t THEN refs + 1 ELSE joined[x]]
                 ELSE joined

\* Mutant: the topic keeps the ref of the connection before.
RejoinOldRef ==
    /\ phase = "rejoin"
    /\ \E t \in todo :
          /\ todo' = todo \ {t}
          /\ refs' = refs + 1
          /\ srv' = IF up THEN [srv EXCEPT ![t] = refs + 1] ELSE srv
    /\ UNCHANGED <<joined, phase, foreground, acked, age, failures, wait, commands, shutdown,
                   flushed, told, worker, up, visible, answer, ghost>>

\* The topics of the connection before are joined again, in the order of a
\* HashMap.  One whose write fails keeps its old ref.
Rejoin ==
    /\ phase = "rejoin"
    /\ \E t \in todo, ok \in Writes :
          /\ todo' = todo \ {t}
          /\ JoinTopic(t, ok)
    /\ UNCHANGED <<phase, foreground, acked, age, failures, wait, commands, shutdown, flushed,
                   told, worker, up, visible, answer, ghost>>

Serve ==
    /\ phase = "rejoin" /\ todo = {}
    /\ phase' = "serve"
    /\ UNCHANGED <<joined, todo, refs, foreground, acked, age, failures, wait, commands,
                   shutdown, flushed, told, worker, server, ghost>>

-----------------------------------------------------------------------------
(***************************************************************************)
(* The branches of the select of a connection.                             *)
(***************************************************************************)

\* A heartbeat is written, and a failure of the write ends the connection.
Heartbeat ==
    /\ phase = "serve" /\ ~up
    /\ Lose("disconnected", 0)
    /\ UNCHANGED <<joined, todo, refs, foreground, acked, age, commands, shutdown, worker, srv,
                   visible, missed>>

\* The periodic report of a window in the foreground.
VisibilityResend ==
    /\ phase = "serve" /\ acked /\ foreground /\ up /\ ~visible
    /\ visible' = TRUE
    /\ UNCHANGED <<task, commands, shutdown, flushed, told, worker, up, srv, answer, ghost>>

\* A frame: the server answers the user join with ok.
UserJoined ==
    /\ phase = "serve" /\ answer = "ok"
    /\ answer' = "none"
    /\ acked' = TRUE /\ age' = "young"
    /\ told' = "connected"
    /\ visible' = IF up THEN foreground ELSE visible
    /\ UNCHANGED <<phase, joined, todo, refs, foreground, failures, wait, commands, shutdown,
                   flushed, worker, up, srv, ghost>>

\* It refuses the join, for good or for now.
JoinRefused == phase = "serve" /\ answer = "forbidden" /\ Ends("refused")

JoinRejected ==
    /\ phase = "serve" /\ answer = "rejected"
    /\ Lose("reconnecting", 0)
    /\ UNCHANGED <<joined, todo, refs, foreground, acked, age, commands, shutdown, worker, srv,
                   visible, missed>>

\* Mutant: the loss is not reported.
SocketLostSilent ==
    /\ phase = "serve" /\ ~up /\ answer = "none"
    /\ \E unit \in 0 .. 2 : wait' = NextDelay(0, unit)
    /\ failures' = Capped(FailuresNow + 1)
    /\ flaps' = IF age = "stable" THEN 1 ELSE Smaller(flaps + 1, MaxDoublings + 1)
    /\ hint' = 0
    /\ phase' = IF shutdown THEN "ended" ELSE "wait"
    /\ flushed' = IF shutdown /\ flushed = "open" THEN "done" ELSE flushed
    /\ UNCHANGED <<joined, todo, refs, foreground, acked, age, commands, shutdown, told,
                   worker, server, missed>>

\* The socket is closed, or a read fails.  What it still held is read first.
SocketLost ==
    /\ phase = "serve" /\ ~up /\ answer = "none"
    /\ Lose("disconnected", 0)
    /\ UNCHANGED <<joined, todo, refs, foreground, acked, age, commands, shutdown, worker, srv,
                   visible, missed>>

Command(c) == phase = "serve" /\ commands # <<>> /\ Head(commands) = c /\ commands' = Tail(commands)

\* Mutant: the window is reported and not kept.
RunForegroundForgets(b) ==
    /\ Command([do |-> "foreground", arg |-> b])
    /\ visible' = IF acked /\ up THEN b ELSE visible
    /\ UNCHANGED <<task, shutdown, flushed, told, worker, up, srv, answer, ghost>>

\* SetForeground: a change is reported when the user topic is joined.
RunForeground(b) ==
    /\ Command([do |-> "foreground", arg |-> b])
    /\ foreground' = b
    /\ visible' = IF foreground # b /\ acked /\ up THEN b ELSE visible
    /\ UNCHANGED <<phase, joined, todo, refs, acked, age, failures, wait, shutdown, flushed,
                   told, worker, up, srv, answer, ghost>>

\* JoinTopic: a join that is not written is not kept.
RunJoin(t) ==
    /\ Command([do |-> "join", arg |-> t])
    /\ \E ok \in Writes :
          /\ JoinTopic(t, ok)
          /\ missed' = IF ok \/ t \in DOMAIN joined THEN missed \ {t} ELSE missed \cup {t}
    /\ UNCHANGED <<phase, todo, foreground, acked, age, failures, wait, shutdown, flushed, told,
                   worker, up, visible, answer, flaps, hint>>

\* Mutant: the topic is left and stays in the set of the next connection.
RunLeaveKept(t) ==
    /\ Command([do |-> "leave", arg |-> t])
    /\ srv' = IF t \in DOMAIN joined /\ up THEN [srv EXCEPT ![t] = 0] ELSE srv
    /\ UNCHANGED <<task, shutdown, flushed, told, worker, up, visible, answer, ghost>>

\* Mutant: the ref is cleared and the topic stays.
RunLeaveCleared(t) ==
    /\ Command([do |-> "leave", arg |-> t])
    /\ joined' = [x \in DOMAIN joined |-> IF x = t THEN 0 ELSE joined[x]]
    /\ srv' = IF t \in DOMAIN joined /\ up THEN [srv EXCEPT ![t] = 0] ELSE srv
    /\ UNCHANGED <<phase, todo, refs, foreground, acked, age, failures, wait, shutdown, flushed,
                   told, worker, up, visible, answer, ghost>>

\* LeaveTopic: the server leaves a topic when the frame names its join_ref.
RunLeave(t) ==
    /\ Command([do |-> "leave", arg |-> t])
    /\ joined' = [x \in DOMAIN joined \ {t} |-> joined[x]]
    /\ srv' = IF t \in DOMAIN joined /\ up /\ joined[t] = srv[t]
              THEN [srv EXCEPT ![t] = 0] ELSE srv
    /\ missed' = missed \ {t}
    /\ UNCHANGED <<phase, todo, refs, foreground, acked, age, failures, wait, shutdown, flushed,
                   told, worker, up, visible, answer, flaps, hint>>

\* Send: a command for a topic that is not joined goes nowhere, and no answer
\* of the server changes the session.
RunSend(t) ==
    /\ Command([do |-> "send", arg |-> t])
    /\ UNCHANGED <<task, shutdown, flushed, told, worker, server, ghost>>

\* Close: the hint, the answer and the end.
RunClose ==
    /\ phase = "serve" /\ commands # <<>> /\ Head(commands).do = "close"
    /\ Ends(told)

\* Shutdown, or no handle is left.
RunShutdown ==
    /\ phase = "serve"
    /\ \/ commands # <<>> /\ Head(commands).do = "shutdown"
       \/ commands = <<>> /\ ~handle
    /\ Ends(told)

-----------------------------------------------------------------------------
(***************************************************************************)
(* The worker and the server.                                              *)
(***************************************************************************)

\* A method of SessionHandle.  A task that ended reads nothing.
Sends(c) ==
    /\ handle /\ issued < MaxCommands
    /\ issued' = issued + 1
    /\ commands' = IF phase = "ended" THEN commands ELSE Append(commands, c)

AskTopic(t, do) ==
    /\ Sends([do |-> do, arg |-> t])
    /\ wish' = [wish EXCEPT ![t] = IF do = "send" THEN @ ELSE IF do = "join" THEN "in" ELSE "out"]
    /\ UNCHANGED <<task, shutdown, flushed, told, handle, window, server, ghost>>

SetForeground(b) ==
    /\ Sends([do |-> "foreground", arg |-> b])
    /\ b # window
    /\ window' = b
    /\ UNCHANGED <<task, shutdown, flushed, told, handle, wish, server, ghost>>

\* Mutant: the command alone.
CloseSessionUnflagged ==
    /\ handle /\ handle' = FALSE
    /\ commands' = IF phase = "ended" THEN commands
                   ELSE Append(commands, [do |-> "close", arg |-> None])
    /\ flushed' = IF phase = "ended" THEN "done" ELSE "open"
    /\ UNCHANGED <<task, shutdown, told, issued, window, wish, server, ghost>>

\* close and shutdown: the flag, then the command.  The worker gives its handle
\* away.
CloseSession ==
    /\ handle /\ handle' = FALSE
    /\ shutdown' = TRUE
    /\ commands' = IF phase = "ended" THEN commands
                   ELSE Append(commands, [do |-> "close", arg |-> None])
    /\ flushed' = IF phase = "ended" THEN "done" ELSE "open"
    /\ UNCHANGED <<task, told, issued, window, wish, server, ghost>>

Shutdown ==
    /\ handle /\ handle' = FALSE
    /\ shutdown' = TRUE
    /\ commands' = IF phase = "ended" THEN commands
                   ELSE Append(commands, [do |-> "shutdown", arg |-> None])
    /\ UNCHANGED <<task, flushed, told, issued, window, wish, server, ghost>>

\* A new login replaces the handle, and the old one is dropped without a word.
DropHandle ==
    /\ handle /\ handle' = FALSE
    /\ UNCHANGED <<task, commands, shutdown, flushed, told, issued, window, wish, server, ghost>>

\* The server answers the user join.
Answer ==
    /\ up /\ phase \in {"rejoin", "serve"} /\ ~acked /\ answer = "none"
    /\ answer' \in {"ok", "forbidden", "rejected"}
    /\ UNCHANGED <<task, commands, shutdown, flushed, told, worker, up, srv, visible, ghost>>

\* The socket breaks: what was on its way is lost or still read.
Break ==
    /\ up
    /\ up' = FALSE
    /\ answer' \in {answer, "none"}
    /\ UNCHANGED <<task, commands, shutdown, flushed, told, worker, srv, visible, ghost>>

\* The server trusts a report of a visible window for about a minute.
ReportExpires ==
    /\ up /\ visible
    /\ visible' = FALSE
    /\ UNCHANGED <<task, commands, shutdown, flushed, told, worker, up, srv, answer, ghost>>

\* The connection stays joined for STABLE_AFTER.
Stable ==
    /\ age = "young" /\ phase = "serve"
    /\ age' = "stable"
    /\ UNCHANGED <<phase, joined, todo, refs, foreground, acked, failures, wait, commands,
                   shutdown, flushed, told, worker, server, ghost>>

-----------------------------------------------------------------------------
Connect == ConnectOk \/ ConnectRefused \/ ConnectFails
Frame == UserJoined \/ JoinRefused \/ JoinRejected \/ SocketLost
RunCommand ==
    \/ \E b \in BOOLEAN : RunForeground(b)
    \/ \E t \in Topic : RunJoin(t) \/ RunLeave(t) \/ RunSend(t)
    \/ RunClose
    \/ RunShutdown
Worker ==
    \/ \E t \in Topic, do \in {"join", "leave", "send"} : AskTopic(t, do)
    \/ \E b \in BOOLEAN : SetForeground(b)
    \/ CloseSession
    \/ Shutdown
    \/ DropHandle

Next ==
    \/ Connect \/ JoinUser \/ Rejoin \/ Serve \/ WaitEnds
    \/ Heartbeat \/ VisibilityResend \/ Frame \/ RunCommand
    \/ Worker \/ Answer \/ Break \/ ReportExpires \/ Stable

Spec == Init /\ [][Next]_vars

\* The runtime goes on with the task: a connect ends some way, a delay passes,
\* and select, which is random, takes a branch that stays ready.
FairSpec ==
    /\ Spec
    /\ WF_vars(Connect) /\ WF_vars(JoinUser) /\ WF_vars(Rejoin) /\ WF_vars(Serve)
    /\ WF_vars(WaitEnds) /\ WF_vars(RunCommand) /\ WF_vars(VisibilityResend)

-----------------------------------------------------------------------------
(***************************************************************************)
(* Properties.                                                             *)
(***************************************************************************)

CommandType ==
    [do : {"join", "leave", "send"}, arg : Topic] \cup [do : {"foreground"}, arg : BOOLEAN]
        \cup [do : {"close", "shutdown"}, arg : {None}]

\* The task, its channels, the worker and the server keep their types.
TypeOK ==
    /\ phase \in {"connect", "join", "rejoin", "serve", "wait", "ended"}
    /\ DOMAIN joined \subseteq Topic /\ \A t \in DOMAIN joined : joined[t] \in Nat \ {0}
    /\ todo \subseteq Topic /\ refs \in Nat
    /\ foreground \in BOOLEAN /\ acked \in BOOLEAN
    /\ age \in {"none", "young", "stable"}
    /\ failures \in 0 .. MaxDoublings /\ wait \in Nat
    /\ commands \in Seq(CommandType) /\ shutdown \in BOOLEAN
    /\ flushed \in {"none", "open", "done"}
    /\ told \in {"connecting", "connected", "disconnected", "reconnecting", "refused"}
    /\ handle \in BOOLEAN /\ issued \in 0 .. MaxCommands /\ window \in BOOLEAN
    /\ wish \in [Topic -> {"in", "out"}]
    /\ up \in BOOLEAN /\ srv \in [Topic -> Nat] /\ visible \in BOOLEAN
    /\ answer \in {"none", "ok", "forbidden", "rejected"}
    /\ missed \subseteq Topic /\ flaps \in Nat /\ hint \in Nat

\* While a connection is served, the client and the server mean the same join of
\* a topic: no leave or command goes out with the join_ref of an earlier
\* connection or of an earlier join (joined_topics, the rejoin loop).
AgreedRefs ==
    (phase = "serve" /\ up) =>
        \A t \in Topic : srv[t] # 0 => t \in DOMAIN joined /\ joined[t] = srv[t]

Pending(t) == \E i \in DOMAIN commands : commands[i].do \in {"join", "leave"} /\ commands[i].arg = t

\* The topics of the session follow the last command for each: a topic that was
\* left is not joined by a reconnect, and one that was joined is kept through
\* every reconnect, unless its join could not be written (JoinTopic, LeaveTopic).
TopicsFollowCommands ==
    phase # "ended" => \A t \in Topic : ~Pending(t) =>
        (t \in DOMAIN joined <=> (wish[t] = "in" /\ t \notin missed))

\* The worker is told "connected" only while the user topic is joined, and hears
\* of every loss before the next connection, so that it ends its open sends
\* (Connected, Disconnected, Reconnecting).
ToldTheTruth == (told = "connected" <=> phase = "serve" /\ acked) \/ phase = "ended"

\* A wait is never shorter than what the losses in a row and the server ask for:
\* a server that accepts the join and closes does not reset the growth, and no
\* wait is longer than the caps (next_delay).
WaitPaced ==
    phase = "wait" =>
        /\ 4 * wait >= 3 * NominalDelay(flaps - 1)
        /\ wait >= Smaller(hint, MaxRetryAfter)
        /\ 4 * wait <= Greater(5 * MaxDelay, 4 * MaxRetryAfter)

\* A session that was closed makes no new attempt to connect
\* (wait_before_reconnect).
NoConnectAfterClose == [][shutdown /\ phase # "connect" => phase' # "connect"]_vars

\* The caller of close gets its answer, also while the session waits or connects
\* (Close, wait_before_reconnect).
CloseAnswered == flushed = "open" ~> flushed = "done"

\* The server comes to know the window: after a change, through reconnects and
\* commands that wait for a connection, the report on the socket is the state of
\* the window, unless the connection or the session goes (Presence).
WindowReported ==
    \A b \in BOOLEAN :
        (phase = "serve" /\ acked /\ window = b)
            ~> (visible = b \/ window # b \/ ~up \/ phase # "serve")

\* Types, topics and waits together: what the task keeps across reconnects.
SessionSound == TypeOK /\ TopicsFollowCommands /\ WaitPaced

\* What the worker and the server wait for comes: the answer to close, and the
\* report of the window.
SessionEnds == CloseAnswered /\ WindowReported
=============================================================================
