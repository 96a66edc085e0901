------------------------------- MODULE Queries -------------------------------
(***************************************************************************)
(* The query windows of one network: the server's list of open windows,    *)
(* the topics of the windows and of the own nick, the history that makes a *)
(* window ready, and the private messages that wait for their window.      *)
(*                                                                         *)
(* A row is its server id and belongs to the window of one nick.  The      *)
(* worker handles one event at a time; a history read is a task of several *)
(* pages, between which the server moves.                                  *)
(***************************************************************************)
EXTENDS Naturals, Sequences, FiniteSets, FiniteSetsExt, SequencesExt

CONSTANTS
    Nick,        \* nicks of peers
    Me,          \* the first own nick
    None,
    MaxRows,     \* rows the server stores
    TailPage,    \* rows of the default page
    AfterPage,   \* rows of a page with ?after
    MaxPending,  \* MAX_PENDING_OWN_NICK_DMS
    MaxWire,     \* events that wait for the worker
    MaxMoves     \* windows opened or closed, nick changes, losses, refused joins

VARIABLES
    stored,    \* server: the nick of every row, in the order of the ids
    srvOpen,   \* server: open query windows
    srvOwn,    \* server: the own nick
    told,      \* server: the window list last sent on the user topic
    link,      \* the socket: up, down
    subs,      \* topics joined on this socket
    joins,     \* join requests on their way
    wire,      \* events for the worker
    moves,
    windows,   \* query_windows
    stale,     \* stale_query_topics
    qjoined,   \* query_joined
    ready,     \* query_ready
    full,      \* query_full_history_required
    topics,    \* joined_topics
    own,       \* own_nicks
    listening, \* own_listener_ready
    pending,   \* pending_own_nick_dms
    held,      \* messages
    current,   \* the open query
    focus,     \* pending_query_focus: the nick and the window of the click
    task,      \* the history read under way
    excused,   \* history: windows that took a row of their topic while not ready, or a
               \* message that the own topic did not bring while they were ready
    forgotten  \* history: windows closed while their full history was still to be read

server == <<stored, srvOpen, srvOwn, told>>
socket == <<link, subs, joins>>
tracking == <<stale, qjoined, ready, full>>
listener == <<own, listening>>
ghosts == <<excused, forgotten>>
vars == <<stored, srvOpen, srvOwn, told, link, subs, joins, wire, moves, windows, stale, qjoined,
          ready, full, topics, own, listening, pending, held, current, focus, task, excused, forgotten>>

Name == Nick \union {Me}
NoTask == [nick |-> None, after |-> 0, tail |-> FALSE]
NoFocus == [nick |-> None, origin |-> None]
Idle == task = NoTask

RowsOf(n) == {id \in DOMAIN stored : stored[id] = n}
NewestOf(k, ids) == {id \in ids : Cardinality({o \in ids : o > id}) < k}
OldestOf(k, ids) == {id \in ids : Cardinality({o \in ids : o < id}) < k}

TypeOK ==
    /\ stored \in Seq(Nick) /\ srvOpen \subseteq Nick /\ srvOwn \in Name
    /\ subs \subseteq Name /\ topics \subseteq Name /\ windows \subseteq Nick
    /\ ready \subseteq Nick /\ own \in Name /\ listening \subseteq Name
    /\ Len(pending) <= MaxPending
    /\ current \in Nick \union {None}
    /\ held \in [Name -> SUBSET DOMAIN stored]

Init ==
    /\ stored = <<>> /\ srvOpen = {} /\ srvOwn = Me /\ told = {}
    /\ link = "up" /\ subs = {} /\ joins = {Me} /\ wire = <<>> /\ moves = 0
    /\ windows = {} /\ stale = {} /\ qjoined = {} /\ ready = {} /\ full = {}
    /\ topics = {Me} /\ own = Me /\ listening = {} /\ pending = <<>>
    /\ held = [n \in Name |-> {}] /\ current = None /\ focus = NoFocus
    /\ task = NoTask /\ excused = {} /\ forgotten = {}

-----------------------------------------------------------------------------
(* The server. *)

Event(kind, at) == [kind |-> kind, at |-> at]
Send(e) == wire' = Append(wire, e)
Carried(topic, e) == wire' = IF link = "up" /\ topic \in subs THEN Append(wire, e) ELSE wire

Room == Len(wire) < MaxWire
Calm == moves < MaxMoves /\ moves' = moves + 1 /\ Room

\* An inbound private message is announced on the topic of the own nick; the first
\* one of a nick opens its window.
InboundDm(n) ==
    /\ Len(stored) < MaxRows /\ n # srvOwn /\ Room
    /\ stored' = Append(stored, n) /\ srvOpen' = srvOpen \union {n}
    /\ Carried(srvOwn, [kind |-> "row", at |-> srvOwn, nick |-> n, id |-> Len(stored')])
    /\ excused' = IF link = "up" /\ srvOwn \in subs THEN excused
                  ELSE excused \union (ready \intersect {n})
    /\ UNCHANGED <<srvOwn, told, socket, moves, windows, tracking, topics, listener, pending,
                   held, current, focus, task, forgotten>>

\* An own message, from this device or from another, is announced on the query topic.
OwnRow(n) ==
    /\ Len(stored) < MaxRows /\ n \in srvOpen /\ Room
    /\ stored' = Append(stored, n)
    /\ Carried(n, [kind |-> "row", at |-> n, nick |-> n, id |-> Len(stored')])
    /\ UNCHANGED <<srvOpen, srvOwn, told, socket, moves, windows, tracking, topics, listener, pending,
                   held, current, focus, task, ghosts>>

\* open_query_window and close_query_window, of this device or of another.
ServerOpens(n) ==
    /\ Calm /\ srvOpen' = IF n \in srvOpen THEN srvOpen \ {n} ELSE srvOpen \union {n}
    /\ UNCHANGED <<stored, srvOwn, told, socket, wire, windows, tracking, topics, listener, pending, held,
                   current, focus, task, ghosts>>

\* The list of the windows goes out on the user topic.
ListSent ==
    /\ link = "up" /\ told # srvOpen /\ Room /\ told' = srvOpen /\ Send(Event("list", srvOpen))
    /\ UNCHANGED <<stored, srvOpen, srvOwn, socket, moves, windows, tracking, topics, listener,
                   pending, held, current, focus, task, ghosts>>

\* Not while a join is unanswered: the reply to a join that was left since is not modelled.
OwnNickMoves(x) ==
    /\ Calm /\ link = "up" /\ joins = {} /\ wire = <<>> /\ Idle /\ x # srvOwn /\ srvOwn' = x
    /\ Send(Event("own", x))
    /\ UNCHANGED <<stored, srvOpen, told, socket, windows, tracking, topics, listener, pending, held,
                   current, focus, task, ghosts>>

JoinAnswered(t) ==
    /\ link = "up" /\ t \in joins /\ joins' = joins \ {t}
    /\ \/ subs' = subs \union {t} /\ Send(Event("joined", t)) /\ UNCHANGED moves
       \/ Calm /\ subs' = subs /\ Send(Event("refused", t))
    /\ UNCHANGED <<server, link, windows, tracking, topics, listener, pending, held, current,
                   focus, task, ghosts>>

SocketLost ==
    /\ link = "up" /\ Calm /\ link' = "down" /\ subs' = {} /\ joins' = {}
    /\ Send(Event("lost", None))
    /\ UNCHANGED <<server, windows, tracking, topics, listener, pending, held, current, focus,
                   task, ghosts>>

\* The session joins its topics again; the user topic replays the window list.
SocketBack ==
    /\ link = "down" /\ link' = "up" /\ joins' = topics
    /\ Send(Event("list", srvOpen)) /\ told' = srvOpen
    /\ UNCHANGED <<stored, srvOpen, srvOwn, subs, moves, windows, tracking, topics, listener, pending, held,
                   current, focus, task, ghosts>>

-----------------------------------------------------------------------------
(* Reading history. *)

HighWater(n) == IF held[n] = {} THEN 0 ELSE Max(held[n])

\* A mutant: the newest local row is a checkpoint even when it came ahead of its history.
FetchWindowResumes(n, need) ==
    [nick |-> n, after |-> HighWater(n), tail |-> HighWater(n) = 0]

\* query_history_fetch_window: the tail when the history must be read in full.
FetchWindow(n, need) ==
    LET whole == n \in need \/ HighWater(n) = 0 IN
    [nick |-> n, after |-> IF whole THEN 0 ELSE HighWater(n), tail |-> whole]

\* A mutant: a window is ready once its history is read.
ReadyAfterAny(n) == ready \union {n}

\* mark_query_ready_after_history: only after the topic was acknowledged.
ReadyAfter(n) == IF n \in qjoined THEN ready \union {n} ELSE ready

\* fetch_history_pages: one page; the next follows when this one was full.
FetchPage ==
    /\ ~Idle
    /\ LET n == task.nick
           page == IF task.tail THEN NewestOf(TailPage, RowsOf(n))
                   ELSE OldestOf(AfterPage, {id \in RowsOf(n) : id > task.after}) IN
       /\ held' = [held EXCEPT ![n] = @ \union page]
       /\ IF ~task.tail /\ Cardinality(page) = AfterPage
          THEN task' = [task EXCEPT !.after = Max(page)] /\ UNCHANGED <<full, ready>>
          ELSE task' = NoTask /\ full' = full \ {n} /\ ready' = ReadyAfter(n)
       /\ excused' = IF task.tail THEN excused \ {n} ELSE excused
       /\ forgotten' = IF task.tail THEN forgotten \ {n} ELSE forgotten
    /\ UNCHANGED <<server, socket, wire, moves, windows, stale, qjoined, topics, listener,
                   pending, current, focus>>

FetchFails ==
    /\ ~Idle /\ task' = NoTask
    /\ UNCHANGED <<server, socket, wire, moves, windows, tracking, topics, listener, pending,
                   held, current, focus, ghosts>>

-----------------------------------------------------------------------------
(* Events. *)

Took(n, id) ==
    /\ held' = [held EXCEPT ![n] = @ \union {id}]
    /\ excused' = IF n \in Nick /\ n \notin ready /\ id \notin held[n]
                  THEN excused \union {n} ELSE excused

\* buffer_pending_own_nick_dm: the dropped one is read with the full history.
Buffer(n, id) ==
    /\ pending' = Append(IF Len(pending) < MaxPending THEN pending ELSE Tail(pending),
                         [nick |-> n, id |-> id])
    /\ full' = IF Len(pending) < MaxPending THEN full ELSE full \union {Head(pending).nick}

\* handle_frame, a private message of n on the topic of the own nick.
Heard(n, id) ==
    /\ IF own \notin listening
       THEN excused' = excused \union (ready \intersect {n}) /\ UNCHANGED <<held, pending, full>>
       ELSE IF n \in windows
       THEN /\ held' = [held EXCEPT ![n] = @ \union {id}]
            /\ full' = IF n \in ready THEN full ELSE full \union {n}
            /\ UNCHANGED <<excused, pending>>
       ELSE Buffer(n, id) /\ UNCHANGED <<held, excused>>
    /\ UNCHANGED <<windows, stale, qjoined, ready, topics, listener, current, focus, task, forgotten>>

\* handle_frame, a row on a query topic: a row of a closed window is dropped.  The
\* topic of the own nick is the listener's, whatever window has it too.
QueryRow(t, n, id) ==
    IF t = own THEN Heard(n, id)
    ELSE /\ IF t \notin windows /\ t \in stale THEN UNCHANGED <<held, excused>> ELSE Took(t, id)
         /\ UNCHANGED <<windows, tracking, topics, listener, pending, current, focus, task, forgotten>>

\* drain_pending_own_nick_dms, after the list is in place.
Drained(listed, need) ==
    LET mine(n) == {pending[i].id : i \in {j \in DOMAIN pending : pending[j].nick = n}}
        waiting == {pending[i].nick : i \in DOMAIN pending} IN
    /\ held' = [n \in Name |-> IF n \in listed THEN held[n] \union mine(n) ELSE held[n]]
    /\ full' = (need \ (waiting \ listed)) \union ((waiting \intersect listed) \ ready')
    /\ pending' = <<>>

\* apply_query_windows_snapshot: a window that is gone is not shown any more.
Snapshot(listed) ==
    /\ windows' = listed
    /\ current' = IF current \in listed THEN current ELSE None

\* reconcile_query_topic_tracking: the topic of a closed window stays joined, unread.
Tracked(listed) ==
    /\ stale' = (stale \union (windows \ listed)) \ listed
    /\ ready' = ready \ (windows \ listed)

\* handle_query_windows_list.
WindowList(listed) ==
    /\ Snapshot(listed) /\ Tracked(listed)
    /\ Drained(listed, full \intersect listed)
    /\ topics' = topics \union listed
    /\ joins' = IF link = "up" THEN joins \union (listed \ topics) ELSE joins
    /\ focus' = IF focus # NoFocus /\ current' # focus.origin THEN NoFocus ELSE focus
    /\ forgotten' = forgotten \union (full \ listed)
    /\ UNCHANGED <<qjoined, listener, task, excused>>

\* handle_query_join_reply and handle_own_nick_listener_join_reply.
Joined(t) ==
    /\ listening' = IF t = own /\ t \in topics THEN listening \union {t} ELSE listening
    /\ IF t \in windows
       THEN qjoined' = qjoined \union {t} /\ task' = FetchWindow(t, full)
       ELSE /\ qjoined' = IF t \in stale THEN qjoined \union {t} ELSE qjoined
            /\ UNCHANGED task
    /\ UNCHANGED <<windows, stale, ready, full, topics, own, pending, held, current, focus, ghosts>>

Refused(t) ==
    /\ listening' = IF t = own /\ t \in topics THEN listening \ {t} ELSE listening
    /\ IF t \in windows \union stale
       THEN qjoined' = qjoined \ {t} /\ ready' = ready \ {t} /\ topics' = topics \ {t}
       ELSE UNCHANGED <<qjoined, ready, topics>>
    /\ UNCHANGED <<windows, stale, full, own, pending, held, current, focus, task, ghosts>>

\* apply_own_nick_change: the old topic is left unless an open window owns it.
OwnNick(x) ==
    LET leaves == own \notin windows
        kept == IF leaves THEN topics \ {own} ELSE topics IN
    /\ own' = x
    /\ topics' = kept \union {x}
    /\ listening' = (listening \ {own}) \union (IF x \in kept /\ x \in qjoined THEN {x} ELSE {})
    /\ joins' = IF link = "up" /\ x \notin kept THEN (joins \ (topics \ kept)) \union {x}
                ELSE joins \ (topics \ kept)
    /\ subs' = subs \ (topics \ kept)
    /\ UNCHANGED <<windows, tracking, pending, held, current, focus, task, ghosts>>

\* reset_query_session_readiness.
Lost ==
    /\ qjoined' = {} /\ ready' = {} /\ listening' = {}
    /\ UNCHANGED <<windows, stale, full, topics, own, pending, held, current, focus, task, ghosts>>

ReadEvent ==
    /\ Idle /\ wire # <<>> /\ wire' = Tail(wire)
    /\ LET e == Head(wire) IN
       \/ e.kind = "row" /\ QueryRow(e.at, e.nick, e.id) /\ UNCHANGED <<subs, joins>>
       \/ e.kind = "list" /\ WindowList(e.at) /\ UNCHANGED subs
       \/ e.kind = "joined" /\ Joined(e.at) /\ UNCHANGED <<subs, joins>>
       \/ e.kind = "refused" /\ Refused(e.at) /\ UNCHANGED <<subs, joins>>
       \/ e.kind = "own" /\ OwnNick(e.at)
       \/ e.kind = "lost" /\ Lost /\ UNCHANGED <<subs, joins>>
    /\ UNCHANGED <<server, link, moves>>

-----------------------------------------------------------------------------
(* The user. *)

\* handle_select_query, up to its history read.
Selected(n) ==
    /\ topics' = topics \union {n}
    /\ joins' = IF link = "up" /\ n \notin topics THEN joins \union {n} ELSE joins
    /\ current' = n /\ focus' = NoFocus
    /\ task' = FetchWindow(n, full)
    /\ UNCHANGED <<server, link, subs, wire, windows, tracking, listener, pending, held, ghosts>>

SelectQuery(n) == Idle /\ n \in windows /\ n # current /\ Calm /\ Selected(n)

\* open_query_and_focus: a window that is not listed is asked for.
OpenAndFocus(n) ==
    /\ Idle /\ n \notin windows /\ focus = NoFocus /\ Calm
    /\ focus' = [nick |-> n, origin |-> current]
    /\ srvOpen' = srvOpen \union {n}
    /\ UNCHANGED <<stored, srvOwn, told, socket, wire, windows, tracking, topics, listener, pending, held,
                   current, task, ghosts>>

\* focus_pending_query, once the window is listed.
FocusPending ==
    /\ Idle /\ focus.nick \in windows /\ current = focus.origin
    /\ Selected(focus.nick) /\ UNCHANGED moves

FocusExpires ==
    /\ focus # NoFocus /\ focus' = NoFocus
    /\ UNCHANGED <<server, socket, wire, moves, windows, tracking, topics, listener, pending,
                   held, current, task, ghosts>>

-----------------------------------------------------------------------------
Next ==
    \/ \E n \in Nick : InboundDm(n) \/ OwnRow(n) \/ ServerOpens(n) \/ SelectQuery(n) \/ OpenAndFocus(n)
    \/ \E x \in Name : OwnNickMoves(x) \/ JoinAnswered(x)
    \/ SocketLost \/ SocketBack \/ ListSent \/ ReadEvent \/ FetchPage \/ FetchFails
    \/ FocusPending \/ FocusExpires

Spec == Init /\ [][Next]_vars

-----------------------------------------------------------------------------
Settled == link = "up" /\ wire = <<>> /\ told = srvOpen /\ Idle /\ joins = {}

(* A ready window, whose composer is enabled, has its topic on the socket    *)
(* and shows the newest page of its conversation: what came in while the     *)
(* window was closed, unread, buffered or dropped from the buffer is read    *)
(* with its history.  Excused are a window that took a live row of its topic *)
(* before it was ready, and one that was closed with its full history still  *)
(* to be read.                                                               *)
ReadyIsLive ==
    Settled => /\ ready \subseteq subs
               /\ \A n \in ready \ (excused \union forgotten) :
                      NewestOf(TailPage, RowsOf(n)) \subseteq held[n]

(* A window that was closed and comes back loads its latest tail before its  *)
(* composer is enabled again, also when it was closed with its full history  *)
(* still to be read.                                                         *)
ReopenLoadsTail ==
    Settled => \A n \in ready \ excused : NewestOf(TailPage, RowsOf(n)) \subseteq held[n]

=============================================================================
