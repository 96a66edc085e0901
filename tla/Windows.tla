------------------------------ MODULE Windows ------------------------------
(***************************************************************************)
(* The channel windows of the sidebar: the rows, their lifecycle states,   *)
(* the topics behind them and the networks they hang on (frames.rs,        *)
(* channels.rs, the session events of main.rs).                            *)
(*                                                                         *)
(* The worker handles one command or event at a time and waits for its     *)
(* REST calls inside the handler.  The events of the socket come in order, *)
(* but a REST answer shows the server as it is now, ahead of the pushes    *)
(* that still wait.  A push that is sent while the socket is down is lost. *)
(***************************************************************************)
EXTENDS Naturals, Sequences, SequencesExt, FiniteSets

CONSTANTS
    Network,    \* the networks of the account
    NetOf,      \* the channels, each with its network
    Attachable, \* the networks that may be attached and detached
    Forced,     \* whether Grappa may report a join that nobody asked for
    MaxQueue,   \* bound: pushes that wait
    MaxEvents   \* bound: events at the server and on the socket

ASSUME WindowsConstants ==
    IsFiniteSet(DOMAIN NetOf) /\ NetOf \in [DOMAIN NetOf -> Network]

VARIABLES
    session,    \* conn.session is Some
    nets,       \* network_ids
    conn,       \* network_connection_states
    connecting, \* connecting_networks
    collapsed,  \* the networks with expanded_networks = false
    entries,    \* channel_entries: the rows
    ws,         \* window_states, "none" without an entry
    failures, kicks, inviters,  \* the keys of the three metadata maps
    ctopics,    \* channel_topics
    joined,     \* joined_topics, the part that is a channel topic
    held,       \* the topics that the session task keeps joined
    roster,     \* the keys of members
    current,    \* current_channel, or "home"
    recents,    \* recent_channels, newest first
    \* the server and the way to it
    sv,         \* what Grappa holds of each channel
    auto,       \* its autojoin channels
    snets, sconn, link,
    queue,      \* the session events on their way to the worker
    parts,      \* PART calls of dismissed windows that run in the background
    missed,     \* a push or an answer was lost since the sign-in
    again,      \* the networks attached again since the sign-in
    events

books == <<entries, ws, failures, kicks, inviters, ctopics, joined>>
view == <<collapsed, current, recents, roster>>
networks == <<nets, conn, connecting>>
server == <<sv, auto, snets, sconn>>
bounds == <<missed, again, events>>
vars == <<session, networks, view, books, held, server, link, queue, parts, bounds>>

Channel == DOMAIN NetOf
Unlisted == {"pending", "invited", "failed", "kicked"}
Status == {"connected", "parked", "failed"}
ServerWindow == "$server"
Push(k, x) == [kind |-> k, of |-> x]

(* The elements of S that are in the list s, in its order. *)
Only(s, S) ==
    LET at == {i \in DOMAIN s : s[i] \in S}
    IN [k \in 1 .. Cardinality(at) |->
          s[CHOOSE i \in at : Cardinality({j \in at : j <= i}) = k]]

-----------------------------------------------------------------------------
(* Grappa's answers *)

BootNets == snets
BootRows == {c \in Channel : NetOf[c] \in snets /\ (sv[c] = "joined" \/ c \in auto)}
BootStates == [c \in Channel |-> IF sv[c] = "joined" /\ NetOf[c] \in snets THEN "joined" ELSE "none"]

(* What Grappa says of the channels cs. *)
Told(cs) == LET s == SetToSeq(cs) IN [i \in DOMAIN s |-> Push(sv[s[i]], s[i])]
Rosters(cs) == LET s == SetToSeq(cs) IN [i \in DOMAIN s |-> Push("seeded", s[i])]

(* A joined topic is answered by a snapshot of the channel: its state, and   *)
(* then the roster of a joined one.  The topics answer each for itself.      *)
Snapshots(cs) ==
    Told({c \in cs : sv[c] \in {"joined", "failed", "kicked"}})
    \o Rosters({c \in cs : sv[c] = "joined"})

(* The user topic replays what waits for an answer. *)
Replayed == Told({c \in Channel : sv[c] \in {"pending", "invited"}})

(* SessionHandle::leave_topic and join_topic, when there is a session, *)
(* before the rest of the queue q. *)
Topics(q, leave, join) ==
    /\ held' = IF session THEN (held \ leave) \cup join ELSE held
    /\ queue' = IF session /\ link = "up" THEN q \o Snapshots(join \ held) ELSE q

Waiting(k) == session /\ queue # << >> /\ Head(queue).kind = k
Read == queue' = Tail(queue) /\ UNCHANGED held

-----------------------------------------------------------------------------
(* The lifecycle of a window *)

SetPending(c) ==
    /\ ws' = [ws EXCEPT ![c] = "pending"]
    /\ failures' = failures \ {c} /\ kicks' = kicks \ {c} /\ inviters' = inviters \ {c}

SetInvited(c) ==
    /\ ws' = [ws EXCEPT ![c] = "invited"]
    /\ failures' = failures \ {c} /\ kicks' = kicks \ {c} /\ inviters' = inviters \cup {c}

SetJoinedKeepsInviter(c) ==
    /\ ws' = [ws EXCEPT ![c] = "joined"]
    /\ failures' = failures \ {c} /\ kicks' = kicks \ {c} /\ UNCHANGED inviters

SetJoined(c) ==
    /\ ws' = [ws EXCEPT ![c] = "joined"]
    /\ failures' = failures \ {c} /\ kicks' = kicks \ {c} /\ inviters' = inviters \ {c}

SetFailed(c) ==
    /\ ws' = [ws EXCEPT ![c] = "failed"]
    /\ failures' = failures \cup {c} /\ kicks' = kicks \ {c} /\ inviters' = inviters \ {c}

SetKicked(c) ==
    /\ ws' = [ws EXCEPT ![c] = "kicked"]
    /\ failures' = failures \ {c} /\ kicks' = kicks \cup {c} /\ inviters' = inviters \ {c}

ClearWindow(c) ==
    /\ ws' = [ws EXCEPT ![c] = "none"]
    /\ failures' = failures \ {c} /\ kicks' = kicks \ {c} /\ inviters' = inviters \ {c}

Upsert(c) == entries' = entries \cup {c}

Register(c) == ctopics' = ctopics \cup {c} /\ joined' = joined \cup {c}

KeptUnlessFailed(list, known) ==
    list \cup {c \in entries : ws[c] \in {"pending", "invited"} /\ NetOf[c] \in known}

(* reconcile_channel_entries_in: the rows of the list and the rows that no *)
(* list can show. *)
Kept(list, known) ==
    list \cup {c \in entries : ws[c] \in Unlisted /\ NetOf[c] \in known}

JoinedAfter(next) == (joined \ (ctopics \ next)) \cup next
Rows(next) == entries' = next /\ ctopics' = next
Reconcile(next) == Rows(next) /\ joined' = JoinedAfter(next)

(* The differences that the caller hands to the session. *)
Leaves(next) == (ctopics \ next) \cap joined
Joins(next) == next \ joined

-----------------------------------------------------------------------------
(* Networks *)

(* record_network_connection_state, collapse_if_parked and                 *)
(* return_home_if_network_selected, for the networks whose status changes. *)
Recorded(next) ==
    LET changed == {n \in nets : next[n] # conn[n]}
        down == {n \in changed : next[n] \in {"parked", "failed"}}
    IN /\ conn' = [n \in Network |-> IF n \in nets THEN next[n] ELSE conn[n]]
       /\ collapsed' = collapsed \cup {n \in changed : next[n] = "parked"}
       /\ current' = IF current \in Channel /\ NetOf[current] \in down THEN "home" ELSE current
       /\ UNCHANGED <<recents, roster>>

(* obsolete_topics: the topics of the networks that /boot does not name. *)
Obsolete(topics) == {c \in topics : NetOf[c] \notin BootNets}

(* apply_network_rest_refresh: the network list of /boot is authoritative. *)
RestRefresh ==
    LET next == Kept(BootRows, BootNets)
        stays(c) == ws[c] \in Unlisted /\ NetOf[c] \in BootNets /\ BootStates[c] = "none"
        kept == {c \in Channel : stays(c)}
        lost == Obsolete(JoinedAfter(next))
    IN /\ Rows(next) /\ joined' = JoinedAfter(next) \ lost
       /\ ws' = [c \in Channel |-> IF stays(c) THEN ws[c] ELSE BootStates[c]]
       /\ failures' = failures \cap kept
       /\ kicks' = kicks \cap kept
       /\ inviters' = inviters \cap kept
       /\ roster' = {}
       /\ recents' = Only(recents, {c \in Channel : NetOf[c] \in BootNets})
       /\ nets' = BootNets /\ conn' = sconn /\ connecting' = connecting \cap BootNets
       /\ Topics(Tail(queue), Leaves(next) \cup lost, Joins(next))

(* The network of the event shows no window any more. *)
Left(n) ==
    /\ collapsed' = IF n \in BootNets /\ sconn[n] = "parked"
                    THEN (collapsed \cap BootNets) \cup {n} ELSE collapsed \cap BootNets
    /\ current' = IF current \in Channel /\ NetOf[current] = n
                     /\ (n \notin BootNets \/ sconn[n] = "parked") THEN "home" ELSE current

-----------------------------------------------------------------------------
(* The handlers of the pushes *)

Of == Head(queue).of
NetworkStays == UNCHANGED networks
OutsideStays == UNCHANGED <<session, server, link, parts, again, events>>

Ignored == Read /\ UNCHANGED <<books, networks, view, missed>>

WindowPending ==
    /\ Waiting("pending") /\ OutsideStays
    /\ \/ NetOf[Of] \notin nets /\ Ignored
       \/ /\ NetOf[Of] \in nets
          /\ SetPending(Of) /\ Upsert(Of) /\ Register(Of)
          /\ Topics(Tail(queue), {}, {Of} \ joined)
          /\ NetworkStays /\ UNCHANGED <<view, missed>>

WindowInvited ==
    /\ Waiting("invited") /\ OutsideStays
    /\ \/ NetOf[Of] \notin nets /\ Ignored
       \/ /\ NetOf[Of] \in nets
          /\ SetInvited(Of) /\ Upsert(Of) /\ Register(Of)
          /\ Topics(Tail(queue), {}, {Of} \ joined)
          /\ NetworkStays /\ UNCHANGED <<view, missed>>

InviteDeclined ==
    /\ Waiting("declined") /\ OutsideStays
    /\ \/ NetOf[Of] \notin nets /\ Ignored
       \/ /\ NetOf[Of] \in nets
          /\ ClearWindow(Of) /\ entries' = entries \ {Of}
          /\ ctopics' = ctopics \ {Of} /\ joined' = joined \ {Of}
          /\ Topics(Tail(queue), {Of}, {})
          /\ NetworkStays /\ UNCHANGED <<view, missed>>

(* The three reports below do not look at the network. *)
WindowJoined ==
    /\ Waiting("joined") /\ OutsideStays
    /\ SetJoined(Of) /\ Upsert(Of) /\ Read
    /\ NetworkStays /\ UNCHANGED <<view, ctopics, joined, missed>>

JoinFailed ==
    /\ Waiting("failed") /\ OutsideStays
    /\ SetFailed(Of) /\ Upsert(Of) /\ Read
    /\ NetworkStays /\ UNCHANGED <<view, ctopics, joined, missed>>

WindowKicked ==
    /\ Waiting("kicked") /\ OutsideStays
    /\ SetKicked(Of) /\ Upsert(Of) /\ Read
    /\ roster' = roster \ {Of}
    /\ NetworkStays /\ UNCHANGED <<collapsed, current, recents, ctopics, joined, missed>>

MembersSeeded ==
    /\ Waiting("seeded") /\ OutsideStays
    /\ roster' = roster \cup {Of} /\ Read
    /\ NetworkStays /\ UNCHANGED <<books, collapsed, current, recents, missed>>

(* A signal: the lists of the known networks are read again, all or none. *)
ChannelsChanged ==
    /\ Waiting("changed") /\ OutsideStays
    /\ LET next == Kept({c \in BootRows : NetOf[c] \in nets}, nets)
       IN /\ Reconcile(next) /\ Topics(Tail(queue), Leaves(next), Joins(next))
    /\ NetworkStays /\ UNCHANGED <<view, ws, failures, kicks, inviters, missed>>

ChannelsNotRead ==
    /\ Waiting("changed") /\ OutsideStays
    /\ Read /\ missed' = TRUE
    /\ NetworkStays /\ UNCHANGED <<books, view>>

StaleUnknown(k, n) == n \notin nets

(* A detach of an unknown network and an attach that /boot does not know *)
(* are stale. *)
Stale(k, n) == IF k = "detached" THEN n \notin nets ELSE n \notin BootNets

NetworkLifecycle ==
    \E k \in {"attached", "detached"} :
       /\ Waiting(k) /\ OutsideStays
       /\ \/ Stale(k, Of) /\ Ignored
          \/ /\ ~Stale(k, Of)
             /\ RestRefresh /\ Left(Of) /\ UNCHANGED missed

LifecycleNotRead ==
    \E k \in {"attached", "detached"} :
       /\ Waiting(k) /\ OutsideStays
       /\ k = "detached" => Of \in nets
       /\ Read /\ missed' = TRUE
       /\ NetworkStays /\ UNCHANGED <<books, view>>

(* The status of the event, then the list of networks when it is read. *)
ConnectionState ==
    /\ Waiting("status") /\ OutsideStays
    /\ \/ Of.net \notin nets /\ Ignored
       \/ /\ Of.net \in nets
          /\ \E read \in BOOLEAN :
               Recorded(IF read THEN [n \in Network |-> IF n \in snets THEN sconn[n] ELSE conn[n]]
                        ELSE [conn EXCEPT ![Of.net] = Of.to])
          /\ Read /\ UNCHANGED <<books, nets, connecting, missed>>

ConnectionProgress ==
    \/ /\ Waiting("connecting") /\ OutsideStays
       /\ Read /\ connecting' = IF Of \in nets THEN connecting \cup {Of} ELSE connecting
       /\ UNCHANGED <<books, view, nets, conn, missed>>
    \/ /\ Waiting("welcome") /\ OutsideStays
       /\ Read /\ connecting' = IF Of \in nets THEN connecting \ {Of} ELSE connecting
       /\ \E read \in BOOLEAN :
            /\ IF read /\ Of \in nets
               THEN Recorded([n \in Network |-> IF n \in snets THEN sconn[n] ELSE conn[n]])
               ELSE UNCHANGED <<conn, view>>
            /\ missed' = (missed \/ ~read)
       /\ UNCHANGED <<books, nets>>

(* SessionEvent::Disconnected, Reconnecting *)
SessionLost ==
    /\ Waiting("lost") /\ OutsideStays
    /\ Read /\ connecting' = {}
    /\ UNCHANGED <<books, view, nets, conn, missed>>

(* SessionEvent::Connected: the rows are not read again. *)
SessionConnected ==
    /\ Waiting("up") /\ OutsideStays
    /\ Read /\ UNCHANGED <<books, view, networks, missed>>

Frames ==
    \/ WindowPending \/ WindowInvited \/ InviteDeclined
    \/ WindowJoined \/ JoinFailed \/ WindowKicked \/ MembersSeeded
    \/ ChannelsChanged \/ ChannelsNotRead
    \/ NetworkLifecycle \/ LifecycleNotRead
    \/ ConnectionState \/ ConnectionProgress
    \/ SessionLost \/ SessionConnected

-----------------------------------------------------------------------------
(* The commands of the user *)

Selected(c) ==
    /\ current' = c
    /\ recents' = <<c>> \o Only(recents, Channel \ {c})

SelectChannel(c) ==
    /\ c \in entries /\ current # c
    /\ Selected(c)
    /\ IF session THEN joined' = joined \cup {c} /\ Topics(queue, {}, {c} \ joined)
                  ELSE UNCHANGED <<joined, queue, held>>
    /\ NetworkStays /\ OutsideStays
    /\ UNCHANGED <<entries, ws, failures, kicks, inviters, ctopics, collapsed, roster, missed>>

(* handle_part_channel: the joins among the differences are not sent. *)
PartChannel(c) ==
    /\ ws[c] = "joined" /\ c \in entries
    /\ sv[c] = "joined" /\ Len(queue) < MaxQueue
    /\ LET next == Kept(entries \ {c}, nets)
       IN /\ Reconcile(next)
          /\ held' = held \ Leaves(next)
    /\ ClearWindow(c)
    /\ roster' = roster \ {c}
    /\ current' = IF current = c THEN "home" ELSE current
    /\ recents' = Only(recents, Channel \ {c})
    /\ sv' = [sv EXCEPT ![c] = "out"] /\ auto' = auto \ {c}
    /\ queue' = IF session /\ link = "up" THEN Append(queue, Push("changed", ServerWindow)) ELSE queue
    /\ missed' = (missed \/ link # "up")
    /\ UNCHANGED <<session, networks, collapsed, snets, sconn, link, parts, again, events>>

(* The row goes at once, the PART runs in the background and the topic stays. *)
NextAfter(rows) ==
    LET live == Only(recents, rows)
    IN IF live = << >> THEN "home" ELSE Head(live)

DismissKicked(c) ==
    /\ ws[c] = "kicked" /\ c \in entries /\ parts = {}
    /\ ClearWindow(c) /\ entries' = entries \ {c}
    /\ parts' = parts \cup {c}
    /\ LET next == NextAfter(entries \ {c})
       IN IF current = c /\ next \in Channel THEN Selected(next)
          ELSE current' = (IF current = c THEN "home" ELSE current) /\ UNCHANGED recents
    /\ NetworkStays
    /\ UNCHANGED <<session, ctopics, joined, held, collapsed, roster, server, link, queue, bounds>>

(* decline_invite: the row waits for the push. *)
DeclineInvite(c) ==
    /\ ws[c] = "invited" /\ sv[c] = "invited" /\ Len(queue) < MaxQueue
    /\ sv' = [sv EXCEPT ![c] = "out"]
    /\ queue' = IF session /\ link = "up" THEN Append(queue, Push("declined", c)) ELSE queue
    /\ missed' = (missed \/ link # "up")
    /\ NetworkStays
    /\ UNCHANGED <<session, books, view, held, auto, snets, sconn, link, parts, again, events>>

(* finish_connect: the projection of /boot, and the topics of its rows. *)
SignIn ==
    /\ ~session /\ session' = TRUE
    /\ nets' = BootNets /\ conn' = sconn /\ connecting' = {}
    /\ entries' = BootRows /\ ctopics' = BootRows /\ joined' = BootRows /\ held' = BootRows
    /\ ws' = BootStates /\ failures' = {} /\ kicks' = {} /\ inviters' = {}
    /\ current' = "home" /\ recents' = << >> /\ roster' = {}
    /\ queue' = << >> /\ missed' = FALSE /\ again' = {}
    /\ UNCHANGED <<collapsed, server, link, parts, events>>

(* SessionEvent::JoinRefused, CertificateRejected, UpgradeRequired *)
SessionRefused ==
    /\ session /\ link = "down" /\ queue = << >>
    /\ session' = FALSE /\ held' = {}
    /\ NetworkStays
    /\ UNCHANGED <<books, view, server, link, queue, parts, bounds>>

Commands ==
    \/ \E c \in Channel : SelectChannel(c) \/ PartChannel(c) \/ DismissKicked(c) \/ DeclineInvite(c)
    \/ SignIn \/ SessionRefused

-----------------------------------------------------------------------------
(* Grappa and the socket *)

Event == events < MaxEvents /\ events' = events + 1 /\ Len(queue) < MaxQueue
ClientStays == UNCHANGED <<session, networks, view, books, held>>
Pushed(s) ==
    /\ queue' = IF session /\ link = "up" THEN queue \o s ELSE queue
    /\ missed' = (missed \/ link # "up")

Moves(c) ==
    CASE sv[c] = "out"     -> {"pending", "invited"} \cup (IF Forced THEN {"joined"} ELSE {})
      [] sv[c] = "pending" -> {"joined", "failed"}
      [] sv[c] = "invited" -> {"pending", "out"}
      [] sv[c] = "joined"  -> {"kicked", "out"}
      [] OTHER             -> {"pending"}

ServerMoves(c) ==
    /\ Event /\ NetOf[c] \in snets /\ sconn[NetOf[c]] = "connected"
    /\ \E to \in Moves(c) :
         /\ sv' = [sv EXCEPT ![c] = to]
         /\ auto' = IF to = "joined" THEN auto \cup {c}
                    ELSE IF to = "out" THEN auto \ {c} ELSE auto
         /\ Pushed(CASE to = "out" /\ sv[c] = "invited" -> <<Push("declined", c)>>
                     [] to = "out" /\ sv[c] # "invited" -> <<Push("changed", ServerWindow)>>
                     [] to = "joined" -> <<Push("joined", c), Push("changed", ServerWindow)>>
                                         \o (IF c \in held THEN <<Push("seeded", c)>> ELSE << >>)
                     [] to = "kicked" -> <<Push("kicked", c), Push("changed", ServerWindow)>>
                     [] OTHER -> <<Push(to, c)>>)
    /\ ClientStays /\ UNCHANGED <<snets, sconn, link, parts, again>>

ServerAttaches(n) ==
    /\ Event /\ n \in Attachable
    /\ snets' = IF n \in snets THEN snets \ {n} ELSE snets \cup {n}
    /\ sv' = [c \in Channel |-> IF NetOf[c] = n THEN "out" ELSE sv[c]]
    /\ auto' = {c \in auto : NetOf[c] # n}
    /\ sconn' = [sconn EXCEPT ![n] = "connected"]
    /\ Pushed(<<Push(IF n \in snets THEN "detached" ELSE "attached", n)>>)
    /\ again' = IF n \in snets THEN again ELSE again \cup {n}
    /\ ClientStays /\ UNCHANGED <<link, parts>>

(* A network is parked or fails, and connects again. *)
ServerConnects(n) ==
    /\ Event /\ n \in snets
    /\ IF sconn[n] = "connected"
       THEN /\ \E to \in {"parked", "failed"} :
                 /\ sconn' = [sconn EXCEPT ![n] = to]
                 /\ Pushed(<<Push("status", [net |-> n, to |-> to]), Push("changed", ServerWindow)>>)
            /\ sv' = [c \in Channel |-> IF NetOf[c] = n /\ sv[c] = "joined" THEN "out" ELSE sv[c]]
       ELSE /\ sconn' = [sconn EXCEPT ![n] = "connected"]
            /\ Pushed(<<Push("connecting", n), Push("welcome", n)>>) /\ UNCHANGED sv
    /\ ClientStays /\ UNCHANGED <<auto, snets, link, parts, again>>

(* The PART of a dismissed window, which may come after a new join, or     *)
(* after a list or a snapshot brought the row back: that row stays.        *)
Returned(c) == c \in entries \/ \E i \in DOMAIN queue : queue[i] = Push("kicked", c)

BackgroundPart(c) ==
    /\ c \in parts /\ Len(queue) < MaxQueue /\ parts' = parts \ {c}
    /\ \/ /\ sv[c] \in {"kicked", "joined"}
          /\ sv' = [sv EXCEPT ![c] = "out"] /\ auto' = auto \ {c}
          /\ queue' = IF session /\ link = "up" THEN Append(queue, Push("changed", ServerWindow)) ELSE queue
          /\ missed' = (missed \/ link # "up" \/ Returned(c))
       \/ missed' = TRUE /\ UNCHANGED <<sv, auto, queue>>
    /\ ClientStays /\ UNCHANGED <<snets, sconn, link, again, events>>

LinkLost ==
    /\ Event /\ session /\ link = "up" /\ link' = "down"
    /\ \E k \in 0 .. Len(queue) :
         /\ queue' = Append(SubSeq(queue, 1, k), Push("lost", ServerWindow))
         /\ missed' = (missed \/ k < Len(queue))
    /\ ClientStays /\ UNCHANGED <<server, parts, again>>

(* The session joins its topics again and the server replays. *)
LinkBack ==
    /\ session /\ link = "down" /\ link' = "up"
    /\ queue' = queue \o <<Push("up", ServerWindow)>> \o Replayed \o Snapshots(held)
    /\ ClientStays /\ UNCHANGED <<server, parts, bounds>>

Outside ==
    \/ \E c \in Channel : ServerMoves(c) \/ BackgroundPart(c)
    \/ \E n \in Network : ServerAttaches(n) \/ ServerConnects(n)
    \/ LinkLost \/ LinkBack

Init ==
    /\ sv \in [Channel -> {"out", "joined", "kicked"}]
    /\ auto = {c \in Channel : sv[c] # "out"}
    /\ snets = Network /\ sconn = [n \in Network |-> "connected"] /\ link = "down"
    /\ session = FALSE /\ nets = {} /\ conn = sconn /\ connecting = {} /\ collapsed = {}
    /\ entries = {} /\ ws = [c \in Channel |-> "none"]
    /\ failures = {} /\ kicks = {} /\ inviters = {}
    /\ ctopics = {} /\ joined = {} /\ held = {} /\ roster = {}
    /\ current = "home" /\ recents = << >>
    /\ queue = << >> /\ parts = {} /\ missed = FALSE /\ again = {} /\ events = 0

Next == Frames \/ Commands \/ Outside
Spec == Init /\ [][Next]_vars

-----------------------------------------------------------------------------
(* Properties *)

(* Types. *)
TypeOK ==
    /\ session \in BOOLEAN /\ link \in {"up", "down"}
    /\ nets \subseteq Network /\ conn \in [Network -> Status]
    /\ entries \subseteq Channel /\ ws \in [Channel -> Unlisted \cup {"none", "joined"}]
    /\ ctopics \subseteq Channel /\ joined \subseteq Channel /\ held \subseteq Channel
    /\ current \in Channel \cup {"home"} /\ recents \in Seq(Channel)

Settled == session /\ link = "up" /\ queue = << >> /\ parts = {} /\ ~missed

(* The metadata of a window (the reason of a failure, the actor of a kick, *)
(* the inviter of the banner) is there exactly while its state is,  *)
(* whatever reports, refreshes, declines and dismissals come in between.   *)
MetaFollowsState ==
    /\ TypeOK
    /\ failures = {c \in Channel : ws[c] = "failed"}
    /\ kicks = {c \in Channel : ws[c] = "kicked"}
    /\ inviters = {c \in Channel : ws[c] = "invited"}

(* When every push is read and none was lost, the sidebar shows what the    *)
(* server holds: the networks and their status, a row with the right state *)
(* and a registered topic for every channel that is joined, waits for its  *)
(* join or is an invitation, and no row that the server does not know.     *)
SettledAgrees ==
    Settled =>
       /\ nets = snets
       /\ \A n \in nets : conn[n] = sconn[n]
       /\ \A c \in Channel : NetOf[c] \in nets =>
            /\ sv[c] \in {"joined", "pending", "invited"} =>
                 c \in entries /\ ws[c] = sv[c] /\ c \in ctopics /\ c \in joined
            /\ c \in entries /\ sv[c] \in {"failed", "kicked"} => ws[c] = sv[c]
            /\ c \in entries /\ NetOf[c] \notin again => c \in auto \/ sv[c] # "out"

(* No refresh of the channel list removes the row of a window that no list *)
(* shows: such a row goes only together with the state of its window.      *)
KeepsPseudoRows ==
    \A c \in entries \ entries' : ws[c] \in Unlisted /\ NetOf[c] \in nets => ws'[c] = "none"
PseudoRowKept == [][KeepsPseudoRows]_vars

(* A joined channel has its roster when everything is read.                *)
RosterSeeded == Settled => \A c \in held : sv[c] = "joined" => c \in roster

(* The metadata follows the states, and when every push is read the sidebar *)
(* shows what the server holds.                                             *)
SidebarSound == MetaFollowsState /\ SettledAgrees

=============================================================================
