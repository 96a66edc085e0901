----------------------------- MODULE Transcript -----------------------------
(***************************************************************************)
(* The rows of one channel window: the head that sign-in brought, live     *)
(* rows, the catch-up after a lost socket, older pages, the trim of a long *)
(* window, and the read cursor and unread count that go with them.         *)
(*                                                                         *)
(* A row is its server id.  The worker reads one event at a time; a        *)
(* catch-up is a probe and a read with an await between them, so that the  *)
(* server and the socket move between the two.                             *)
(***************************************************************************)
EXTENDS Naturals, Sequences, FiniteSets, FiniteSetsExt, SequencesExt

CONSTANTS
    MaxRows,      \* rows the server stores for the channel
    HeadRows,     \* rows of a channel in the boot response
    CatchUpPage,  \* CATCH_UP_PAGE
    OlderPage,    \* OLDER_HISTORY_PAGE
    Cap, Slack,   \* CHAT_HISTORY_CAP, CHAT_HISTORY_TRIM_SLACK
    MaxFaults,    \* losses, kicks and failed writes in a behaviour
    MaxWire       \* events that wait for the worker

ASSUME TranscriptConstants ==
    /\ HeadRows \in Nat /\ MaxRows \in Nat /\ HeadRows < MaxRows
    /\ CatchUpPage \in Nat \ {0} /\ OlderPage \in Nat \ {0}
    /\ Cap \in Nat /\ Slack \in Nat

VARIABLES
    last,      \* server: the newest row
    srvCursor, \* server: the read cursor, 0 for none
    member,    \* server: the account is in the channel
    link,      \* the socket: up, down
    sub,       \* the channel topic is joined on this socket
    wire,      \* events the session task hands to the worker, in order
    faults,
    rows,      \* messages of the window
    joined,    \* window_states has Joined
    anchor,    \* catch_up_anchors, 0 for none
    due,       \* CatchUpNext waits in the worker queue
    plan,      \* the catch-up under way, between its probe and its read
    fetched,   \* history_cursors_fetched
    reached,   \* history_start_reached
    open,      \* current_channel is this window
    bottom,    \* chat_visible and chat_follow_bottom
    rebuild,   \* RebuildChat with trim waits in the worker queue
    cursor,    \* read_cursors
    posts,     \* cursor writes in flight
    missed,    \* history: rows stored while the socket was down, for a window that the
               \* loss finds joined
    excuses,   \* history: why a hole is excused: a failed catch-up, one that ran too early
    unposted,  \* history: a cursor write failed
    leftAt     \* history: the newest row held when the reader last left it from the bottom

server == <<last, srvCursor, member>>
socket == <<link, sub, faults>>
view == <<open, bottom>>
paging == <<fetched, reached>>
reading == <<cursor, posts>>
ghosts == <<missed, excuses, unposted, leftAt>>
catching == <<anchor, due, plan>>
vars == <<last, srvCursor, member, link, sub, wire, faults, rows, joined, anchor, due, plan,
          fetched, reached, open, bottom, rebuild, cursor, posts,
          missed, excuses, unposted, leftAt>>

None == 0
NoPlan == [kind |-> "none", anchor |-> None]

Oldest == IF rows = {} THEN None ELSE Min(rows)
HighWater(held) == IF held = {} THEN None ELSE Max(held)
Newest(n, from, to) == {id \in from .. to : id + n > to}

TypeOK ==
    /\ last \in 0 .. MaxRows /\ srvCursor \in 0 .. MaxRows /\ rows \subseteq 1 .. last
    /\ cursor \in 0 .. last /\ posts \subseteq 1 .. last /\ fetched \subseteq 1 .. last
    /\ anchor \in 0 .. last /\ leftAt \in 0 .. last
    /\ plan \in [kind : {"none", "forward", "reload"}, anchor : 0 .. last]
    /\ missed \subseteq 1 .. last

Init ==
    /\ last = HeadRows + 1 /\ srvCursor = 0 /\ member = TRUE
    /\ link = "up" /\ sub = TRUE /\ wire = <<>> /\ faults = 0
    /\ rows = Newest(HeadRows, 1, last) /\ joined = TRUE
    /\ anchor = None /\ due = FALSE /\ plan = NoPlan
    /\ fetched = {} /\ reached = FALSE
    /\ open = FALSE /\ bottom = TRUE /\ rebuild = FALSE
    /\ cursor = srvCursor /\ posts = {}
    /\ missed = {} /\ excuses = {} /\ unposted = FALSE /\ leftAt = 0

-----------------------------------------------------------------------------
(* The server and the socket. *)

Event(kind, id) == [kind |-> kind, id |-> id]

Pushed(event) ==
    IF link = "up" /\ sub
    THEN Len(wire) < MaxWire /\ wire' = Append(wire, event) ELSE wire' = wire

\* window_states once the events before the i-th are read.
JoinedAt(i) ==
    \/ joined /\ \A j \in 1 .. i - 1 : wire[j].kind # "state"
    \/ \E j \in 1 .. i - 1 : /\ wire[j] = Event("state", 1)
                             /\ \A k \in j + 1 .. i - 1 : wire[k].kind # "state"

ServerRow ==
    /\ member /\ last < MaxRows
    /\ last' = last + 1
    /\ missed' = IF link = "down" /\ JoinedAt(Len(wire) + 1) THEN missed \union {last'} ELSE missed
    /\ Pushed(Event("row", last'))
    /\ UNCHANGED <<srvCursor, member, socket, rows, joined, catching, paging, view, rebuild,
                   reading, excuses, unposted, leftAt>>

\* set_read_cursor: the server takes only a later cursor.
CursorLands(id) ==
    /\ id \in posts
    /\ posts' = posts \ {id}
    /\ srvCursor' = IF id > srvCursor THEN id ELSE srvCursor
    /\ Pushed(Event("cursor", srvCursor'))
    /\ UNCHANGED <<last, member, socket, rows, joined, catching, paging, view, rebuild, cursor,
                   ghosts>>

CursorFails(id) ==
    /\ id \in posts /\ faults < MaxFaults /\ faults' = faults + 1
    /\ posts' = posts \ {id} /\ unposted' = TRUE
    /\ UNCHANGED <<server, link, sub, wire, rows, joined, catching, paging, view, rebuild, cursor,
                   missed, excuses, leftAt>>

SocketLost ==
    /\ link = "up" /\ faults < MaxFaults
    /\ faults' = faults + 1 /\ link' = "down" /\ sub' = FALSE
    /\ wire' = Append(wire, Event("lost", 0))
    /\ UNCHANGED <<server, rows, joined, catching, paging, view, rebuild, reading, ghosts>>

SocketBack ==
    /\ link = "down" /\ link' = "up"
    /\ wire' = Append(wire, Event("connected", 0))
    /\ UNCHANGED <<server, sub, faults, rows, joined, catching, paging, view, rebuild, reading,
                   ghosts>>

\* The channel topic is joined on its own; the snapshot on it carries the state.
TopicJoined ==
    /\ link = "up" /\ ~sub /\ sub' = TRUE
    /\ wire' = Append(wire, Event("state", IF member THEN 1 ELSE 0))
    /\ UNCHANGED <<server, link, faults, rows, joined, catching, paging, view, rebuild, reading,
                   ghosts>>

ServerMember ==
    /\ faults < MaxFaults /\ faults' = faults + 1
    /\ member' = ~member
    /\ Pushed(Event("state", IF member' THEN 1 ELSE 0))
    /\ UNCHANGED <<last, srvCursor, link, sub, rows, joined, catching, paging, view, rebuild,
                   reading, ghosts>>

-----------------------------------------------------------------------------
(* Rows held in memory. *)

Excess(held) == IF Cardinality(held) > Cap + Slack THEN Cardinality(held) - Cap ELSE 0

\* A mutant: the trim keeps the paging marks of the dropped rows.
TrimKeepsMarks(held) ==
    /\ rows' = {id \in held : Cardinality({o \in held : o < id}) >= Excess(held)}
    /\ UNCHANGED paging

\* trim_window_history: the oldest rows go, and with them the paging marks.
Trim(held) ==
    /\ rows' = {id \in held : Cardinality({o \in held : o < id}) >= Excess(held)}
    /\ IF Excess(held) > 0 THEN reached' = FALSE /\ fetched' = {} ELSE UNCHANGED paging

AtBottom == open /\ bottom

\* mark_active_window_read and write_back_read_cursor over the rows held.
WriteBack(held) ==
    IF AtBottom /\ cursor < HighWater(held)
    THEN cursor' = HighWater(held) /\ posts' = posts \union {HighWater(held)}
    ELSE UNCHANGED <<cursor, posts>>

LiveRow(id) ==
    LET held == rows \union {id} IN
    /\ IF open THEN rows' = held /\ UNCHANGED paging
       ELSE IF id \in rows THEN rows' = rows /\ UNCHANGED paging
       ELSE Trim(held)
    /\ rebuild' = (rebuild \/ (open /\ id \notin rows /\ Excess(held) > 0 /\ bottom))
    /\ WriteBack(held)
    /\ UNCHANGED <<joined, catching>>

RebuildChat ==
    /\ plan = NoPlan /\ rebuild /\ rebuild' = FALSE
    /\ Trim(rows)
    /\ UNCHANGED <<server, socket, wire, joined, catching, view, reading, ghosts>>

\* apply_read_cursor_set: the server's cursor replaces the local one.
CursorSet(id) == cursor' = id /\ UNCHANGED posts

-----------------------------------------------------------------------------
(* The catch-up. *)

\* A mutant: a second loss moves the anchor.
NotedAgain == IF joined /\ rows # {} THEN HighWater(rows) ELSE anchor

\* note_catch_up_anchors: the first anchor stays.
Noted == IF joined /\ anchor = None THEN HighWater(rows) ELSE anchor

ReadEvent ==
    /\ plan = NoPlan /\ wire # <<>> /\ wire' = Tail(wire)
    /\ LET e == Head(wire) IN
       \/ /\ e.kind = "row" /\ LiveRow(e.id)
       \/ /\ e.kind = "cursor" /\ CursorSet(e.id)
          /\ UNCHANGED <<rows, joined, catching, paging, rebuild>>
       \/ /\ e.kind = "state" /\ joined' = (e.id = 1)
          /\ UNCHANGED <<rows, catching, paging, rebuild, reading>>
       \/ /\ e.kind = "lost" /\ anchor' = Noted
          /\ UNCHANGED <<rows, joined, due, plan, paging, rebuild, reading>>
       \/ /\ e.kind = "connected" /\ due' = (due \/ anchor # None)
          /\ UNCHANGED <<rows, joined, anchor, plan, paging, rebuild, reading>>
    /\ UNCHANGED <<server, socket, view, ghosts>>

Gap == last - anchor

\* The catch-up runs while the socket is down again, seen or not: what follows is not
\* in its page.
TooEarly ==
    IF link = "down" \/ \E i \in DOMAIN wire : wire[i].kind = "lost" THEN {"early"} ELSE {}

\* catch_up_plan, and the server that does not have the probe.
Planned(probed) ==
    IF ~probed THEN "forward"
    ELSE IF Gap = 0 THEN "none"
    ELSE IF Gap > CatchUpPage THEN "reload" ELSE "forward"

\* handle_catch_up_next, up to the answer of fetch_messages_count.
CatchUpProbe(probed) ==
    /\ plan = NoPlan /\ due /\ due' = FALSE
    /\ anchor' = None
    /\ plan' = IF anchor = None \/ Planned(probed) = "none" THEN NoPlan
               ELSE [kind |-> Planned(probed), anchor |-> anchor]
    /\ excuses' = excuses \union (IF probed THEN {} ELSE {"failed"}) \union TooEarly
    /\ UNCHANGED <<server, socket, wire, rows, joined, paging, view, rebuild, reading, missed,
                   unposted, leftAt>>

CatchUpFails ==
    /\ \/ due /\ plan = NoPlan /\ due' = FALSE /\ anchor' = None
       \/ plan # NoPlan /\ UNCHANGED <<due, anchor>>
    /\ plan' = NoPlan /\ excuses' = excuses \union {"failed"}
    /\ UNCHANGED <<server, socket, wire, rows, joined, paging, view, rebuild, reading, missed,
                   unposted, leftAt>>

\* fetch_messages with ?after, or the newest page.
PageOf(p) ==
    IF p.kind = "reload" THEN Newest(CatchUpPage, 1, last)
    ELSE {id \in 1 .. last : id > p.anchor /\ id <= p.anchor + CatchUpPage}

\* replace_with_history_tail: only rows newer than the page stay.
Replaced(tail) == {id \in rows : id > Max(tail)} \union tail

CatchUpRead ==
    /\ plan # NoPlan /\ plan' = NoPlan
    /\ LET page == PageOf(plan) IN
       IF ~joined \/ page = {} THEN UNCHANGED <<rows, paging>>
       ELSE IF plan.kind = "reload"
       THEN rows' = Replaced(page) /\ reached' = FALSE /\ fetched' = {}
       ELSE rows' = rows \union page /\ UNCHANGED paging
    /\ excuses' = excuses \union (IF joined THEN {} ELSE {"failed"}) \union TooEarly
    /\ UNCHANGED <<server, socket, wire, joined, anchor, due, view, rebuild, reading, missed,
                   unposted, leftAt>>

-----------------------------------------------------------------------------
(* The reader. *)

Idle == plan = NoPlan

Select ==
    /\ Idle /\ ~open /\ open' = TRUE /\ bottom' = TRUE
    /\ IF cursor < HighWater(rows)
       THEN cursor' = HighWater(rows) /\ posts' = posts \union {HighWater(rows)}
       ELSE UNCHANGED <<cursor, posts>>
    /\ UNCHANGED <<server, socket, wire, rows, joined, catching, paging, rebuild, ghosts>>

\* A mutant: the rows of a catch-up under the open window are never written.
SelectOtherUnwritten ==
    /\ Idle /\ open /\ open' = FALSE
    /\ Trim(rows)
    /\ leftAt' = IF AtBottom THEN HighWater(rows) ELSE leftAt
    /\ UNCHANGED <<server, socket, wire, joined, catching, bottom, rebuild, reading,
                   missed, excuses, unposted>>

\* Another window opens: the cursor is written first, then the rows are trimmed.
SelectOther ==
    /\ Idle /\ open /\ open' = FALSE
    /\ WriteBack(rows) /\ Trim(rows)
    /\ leftAt' = IF AtBottom THEN HighWater(rows) ELSE leftAt
    /\ UNCHANGED <<server, socket, wire, joined, catching, bottom, rebuild, missed, excuses,
                   unposted>>

\* ChatReadStateChanged: the pane is scrolled, hidden or shown.  Both ways the rows
\* that were at the bottom are read.
ReadStateChanged ==
    /\ Idle /\ open /\ bottom' = ~bottom
    /\ IF cursor < HighWater(rows)
       THEN cursor' = HighWater(rows) /\ posts' = posts \union {HighWater(rows)}
       ELSE UNCHANGED reading
    /\ UNCHANGED <<server, socket, wire, rows, joined, catching, paging, open, rebuild, ghosts>>

OlderRows == Newest(OlderPage, 1, Oldest - 1)

ReachedBy(page) == Cardinality(page) < OlderPage \/ page \subseteq rows

\* handle_load_older_history, with the answer of ?before.  The pane asks only with
\* a line to scroll up from.  A failed read changes nothing.
LoadOlder ==
    /\ Idle /\ open /\ rows # {} /\ ~reached
    /\ IF Oldest \in fetched THEN reached' = TRUE /\ UNCHANGED <<rows, fetched>>
       ELSE /\ fetched' = fetched \union {Oldest}
            /\ rows' = rows \union OlderRows
            /\ reached' = ReachedBy(OlderRows)
    /\ UNCHANGED <<server, socket, wire, joined, catching, view, rebuild, reading, ghosts>>

-----------------------------------------------------------------------------
World == ServerRow \/ SocketLost \/ SocketBack \/ TopicJoined \/ ServerMember
         \/ \E id \in posts : CursorLands(id) \/ CursorFails(id)

Worker == ReadEvent \/ CatchUpRead \/ CatchUpFails \/ RebuildChat
          \/ \E p \in BOOLEAN : CatchUpProbe(p)

Reader == Select \/ SelectOther \/ LoadOlder \/ ReadStateChanged

Next == World \/ Worker \/ Reader

Spec == Init /\ [][Next]_vars

-----------------------------------------------------------------------------
Settled == link = "up" /\ sub /\ wire = <<>> /\ anchor = None /\ ~due /\ plan = NoPlan

(* No hole is left by a loss: once the catch-up has run, every row that was *)
(* stored while the socket was down is held, or older than all rows held,   *)
(* where scrolling up brings it.  A failed read, or one while the socket    *)
(* is down again, excuses a hole.                                           *)
NoHiddenHole ==
    Settled /\ excuses = {} => \A id \in missed : rows # {} /\ id > Oldest => id \in rows

(* "An anchor already noted stays (a second drop before the catch-up ran    *)
(* must not skip rows)": only a failed read excuses a hole.                 *)
SecondLossSkipsNothing ==
    Settled /\ "failed" \notin excuses =>
        \A id \in missed : rows # {} /\ id > Oldest => id \in rows

(* history_start_reached stops the paging for good: it is set only while    *)
(* the window holds the first row of the channel, through trims and         *)
(* far-behind reloads.                                                      *)
StartMeansStart == reached /\ rows # {} => 1 \in rows

(* What the reader left at its newest row is read on the server too once     *)
(* the writes have landed: an echo of an older cursor, a catch-up under the   *)
(* open window and writes that pass each other lose no cursor.                *)
LeftIsRead == posts = {} /\ ~unposted => srvCursor >= leftAt

(* No hidden hole, the start is the start, and a row that the user left is   *)
(* read on the server.                                                       *)
TranscriptSound == TypeOK /\ NoHiddenHole /\ StartMeansStart /\ LeftIsRead

=============================================================================
