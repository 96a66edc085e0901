------------------------------- MODULE Panels -------------------------------
(***************************************************************************)
(* The panels that mirror something the server keeps: the channel          *)
(* directory, the archive, held DCC offers, watched nicks, away messages,  *)
(* identity recovery and the settings that the server echoes.  Pushes are  *)
(* the only news: the worker reads them in order, a lost connection drops  *)
(* the ones on the way, and a rejoin of the user topic brings the held     *)
(* offers and the presence of the watched nicks again, nothing else.       *)
(***************************************************************************)
EXTENDS Naturals, Sequences, FiniteSets, SequencesExt

CONSTANTS Network, Target, Offer, Nick, None, MaxEvents

VARIABLES
    part,       \* the panel that this behaviour is about
    srv,        \* the server
    st,         \* the worker's state and what it shows
    wire, up,   \* pushes on the way to the worker; whether there is a connection
    events,
    missed,     \* history: a push was lost or refused since this panel was read
    stale,      \* history: the first page failed to load since it last did
    refused     \* history: the parser refused a push

vars == <<part, srv, st, wire, up, events, missed, stale, refused>>
ghosts == <<missed, stale, refused>>

Sort == {"users", "name"}
Window == Network \X Target
Setting == {"delay", "leave", "away", "suffix", "limits"}
Pages == 2

Init ==
    /\ part \in {"directory", "archive", "offers", "watch", "recover", "echoes"}
    /\ srv = [snap |-> [n \in Network |-> 1], busy |-> [n \in Network |-> FALSE], archived |-> Window, rows |-> Window,
              offers |-> {}, presence |-> [x \in Nick |-> "offline"], set |-> [s \in Setting |-> "old"]]
    /\ st = [dir |-> None, arch |-> None, cache |-> {}, offers |-> {}, presence |-> [x \in Nick |-> "unknown"],
             away |-> [x \in Nick |-> None], window |-> None, banner |-> None, recover |-> None,
             set |-> [s \in Setting |-> "old"], status |-> ""]
    /\ wire = <<>> /\ up = TRUE
    /\ events = 0 /\ missed = FALSE /\ stale = FALSE /\ refused = FALSE

TypeOK ==
    /\ st.offers \subseteq Offer /\ srv.offers \subseteq Offer /\ st.cache \subseteq Window
    /\ st.presence \in [Nick -> {"online", "offline", "unknown"}] /\ st.window \in Nick \union {None}
    /\ st.dir # None => st.dir.sort \in Sort /\ Len(st.dir.rows) <= Pages * MaxEvents
    /\ up \in BOOLEAN /\ missed \in BOOLEAN /\ stale \in BOOLEAN /\ refused \in BOOLEAN

-----------------------------------------------------------------------------
Event == events < MaxEvents /\ events' = events + 1
Outcome(ok) == IF ok THEN UNCHANGED events ELSE Event

\* The server tells what it did; without a connection nobody hears it.
Tell(push) ==
    /\ wire' = (IF up THEN Append(wire, push) ELSE wire)
    /\ missed' = (missed \/ ~up)

Reads(kind) == wire # <<>> /\ Head(wire).kind = kind /\ wire' = Tail(wire)
Worker(p) == part = p /\ UNCHANGED <<part, srv, up, refused>>
User(p) == Worker(p) /\ UNCHANGED wire
Server(p) == part = p /\ Event /\ UNCHANGED <<part, st, up, stale, refused>>

-----------------------------------------------------------------------------
(* The channel directory. *)

NewView(n, query) ==
    [net |-> n, sort |-> "users", query |-> query, rows |-> <<>>, next |-> None, error |-> "", pending |-> FALSE, failed |-> FALSE]

\* fetch_directory: the page of the last LIST in this order, and the cursor after it.
Page(view, i) == [snap |-> srv.snap[view.net], sort |-> view.sort, query |-> view.query, page |-> i]
CursorAfter(i) == IF i < Pages THEN i + 1 ELSE None

\* load_directory: the first page takes the place of the rows; a failure keeps them.
Loaded(view, ok) ==
    IF ok THEN [view EXCEPT !.rows = <<Page(view, 1)>>, !.next = CursorAfter(1), !.error = ""]
    ELSE [view EXCEPT !.error = "directory-fetch-failed"]

Load(view, ok) ==
    /\ st' = [st EXCEPT !.dir = Loaded(view, ok)]
    /\ stale' = ~ok

\* open_directory, from the sidebar or with /list.
OpenDirectory(n, query, ok) ==
    /\ User("directory") /\ Event /\ (st.dir # None => st.dir.net # n \/ query # "")
    /\ Load(NewView(n, query), ok) /\ missed' = FALSE

DirectorySort(sort, ok) ==
    /\ User("directory") /\ Event /\ st.dir # None
    /\ Load([st.dir EXCEPT !.sort = sort], ok) /\ UNCHANGED missed

DirectorySearch(query, ok) ==
    /\ User("directory") /\ Event /\ st.dir # None
    /\ Load([st.dir EXCEPT !.query = query], ok) /\ UNCHANGED missed

\* load_more_directory: the next page is appended, whatever the rows before it are.
LoadMore(ok) ==
    /\ User("directory") /\ Event /\ st.dir # None /\ st.dir.next # None
    /\ LET view == st.dir IN
       st' = [st EXCEPT !.dir = IF ok THEN [view EXCEPT !.rows = Append(@, Page(view, view.next)),
                                                        !.next = CursorAfter(view.next), !.error = ""]
                                ELSE [view EXCEPT !.error = "directory-fetch-failed"]]
    /\ UNCHANGED ghosts

\* refresh_directory: one request until a push, or a failure, releases the button.
RefreshDirectory(ok, done) ==
    /\ part = "directory" /\ Event /\ st.dir # None /\ ~st.dir.pending /\ (ok => done)
    /\ srv' = (IF done THEN [srv EXCEPT !.busy[st.dir.net] = TRUE] ELSE srv)
    /\ st' = [st EXCEPT !.dir = [@ EXCEPT !.pending = ok, !.failed = FALSE, !.error = IF ok THEN @ ELSE "directory-refresh-failed"]]
    /\ UNCHANGED <<part, wire, up, ghosts>>

CloseDirectory ==
    /\ User("directory") /\ Event /\ st.dir # None
    /\ st' = [st EXCEPT !.dir = None] /\ UNCHANGED ghosts

\* directory_activate: a refused join is told on the pane; otherwise the channel opens.
DirectoryActivate(ok) ==
    /\ User("directory") /\ Event /\ st.dir # None /\ st.dir.rows # <<>>
    /\ st' = (IF ok THEN [st EXCEPT !.dir = None] ELSE [st EXCEPT !.dir.error = "directory-join-failed"])
    /\ UNCHANGED ghosts

\* The server's capture: progress, the end with a new snapshot, or a failure that keeps the old one.
Capture(n, kind) ==
    /\ Server("directory") /\ srv.busy[n]
    /\ srv' = [srv EXCEPT !.busy[n] = kind = "progress", !.snap[n] = IF kind = "complete" THEN @ + 1 ELSE @]
    /\ Tell([kind |-> "directory", net |-> n, failed |-> kind = "failed"])

\* A mutant: the page is not read again.
ReloadedNot(view, failed, ok) == [view EXCEPT !.pending = FALSE, !.failed = failed]

\* reload_directory_after_push.
Reloaded(view, failed, ok) == Loaded([view EXCEPT !.pending = FALSE, !.failed = failed], ok)

DirectoryPush(ok) ==
    /\ Worker("directory") /\ Reads("directory") /\ UNCHANGED missed
    /\ LET push == Head(wire) IN
       IF st.dir = None \/ st.dir.net # push.net
       THEN ok /\ UNCHANGED <<st, events, stale>>
       ELSE st' = [st EXCEPT !.dir = Reloaded(st.dir, push.failed, ok)] /\ stale' = ~ok /\ Outcome(ok)

-----------------------------------------------------------------------------
(* The archive of one network, and the rows of its targets that are cached. *)

\* load_archive.
Listed(view, ok) ==
    IF ok THEN [view EXCEPT !.list = {w \in srv.archived : w[1] = view.net}, !.loaded = TRUE, !.error = ""]
    ELSE [view EXCEPT !.error = "archive-fetch-failed"]

OpenArchive(n, ok) ==
    /\ User("archive") /\ Event
    /\ st' = [st EXCEPT !.arch = Listed([net |-> n, list |-> {}, loaded |-> FALSE, error |-> ""], ok)]
    /\ UNCHANGED ghosts

CloseArchive ==
    /\ User("archive") /\ Event /\ st.arch # None
    /\ st' = [st EXCEPT !.arch = None] /\ UNCHANGED ghosts

\* A window is opened: its rows are read.
Visit(w) ==
    /\ User("archive") /\ Event /\ w \in srv.rows \ st.cache
    /\ st' = [st EXCEPT !.cache = @ \union {w}] /\ UNCHANGED ghosts

Purged(w) ==
    /\ srv' = [srv EXCEPT !.archived = @ \ {w}, !.rows = @ \ {w}]
    /\ Tell([kind |-> "purged", window |-> w])

\* delete_archive_target: the list waits for the push.
DeleteTarget(w, ok, done) ==
    /\ part = "archive" /\ Event /\ st.arch # None /\ w \in st.arch.list /\ (ok => done)
    /\ IF done THEN Purged(w) ELSE UNCHANGED <<srv, wire, missed>>
    /\ st' = (IF ok THEN st ELSE [st EXCEPT !.arch.error = "archive-delete-failed"])
    /\ UNCHANGED <<part, up, stale, refused>>

\* Another client of the account deletes it.
PurgedElsewhere(w) == Server("archive") /\ w \in srv.archived /\ Purged(w)

\* A channel is left: it moves into the archive.
Archived(w) ==
    /\ Server("archive") /\ w \notin srv.archived
    /\ srv' = [srv EXCEPT !.archived = @ \union {w}, !.rows = @ \union {w}]
    /\ Tell([kind |-> "archived", window |-> w])

\* Whether the push is about the archive on the screen.
Open(w) == st.arch # None /\ st.arch.net = w[1]
Relisted(ok) == IF Open(Head(wire).window) THEN Listed(st.arch, ok) ELSE st.arch

ArchiveChanged(ok) ==
    /\ Worker("archive") /\ Reads("archived") /\ Outcome(ok) /\ (ok \/ Open(Head(wire).window))
    /\ st' = [st EXCEPT !.arch = Relisted(ok)] /\ UNCHANGED ghosts

\* handle_archive_purged: the cached rows go, whether the archive is open or not.
ArchivePurged(ok) ==
    /\ Worker("archive") /\ Reads("purged") /\ Outcome(ok) /\ (ok \/ Open(Head(wire).window))
    /\ st' = [st EXCEPT !.cache = @ \ {Head(wire).window}, !.arch = Relisted(ok)] /\ UNCHANGED ghosts

-----------------------------------------------------------------------------
(* DCC offers. *)

PeerOffers(o) ==
    /\ Server("offers") /\ o \notin srv.offers
    /\ srv' = [srv EXCEPT !.offers = @ \union {o}] /\ Tell([kind |-> "offer", offer |-> o])

Resolve(o) ==
    /\ srv' = [srv EXCEPT !.offers = @ \ {o}]
    /\ Tell([kind |-> "resolved", offer |-> o])

\* Another device answers, or the hold ends.
ResolvedElsewhere(o) == Server("offers") /\ o \in srv.offers /\ Resolve(o)

\* answer_dcc_offer: the panel does not change here.
AnswerOffer(o, ok, done) ==
    /\ part = "offers" /\ Event /\ o \in st.offers /\ (ok => done) /\ (done => o \in srv.offers)
    /\ IF done THEN Resolve(o) ELSE UNCHANGED <<srv, wire, missed>>
    /\ st' = (IF ok THEN st ELSE [st EXCEPT !.status = IF o \in srv.offers THEN "dcc-action-failed" ELSE "dcc-offer-gone"])
    /\ UNCHANGED <<part, up, stale, refused>>

DccOffer ==
    /\ Worker("offers") /\ Reads("offer")
    /\ st' = [st EXCEPT !.offers = @ \union {Head(wire).offer}] /\ UNCHANGED <<events, ghosts>>

DccOfferResolved ==
    /\ Worker("offers") /\ Reads("resolved")
    /\ st' = (IF Head(wire).offer \in st.offers
              THEN [st EXCEPT !.offers = @ \ {Head(wire).offer}, !.status = "dcc-resolved"] ELSE st)
    /\ UNCHANGED <<events, ghosts>>

-----------------------------------------------------------------------------
(* Watched nicks and away messages. *)

PresenceChanges(x) ==
    /\ Server("watch")
    /\ srv' = [srv EXCEPT !.presence[x] = IF @ = "online" THEN "offline" ELSE "online"]
    /\ \E initial \in BOOLEAN : Tell([kind |-> "presence", nick |-> x, to |-> srv'.presence[x], initial |-> initial])

PresenceSnapshot ==
    /\ Worker("watch") /\ Reads("snapshot")
    /\ st' = [st EXCEPT !.presence = Head(wire).all] /\ UNCHANGED <<events, ghosts>>

PresenceChanged ==
    /\ Worker("watch") /\ Reads("presence")
    /\ st' = [st EXCEPT !.presence[Head(wire).nick] = Head(wire).to,
                        !.status = IF Head(wire).initial THEN @ ELSE "presence-changed"]
    /\ UNCHANGED <<events, ghosts>>

\* The ircd's list is full.
PresenceError ==
    /\ Server("watch") /\ UNCHANGED <<srv, missed>>
    /\ wire' = (IF up THEN Append(wire, [kind |-> "presence-error"]) ELSE wire)

PresenceErrorShown ==
    /\ Worker("watch") /\ Reads("presence-error")
    /\ st' = [st EXCEPT !.status = "presence-list-full"] /\ UNCHANGED <<events, ghosts>>

PeerIsAway(x) ==
    /\ Server("watch") /\ UNCHANGED <<srv, missed>>
    /\ wire' = (IF up THEN Append(wire, [kind |-> "away", nick |-> x]) ELSE wire)

\* push_peer_away_banner: the message of the open private window.
Banner(away, window) == IF window = None THEN None ELSE away[window]

PeerAway ==
    /\ Worker("watch") /\ Reads("away")
    /\ LET away == [st.away EXCEPT ![Head(wire).nick] = "away"] IN
       st' = [st EXCEPT !.away = away, !.banner = IF st.window = Head(wire).nick THEN Banner(away, st.window) ELSE @]
    /\ UNCHANGED <<events, ghosts>>

\* A private window opens, or a channel, which has no banner.
OpenPrivate(x) ==
    /\ User("watch") /\ Event /\ st.window # x
    /\ st' = [st EXCEPT !.window = x, !.banner = Banner(st.away, x)] /\ UNCHANGED ghosts

OpenChannel ==
    /\ User("watch") /\ Event /\ st.window # None
    /\ st' = [st EXCEPT !.window = None] /\ UNCHANGED ghosts

DismissAway ==
    /\ User("watch") /\ Event /\ st.window # None /\ st.banner # None
    /\ LET away == [st.away EXCEPT ![st.window] = None] IN
       st' = [st EXCEPT !.away = away, !.banner = Banner(away, st.window)]
    /\ UNCHANGED ghosts

-----------------------------------------------------------------------------
(* The panel of an identity recovery: opened by its first step. *)

Recovers(n) ==
    /\ Server("recover") /\ UNCHANGED srv
    /\ \/ \E step \in {"identify", "nick"}, status \in {"running", "ok", "failed"} :
             Tell([kind |-> "progress", net |-> n, step |-> step, status |-> status])
       \/ \E outcome \in {"succeeded", "failed"} : Tell([kind |-> "result", net |-> n, outcome |-> outcome])

\* A mutant: a step of any network lands in the open panel.
ProgressedAny(panel, n, step, status) ==
    IF panel = None THEN [net |-> n, steps |-> {<<n, step, status>>}, outcome |-> None]
    ELSE [panel EXCEPT !.steps = {r \in @ : r[2] # step} \union {<<n, step, status>>}]

\* apply_recover_progress: a known step is replaced, another network's is ignored.
Progressed(panel, n, step, status) ==
    IF panel = None THEN [net |-> n, steps |-> {<<n, step, status>>}, outcome |-> None]
    ELSE IF panel.net # n THEN panel
    ELSE [panel EXCEPT !.steps = {r \in @ : r[2] # step} \union {<<n, step, status>>}]

RecoverProgress ==
    /\ Worker("recover") /\ Reads("progress")
    /\ st' = [st EXCEPT !.recover = Progressed(@, Head(wire).net, Head(wire).step, Head(wire).status)]
    /\ UNCHANGED <<events, ghosts>>

\* apply_recover_result.
Concluded(panel, n, outcome) == IF panel = None \/ panel.net # n THEN panel ELSE [panel EXCEPT !.outcome = <<n, outcome>>]

RecoverResult ==
    /\ Worker("recover") /\ Reads("result")
    /\ st' = [st EXCEPT !.recover = Concluded(@, Head(wire).net, Head(wire).outcome)]
    /\ UNCHANGED <<events, ghosts>>

DismissRecover ==
    /\ User("recover") /\ Event /\ st.recover # None
    /\ st' = [st EXCEPT !.recover = None] /\ UNCHANGED ghosts

-----------------------------------------------------------------------------
(* Settings of the account that any device may change. *)

SettingChanges(s) ==
    /\ Server("echoes")
    /\ srv' = [srv EXCEPT !.set[s] = IF @ = "old" THEN "new" ELSE "old"]
    /\ Tell([kind |-> "echo", setting |-> s, to |-> srv'.set[s]])

SettingEcho ==
    /\ Worker("echoes") /\ Reads("echo")
    /\ st' = [st EXCEPT !.set[Head(wire).setting] = Head(wire).to] /\ UNCHANGED <<events, ghosts>>

-----------------------------------------------------------------------------
(* The connection.  A payload that the parser does not accept is dropped. *)

Lose ==
    /\ up /\ Event
    /\ up' = FALSE /\ wire' = <<>> /\ missed' = (missed \/ wire # <<>>)
    /\ UNCHANGED <<part, srv, st, stale, refused>>

\* What the server sends again after a join of the user topic.
Backfill ==
    CASE part = "offers" -> LET held == SetToSeq(srv.offers) IN [i \in DOMAIN held |-> [kind |-> "offer", offer |-> held[i]]]
      [] part = "watch" -> <<[kind |-> "snapshot", all |-> srv.presence]>>
      [] OTHER -> <<>>

Rejoin ==
    /\ ~up /\ up' = TRUE /\ wire' = Backfill
    /\ missed' = (missed /\ part # "watch")
    /\ UNCHANGED <<part, srv, st, events, stale, refused>>

Rejected ==
    /\ wire # <<>> /\ Event /\ wire' = Tail(wire) /\ missed' = TRUE /\ refused' = TRUE
    /\ UNCHANGED <<part, srv, st, up, stale>>

Clicks ==
    \/ CloseDirectory \/ CloseArchive \/ DismissAway \/ DismissRecover \/ OpenChannel
    \/ \E x \in Nick : OpenPrivate(x)
    \/ \E w \in Window : Visit(w)
    \/ \E ok \in BOOLEAN :
          \/ \E n \in Network : OpenArchive(n, ok)
          \/ \E n \in Network, query \in {"", "words"} : OpenDirectory(n, query, ok)
          \/ \E sort \in Sort : DirectorySort(sort, ok)
          \/ \E query \in {"", "words"} : DirectorySearch(query, ok)
          \/ LoadMore(ok) \/ DirectoryActivate(ok)
          \/ \E done \in BOOLEAN :
                \/ RefreshDirectory(ok, done)
                \/ \E w \in Window : DeleteTarget(w, ok, done)
                \/ \E o \in Offer : AnswerOffer(o, ok, done)

Others ==
    \/ \E n \in Network, kind \in {"progress", "complete", "failed"} : Capture(n, kind)
    \/ \E w \in Window : PurgedElsewhere(w) \/ Archived(w)
    \/ \E o \in Offer : PeerOffers(o) \/ ResolvedElsewhere(o)
    \/ \E x \in Nick : PresenceChanges(x) \/ PeerIsAway(x)
    \/ PresenceError
    \/ \E n \in Network : Recovers(n)
    \/ \E s \in Setting : SettingChanges(s)

Pushes ==
    \/ \E ok \in BOOLEAN : DirectoryPush(ok) \/ ArchiveChanged(ok) \/ ArchivePurged(ok)
    \/ DccOffer \/ DccOfferResolved \/ PresenceSnapshot \/ PresenceChanged \/ PresenceErrorShown \/ PeerAway
    \/ RecoverProgress \/ RecoverResult \/ SettingEcho

Next == Clicks \/ Others \/ Pushes \/ Lose \/ Rejoin \/ Rejected
Spec == Init /\ [][Next]_vars

-----------------------------------------------------------------------------
Quiet == up /\ wire = <<>>

(* Once every push was read, and none was lost, each panel shows what the     *)
(* server has: the directory one order of one snapshot, the archive its list, *)
(* no row of deleted scrollback, the offers held, the presence of the nicks   *)
(* and the settings; only a page that could not be read is out of date.       *)
PanelsCurrent ==
    Quiet /\ ~missed =>
        /\ st.dir # None /\ ~stale => \A i \in DOMAIN st.dir.rows : st.dir.rows[i] = Page(st.dir, i)
        /\ st.arch # None /\ st.arch.loaded /\ st.arch.error = "" => st.arch.list = {w \in srv.archived : w[1] = st.arch.net}
        /\ st.cache \subseteq srv.rows
        /\ st.offers = srv.offers
        /\ \A x \in Nick : st.presence[x] \in {srv.presence[x], "unknown"}
        /\ st.set = srv.set

(* A panel never waits for, hides or mixes up what the server still has: the  *)
(* refresh button comes back unless a capture runs, every held offer is shown *)
(* again after a loss, the banner is of the window on the screen, and a       *)
(* recovery shows steps of its own network only.                              *)
PanelsSound ==
    /\ st.dir # None /\ st.dir.pending /\ ~missed => srv.busy[st.dir.net] \/ wire # <<>>
    /\ Quiet /\ ~refused => srv.offers \subseteq st.offers
    /\ st.window # None => st.banner = st.away[st.window]
    /\ st.recover # None => \A r \in st.recover.steps : r[1] = st.recover.net

(* "The offer disappears only when dcc_offer_resolved arrives, so every       *)
(* device agrees on what the server actually did": once every push was read   *)
(* the panel has the offers that the server holds.                            *)
OffersAgree == Quiet /\ ~refused => st.offers \subseteq srv.offers

=============================================================================
