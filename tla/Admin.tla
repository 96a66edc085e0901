------------------------------- MODULE Admin -------------------------------
(***************************************************************************)
(* The admin console.  Clicks are commands for the worker, which runs one  *)
(* after the other; a command is a row of steps (a write, the refresh of   *)
(* the panel, the lists of the open editor), each with requests that take  *)
(* time.  The user keeps clicking on what the page shows meanwhile.        *)
(*                                                                         *)
(* A section of the panel is the version of its rows on the server.  The   *)
(* page keeps its state when the user signs out and in to another server,  *)
(* where the ids of the networks are the same numbers.                     *)
(***************************************************************************)
EXTENDS Naturals, Sequences

CONSTANTS
    Server,     \* servers the user signs in to
    Network,    \* network ids
    Section,    \* sections of the panel that a write changes
    Upload,
    None,
    MaxClicks, MaxVersion, MaxEvents

VARIABLES
    session,    \* server of the session, None without
    ver,        \* server: version of every section
    gone,       \* server: networks deleted by this console
    uploads,    \* server: "live" or "deleted"
    mode,       \* server: the addressing mode
    todo,       \* steps for the worker, in order
    clicks,
    shown,      \* page: version of every section
    failed,     \* page: sections of admin-refresh-error
    status,     \* page: the status line
    editor,     \* page: admin-edit-network-id, None when closed
    servers,    \* page: network of the list of servers, None for an empty one
    featured,   \* page: network of the list of featured channels
    confirm,    \* page: admin-network-confirm-id and its count state
    form,       \* page: the mode in the settings form
    registry,   \* worker: admin_uploads, unread before the first answer
    settings,   \* worker: admin_settings
    armed,      \* worker: admin_network_count_for
    events,     \* worker: lines of the feed
    feed,       \* the feed's topic is joined
    counted,    \* history: counts that a server answered and the dialog of the network showed
    written     \* history: version of every section after the last write of this console

vars == <<session, ver, gone, uploads, mode, todo, clicks, shown, failed, status, editor, servers, featured, confirm,
          form, registry, settings, armed, events, feed, counted, written>>
world == <<ver, gone, uploads, mode>>
panel == <<shown, failed>>
dialog == <<editor, servers, featured, confirm>>
setup == <<form, settings>>
ghosts == <<counted, written>>

Step(op, n) == [op |-> op, n |-> n]
Closed == [id |-> None, state |-> ""]
Unread == [u \in Upload |-> "unread"]

TypeOK ==
    /\ session \in Server \union {None} /\ shown \in [Section -> 0 .. MaxVersion]
    /\ failed \subseteq Section /\ armed \in Network \union {None} /\ events \in 0 .. MaxEvents
    /\ confirm.state \in {"", "counting", "known", "unknown"}

Init ==
    /\ session \in Server /\ ver = [s \in Section |-> 0] /\ gone = {} /\ mode = 0
    /\ uploads = [u \in Upload |-> "live"] /\ todo = <<>> /\ clicks = 0
    /\ shown = ver /\ failed = {} /\ status = "" /\ editor = None /\ servers = None /\ featured = None /\ confirm = Closed
    /\ form = 0 /\ settings = None /\ registry = Unread /\ armed = None /\ events = 0 /\ feed = FALSE
    /\ counted = {} /\ written = ver

-----------------------------------------------------------------------------
(* Clicks.  Each sends one command; the page changes at once. *)

Sent(steps) ==
    /\ session # None /\ clicks < MaxClicks /\ clicks' = clicks + 1 /\ todo' = todo \o steps
    /\ UNCHANGED <<session, world, panel, status, registry, settings, armed, events, feed, ghosts>>

Refresh == <<Step("refresh", None)>>
Editor(n) == <<Step("servers", n), Step("featured", n)>>

\* The button of the panel, and the page when it opens.
ClickRefresh == Sent(<<Step("join", None)>> \o Refresh \o <<Step("uploads", None)>>) /\ UNCHANGED <<dialog, form>>

\* A write of a tab and its refresh.  A promotion, the delete of an account, a
\* disconnect, a circuit reset and a run of the reaper are quiet.
ClickWrite(op, s) == Sent(<<Step(op, s)>> \o Refresh) /\ UNCHANGED <<dialog, form>>

\* A credential is bound, edited or unbound; one without a nick is refused by the worker.
ClickCredential(valid, s) ==
    /\ Sent(IF valid THEN <<Step("credential", s)>> \o Refresh ELSE <<Step("invalid", None)>>)
    /\ UNCHANGED <<dialog, form>>

\* The editor of a network, which loads its servers and featured channels.
ClickEdit(n) ==
    /\ editor' = n /\ Sent(Editor(n)) /\ UNCHANGED <<servers, featured, confirm, form>>

CloseEditor == editor # None /\ editor' = None /\ Sent(<<>>) /\ UNCHANGED <<servers, featured, confirm, form>>

\* Save in the editor; a cap that is no number is refused by the worker.
ClickSave(valid) ==
    /\ editor # None
    /\ Sent(IF valid THEN <<Step("edit", editor)>> \o Refresh ELSE <<Step("invalid", None)>>)
    /\ UNCHANGED <<dialog, form>>

Child(list) == IF list = "servers" THEN "server" ELSE "channel"

\* A server or a featured channel of the editor, with the list it belongs to.
ClickServer(list) ==
    /\ editor # None /\ (IF list = "servers" THEN servers ELSE featured) # None
    /\ Sent(<<Step(Child(list), editor)>> \o Refresh \o <<Step(list, editor)>>) /\ UNCHANGED <<dialog, form>>

\* The dialog of a delete opens and asks for the count.
ClickConfirm(n) ==
    /\ confirm' = [id |-> n, state |-> "counting"] /\ Sent(<<Step("count", n)>>)
    /\ UNCHANGED <<editor, servers, featured, form>>

ClickCancel == confirm # Closed /\ confirm' = Closed /\ Sent(<<>>) /\ UNCHANGED <<editor, servers, featured, form>>

ClickDelete ==
    /\ confirm.id # None /\ confirm.state = "known" /\ confirm' = Closed
    /\ Sent(<<Step("delete", confirm.id)>>) /\ UNCHANGED <<editor, servers, featured, form>>

\* A row of the page's list, which may be older than the worker's.
ClickUpload(u) == Sent(<<Step("unlink", u)>>) /\ UNCHANGED <<dialog, form>>

ClickSettings == Sent(<<Step("load", None)>>) /\ UNCHANGED <<dialog, form>>
ChangeMode == settings # None /\ form' = 1 - form /\ Sent(<<>>) /\ UNCHANGED dialog
SaveSettings(valid) ==
    /\ settings # None
    /\ Sent(IF valid THEN <<Step("save", form), Step("load", None)>> ELSE <<Step("invalid", None)>>)
    /\ UNCHANGED <<dialog, form>>

Click ==
    \/ ClickRefresh \/ CloseEditor \/ ClickCancel \/ ClickDelete \/ ClickSettings \/ ChangeMode
    \/ \E s \in Section :
          \/ \E op \in {"write", "quiet", "vhost"} : ClickWrite(op, s)
          \/ \E valid \in BOOLEAN : ClickCredential(valid, s)
    \/ \E n \in Network : ClickEdit(n) \/ ClickConfirm(n)
    \/ \E u \in Upload : ClickUpload(u)
    \/ \E valid \in BOOLEAN : ClickSave(valid) \/ SaveSettings(valid)
    \/ \E list \in {"servers", "featured"} : ClickServer(list)

-----------------------------------------------------------------------------
(* The worker.  An answer is "ok", a refusal, or lost after the server did it. *)

Answer == {"ok", "refused", "lost"}
Done(a) == a \in {"ok", "lost"}

Runs(op) == todo # <<>> /\ Head(todo).op = op /\ session # None /\ UNCHANGED <<session, clicks>>
Rest == todo' = Tail(todo)

\* The requests of the writes: a section of the server has a new version.
Written(s, a) ==
    /\ (Done(a) => ver[s] < MaxVersion)
    /\ ver' = IF Done(a) THEN [ver EXCEPT ![s] = @ + 1] ELSE ver
    /\ written' = IF Done(a) THEN [written EXCEPT ![s] = ver'[s]] ELSE written

CredentialWritten(s, a) == Written(s, a)
VhostWritten(s, a) == Written(s, a)
ServerWritten(a) == \E s \in Section : Written(s, a)
FeaturedWritten(a) == \E s \in Section : Written(s, a)

\* The status line after a write, and the outcome that a saved credential names.
Told(a) == IF a = "ok" THEN "done" ELSE "failed"
CredentialTold(a) == IF a = "ok" THEN {"left-alone", "spawned", "stopped", "unknown"} ELSE {"failed"}

\* A mutant: a write that failed leaves the panel alone.
FollowedOnlySuccess(a) == IF a = "ok" THEN Tail(todo) ELSE Tail(Tail(todo))

\* handle_admin_write refreshes the panel whatever came of the write.
Followed(a) == Tail(todo)

\* handle_admin_write: accounts, visitors, networks, sessions.
Write(a) ==
    /\ Runs("write") /\ todo' = Followed(a) /\ Written(Head(todo).n, a) /\ status' = Told(a)
    /\ UNCHANGED <<gone, uploads, mode, panel, dialog, registry, setup, armed, events, feed, counted>>

\* The writes whose answer nobody reads.
QuietWrite(a) ==
    /\ Runs("quiet") /\ Rest /\ Written(Head(todo).n, a)
    /\ UNCHANGED <<gone, uploads, mode, panel, status, dialog, registry, setup, armed, events, feed, counted>>

CredentialWrite(a) ==
    /\ Runs("credential") /\ todo' = Followed(a) /\ CredentialWritten(Head(todo).n, a)
    /\ status' \in CredentialTold(a)
    /\ UNCHANGED <<gone, uploads, mode, panel, dialog, registry, setup, armed, events, feed, counted>>

\* A vhost, one of its two flags or a grant.
VhostWrite(a) ==
    /\ Runs("vhost") /\ todo' = Followed(a) /\ VhostWritten(Head(todo).n, a) /\ status' = Told(a)
    /\ UNCHANGED <<gone, uploads, mode, panel, dialog, registry, setup, armed, events, feed, counted>>

\* A saved network closes whatever editor is open.
EditWrite(a) ==
    /\ Runs("edit") /\ todo' = Followed(a) /\ \E s \in Section : Written(s, a)
    /\ editor' = (IF a = "ok" THEN None ELSE editor) /\ status' = Told(a)
    /\ UNCHANGED <<gone, uploads, mode, panel, servers, featured, confirm, registry, setup, armed, events, feed, counted>>

ServerWrite(a) ==
    /\ Runs("server") /\ todo' = Followed(a) /\ ServerWritten(a) /\ status' = Told(a)
    /\ UNCHANGED <<gone, uploads, mode, panel, dialog, registry, setup, armed, events, feed, counted>>

FeaturedWrite(a) ==
    /\ Runs("channel") /\ todo' = Followed(a) /\ FeaturedWritten(a) /\ status' = Told(a)
    /\ UNCHANGED <<gone, uploads, mode, panel, dialog, registry, setup, armed, events, feed, counted>>

Invalid ==
    /\ Runs("invalid") /\ Rest /\ status' = "invalid"
    /\ UNCHANGED <<world, panel, dialog, registry, setup, armed, events, feed, ghosts>>

\* run_admin_refresh: the topic of the feed is joined once.
JoinFeed ==
    /\ Runs("join") /\ Rest /\ feed' = TRUE
    /\ UNCHANGED <<status, world, panel, dialog, registry, setup, armed, events, ghosts>>

\* settle_admin_fetch: the rows of a section, or the ones before.
Fetched(bad) == [s \in Section |-> IF s \in bad THEN shown[s] ELSE ver[s]]

\* handle_admin_refresh: a failed request keeps the rows of its section and is named.
RefreshPanel(bad) ==
    /\ Runs("refresh") /\ Rest
    /\ shown' = Fetched(bad) /\ failed' = bad
    /\ UNCHANGED <<status, world, dialog, registry, setup, armed, events, feed, ghosts>>

\* push_admin_servers: a failed list is an empty one.
LoadServers(ok) ==
    /\ Runs("servers") /\ Rest /\ servers' = IF ok THEN Head(todo).n ELSE None
    /\ UNCHANGED <<status, world, panel, editor, confirm, featured, registry, setup, armed, events, feed, ghosts>>

\* push_admin_featured.
LoadFeatured(ok) ==
    /\ Runs("featured") /\ Rest /\ featured' = IF ok THEN Head(todo).n ELSE None
    /\ UNCHANGED <<status, world, panel, editor, servers, confirm, registry, setup, armed, events, feed, ghosts>>

\* A mutant: a late answer lands in the dialog of another network.
ShowsAny(n) == confirm.id # None

\* The answer is dropped when the dialog moved on to another network.
Shows(n) == confirm.id = n

\* fetch_admin_network_message_count: a network that is gone has no count.
Counts(n, known) == known => <<session, n>> \notin gone

\* handle_admin_network_count.
Count(known) ==
    /\ Runs("count") /\ Rest
    /\ LET n == Head(todo).n IN
       /\ Counts(n, known)
       /\ armed' = IF known THEN n ELSE None
       /\ confirm' = IF Shows(n) THEN [confirm EXCEPT !.state = IF known THEN "known" ELSE "unknown"]
                     ELSE confirm
       /\ counted' = IF Shows(n) /\ known THEN counted \union {<<session, n>>} ELSE counted
    /\ UNCHANGED <<status, world, panel, editor, servers, featured, registry, setup, events, feed, written>>

\* AdminNetworkDelete: only the network whose count was answered last.
Delete(a) ==
    /\ Runs("delete")
    /\ LET n == Head(todo).n IN
       IF armed # n
       THEN Rest /\ UNCHANGED <<ver, gone, armed, written, status>>
       ELSE /\ armed' = None /\ todo' = Refresh \o Tail(todo)
            /\ gone' = IF Done(a) THEN gone \union {<<session, n>>} ELSE gone
            /\ \E s \in Section : Written(s, a)
            /\ status' = Told(a)
    /\ UNCHANGED <<uploads, mode, panel, dialog, registry, setup, events, feed, counted>>

UploadsRead(ok) == IF ok THEN uploads ELSE Unread

\* handle_admin_uploads_refresh: a failed list is no list.
LoadUploads(ok) ==
    /\ Runs("uploads") /\ Rest
    /\ registry' = UploadsRead(ok)
    /\ UNCHANGED <<status, world, panel, dialog, setup, armed, events, feed, ghosts>>

\* can_delete.
CanDelete(u) == registry[u] = "live"

\* handle_admin_upload_delete: only a live row of the last list.
Unlink(a) ==
    /\ Runs("unlink")
    /\ LET u == Head(todo).n IN
       IF ~CanDelete(u) THEN Rest /\ UNCHANGED uploads
       ELSE /\ todo' = <<Step("uploads", None)>> \o Tail(todo)
            /\ uploads' = IF Done(a) THEN [uploads EXCEPT ![u] = "deleted"] ELSE uploads
    /\ UNCHANGED <<status, ver, gone, mode, panel, dialog, registry, setup, armed, events, feed, ghosts>>

\* handle_admin_settings_load.
LoadSettings(ok) ==
    /\ Runs("load") /\ Rest
    /\ settings' = (IF ok THEN mode ELSE settings) /\ form' = (IF ok THEN mode ELSE form)
    /\ UNCHANGED <<status, world, panel, dialog, registry, armed, events, feed, ghosts>>

\* admin_settings_body: the addressing is sent when it differs from the last answer.
Carries(m) == m # settings

SaveStep(a) ==
    /\ Runs("save") /\ todo' = Refresh \o Tail(todo)
    /\ mode' = IF Carries(Head(todo).n) /\ Done(a) THEN Head(todo).n ELSE mode
    /\ status' = Told(a)
    /\ UNCHANGED <<ver, gone, uploads, panel, dialog, registry, setup, armed, events, feed, ghosts>>

\* handle_admin_feed: a snapshot, an event or the overview, at most the cap.
Feed ==
    /\ feed /\ todo = <<>> /\ events < MaxEvents /\ events' = events + 1
    /\ UNCHANGED <<status, session, clicks, world, todo, panel, dialog, registry, setup, armed, feed, ghosts>>

-----------------------------------------------------------------------------
\* A mutant: the worker's panels outlive the session.
NewlyArmedKept == armed

\* WorkerState::new: no count has been answered.
NewlyArmed == None

(* Disconnect makes a new worker state; the page keeps its lists, its open    *)
(* editor and the dialog with its count.                                      *)
SignOut ==
    /\ session # None /\ todo = <<>>
    /\ session' = None /\ feed' = FALSE /\ armed' = NewlyArmed /\ events' = 0 /\ settings' = None /\ registry' = Unread
    /\ UNCHANGED <<status, clicks, world, todo, panel, dialog, form, ghosts>>

SignIn(k) ==
    /\ session = None /\ todo = <<>> /\ session' = k
    /\ UNCHANGED <<status, clicks, world, todo, panel, dialog, registry, setup, armed, events, feed, ghosts>>

\* Another administrator: a section or the addressing changes.
Other(s) ==
    /\ ver[s] < MaxVersion /\ ver' = [ver EXCEPT ![s] = @ + 1] /\ mode' \in {0, 1}
    /\ UNCHANGED <<status, session, clicks, gone, uploads, todo, panel, dialog, registry, setup, armed, events, feed, ghosts>>

Worker ==
    \/ Invalid \/ JoinFeed
    \/ \E a \in Answer :
          Write(a) \/ QuietWrite(a) \/ CredentialWrite(a) \/ VhostWrite(a) \/ EditWrite(a)
          \/ ServerWrite(a) \/ FeaturedWrite(a) \/ Delete(a) \/ Unlink(a) \/ SaveStep(a)
    \/ \E bad \in SUBSET Section : RefreshPanel(bad)
    \/ \E ok \in BOOLEAN : LoadServers(ok) \/ LoadFeatured(ok) \/ Count(ok) \/ LoadUploads(ok) \/ LoadSettings(ok)

Next == Click \/ Worker \/ Feed \/ SignOut \/ (\E k \in Server : SignIn(k)) \/ (\E s \in Section : Other(s))
Spec == Init /\ [][Next]_vars

-----------------------------------------------------------------------------
(* A network is deleted only after the dialog of that network showed the      *)
(* count that this very server answered, in whatever order dialogs were       *)
(* opened, left and answered, and although the page keeps a dialog across a   *)
(* sign-out (AdminNetworkDelete, handle_admin_network_count).                 *)
DeleteWasCounted == gone \subseteq counted

(* What this console changed is on the page once the worker is idle, or the   *)
(* page names the section that could not be read; a write whose answer was    *)
(* lost is no exception.                                                      *)
WriteIsShown ==
    todo = <<>> => \A s \in Section : shown[s] >= written[s] \/ s \in failed

=============================================================================
