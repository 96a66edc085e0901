------------------------------ MODULE Settings ------------------------------
(***************************************************************************)
(* The settings of the account and of a network.  A change is a command    *)
(* for the worker, which runs one after the other; its requests take time, *)
(* other clients of the account change the same settings meanwhile, and a  *)
(* request may fail before or after the server did its work.               *)
(*                                                                         *)
(* srv is the server, st the worker's copies (SettingsState), page what    *)
(* the screen shows, file settings.json.  A setting is an old or a new     *)
(* value.  Channel stands for the conversations that have a mute or a      *)
(* Denoise choice.                                                         *)
(***************************************************************************)
EXTENDS Naturals, Sequences, FiniteSets

CONSTANTS Network, Mask, Alias, Channel, None, MaxEvents

VARIABLES
    tab,        \* the part of the screen that this behaviour uses
    srv, st, page, file, todo,
    events,     \* clicks, faults, changes by others and restarts so far
    other,      \* the display preferences that another client read and is about to write
    foreign,    \* history: choices that others changed since this client wrote or read them
    kept,       \* history: aliases that were added and not removed
    touched     \* history: what others changed since the last read of this client

vars == <<tab, srv, st, page, file, todo, events, other, foreign, kept, touched>>
ghosts == <<foreign, kept, touched>>

Value == {"old", "new"}
Field == {"leave", "away", "delay", "peers"}
Choice == {"unset", "show", "hide"}
Unset == [c \in Channel |-> "unset"]
Notes == [toggle : BOOLEAN, sound : BOOLEAN, muted : SUBSET Channel]

\* WorkerState::new: what settings.json has, and nothing of the account.
Fresh(f) ==
    [net |-> None, open |-> None, ign |-> [n \in Network |-> {}], notes |-> None, ban |-> None, baseline |-> "old",
     notify |-> {}, watch |-> {}, listing |-> FALSE, pins |-> f.pins, unsynced |-> f.unsynced, since |-> f.since]

Blank ==
    [ign |-> [of |-> None, list |-> {}], masks |-> {}, perform |-> "", aliases |-> {}, vhost |-> FALSE, dcc |-> FALSE,
     toggle |-> FALSE, muted |-> {}, ban |-> "old", display |-> "old", loaded |-> FALSE, personal |-> "old",
     profile |-> "old", avatar |-> FALSE, notify |-> {}, status |-> ""]

Step(op, arg) == [op |-> op, arg |-> arg]
SignInSteps == <<Step("pins", None), Step("notes", None), Step("bans", None), Step("prefs", None)>>

Init ==
    /\ tab \in {"network", "ignores", "account", "notes"}
    /\ srv = [ign |-> [n \in Network |-> {}], perform |-> "old", aliases |-> Alias, vhost |-> FALSE, dcc |-> FALSE,
              notes |-> [toggle |-> TRUE, sound |-> FALSE, muted |-> {}], ban |-> "old", display |-> "old",
              personal |-> [f \in Field |-> "old"], suffix |-> "old", profile |-> "old", nick |-> "old",
              avatar |-> FALSE, notify |-> {}, watch |-> {}, pins |-> Unset, persisted |-> FALSE]
    /\ file = [pins |-> Unset, unsynced |-> {}, since |-> {}]
    /\ st = Fresh(file) /\ page = Blank /\ todo = SignInSteps
    /\ events = 0 /\ other = None
    /\ foreign = {} /\ kept = Alias /\ touched = {}

TypeOK ==
    /\ st.net \in Network \union {None} /\ st.notes \in Notes \union {None} /\ srv.notes \in Notes
    /\ srv.aliases \subseteq Alias /\ st.unsynced \subseteq Channel
    /\ file.pins \in [Channel -> Choice] /\ srv.pins \in [Channel -> Choice]

-----------------------------------------------------------------------------
(* The screen.  A control shows its new value at once and sends a command.    *)

Event == events < MaxEvents /\ events' = events + 1

Click(steps) ==
    /\ Event /\ todo' = todo \o steps
    /\ UNCHANGED <<tab, srv, st, file, other, ghosts>>

Simple(ops) == page' = page /\ \E op \in ops : Click(<<Step(op, None)>>)
Select == \E n \in Network : page' = page /\ Click(<<Step("network", n), Step("refresh", None)>>)

\* The tab of a network: its perform text, identity, profile, picture and switches.
ClickNetwork ==
    /\ tab = "network"
    /\ \/ Select
       \/ Simple({"identity", "avatar", "avatar-remove", "dcc", "notify", "unnotify"})
       \/ page' = [page EXCEPT !.perform = "new"] /\ Click(<<>>)
       \/ page' = page /\ Click(<<Step("perform", page.perform)>>)
       \/ \E v \in Value : page' = [page EXCEPT !.profile = v] /\ Click(<<Step("profile", v)>>)

\* The ignore lists: Settings, the menus of the nicks, and the window they belong to.
ClickIgnores ==
    /\ tab = "ignores"
    /\ \/ Select
       \/ \E n \in Network : page' = page /\ Click(<<Step("window", n)>>)
       \/ \E m \in Mask, op \in {"ignore", "unignore", "member-ignore", "member-unignore"} :
             page' = page /\ Click(<<Step(op, m)>>)

\* What belongs to the account.
ClickAccount ==
    /\ tab = "account"
    /\ \/ Simple({"watch", "unwatch", "watch-list", "vhost"})
       \/ \E x \in Alias, op \in {"alias", "unalias"} : page' = page /\ Click(<<Step(op, x)>>)
       \/ \E v \in Value : page' = [page EXCEPT !.ban = v] /\ Click(<<Step("ban", v)>>)
       \/ page.loaded /\ page' = page /\ \E valid \in BOOLEAN : Click(<<Step("personal", valid)>>)

\* Notifications, mutes, display and Denoise.
ClickNotes ==
    /\ tab = "notes"
    /\ \/ Simple({"sound", "notes"})
       \/ \E v \in BOOLEAN : page' = [page EXCEPT !.toggle = v] /\ Click(<<Step("toggle", v)>>)
       \/ \E c \in Channel, op \in {"mute", "unmute", "denoise"} : page' = page /\ Click(<<Step(op, c)>>)
       \/ \E v \in Value : page' = [page EXCEPT !.display = v] /\ Click(<<Step("display", v)>>)

-----------------------------------------------------------------------------
(* The worker.  Fails says whether the answer is an error; a failed write may *)
(* have been done.                                                            *)

Outcome(ok) == IF ok THEN UNCHANGED events ELSE Event
Runs(op) == todo # <<>> /\ Head(todo).op = op /\ UNCHANGED <<tab, other>>
Arg == Head(todo).arg
Rest == todo' = Tail(todo)

\* A PUT: done when it is answered, and perhaps when it is not.
Stores(ok, done, new) == srv' = (IF done THEN new ELSE srv) /\ (ok => done) /\ Outcome(ok)

\* What the writes of the settings leave on the server.
PerformStored(text) == [srv EXCEPT !.perform = text]
IdentityStored == [srv EXCEPT !.nick = "new"]
DccStored == [srv EXCEPT !.dcc = ~@]
ProfileStored(v) == [srv EXCEPT !.profile = v]
AvatarStored(has) == [srv EXCEPT !.avatar = has]
PersonalStored(bad, suffix) ==
    [srv EXCEPT !.personal = [f \in Field |-> IF f \in bad THEN @[f] ELSE "new"],
                !.suffix = IF bad = {} /\ suffix THEN "new" ELSE @]
BanStored(v) == [srv EXCEPT !.ban = v]
VhostStored(v) == [srv EXCEPT !.vhost = v]
NotesStored(notes) == [srv EXCEPT !.notes = notes]
NotifyStored(list) == [srv EXCEPT !.notify = list]

\* ProfileFields::changes_to: what is sent.
Changes(v) == v # st.baseline

\* A command whose handler returns early: no network is picked, or no window is open.
Dropped(ops, nothing) ==
    /\ todo # <<>> /\ Head(todo).op \in ops /\ nothing /\ Rest
    /\ UNCHANGED <<srv, st, page, file, tab, events, other, ghosts>>

NoNetwork == Dropped({"perform", "profile", "identity", "avatar", "avatar-remove", "ignore", "unignore", "dcc"}, st.net = None)
NoWindow == Dropped({"member-ignore", "member-unignore"}, st.open = None)

\* SettingsNetworkSelected with load_identity_settings: a failed read leaves the
\* profile of the network before.
SelectNetwork(ok) ==
    /\ Runs("network") /\ Rest /\ Outcome(ok)
    /\ st' = [st EXCEPT !.net = Arg, !.baseline = IF ok THEN srv.profile ELSE @]
    /\ page' = (IF ok THEN [page EXCEPT !.profile = srv.profile, !.avatar = srv.avatar] ELSE page)
    /\ UNCHANGED <<srv, file, ghosts>>

\* handle_settings_network_refresh: a failed read of the aliases keeps the list,
\* any other one shows nothing.
Refresh(ignores, bad) ==
    /\ Runs("refresh") /\ Rest /\ Outcome(ignores /\ bad = {})
    /\ LET known == ignores /\ st.net # None
           ign == IF known THEN [st.ign EXCEPT ![st.net] = srv.ign[st.net]] ELSE st.ign
       IN /\ st' = [st EXCEPT !.ign = ign]
          /\ page' = [page EXCEPT
                !.ign = IF known THEN [of |-> st.net, list |-> srv.ign[st.net]] ELSE [of |-> None, list |-> {}],
                !.masks = IF known /\ st.open = st.net THEN srv.ign[st.net] ELSE @,
                !.perform = IF st.net # None /\ "perform" \notin bad THEN srv.perform ELSE "",
                !.aliases = IF "aliases" \in bad THEN @ ELSE srv.aliases,
                !.vhost = srv.vhost /\ "vhost" \notin bad,
                !.dcc = srv.dcc /\ st.net # None /\ "dcc" \notin bad,
                !.notify = st.notify]
    /\ UNCHANGED <<srv, file, ghosts>>

\* add_ignore and remove_ignore: the answer is the new list.
Changed(n, m, add) == [srv EXCEPT !.ign[n] = IF add THEN @ \union {m} ELSE @ \ {m}]

\* remember_window_ignores and push_window_ignores.
Remembered(n, list) == [st EXCEPT !.ign[n] = list]
Masks(n, list) == IF st.open = n THEN list ELSE page.masks

\* run_ignore_add, run_ignore_remove: the list of the network picked in Settings.
IgnoreChange(ok, done) ==
    /\ \E op \in {"ignore", "unignore"} : Runs(op)
    /\ st.net # None /\ Rest /\ Stores(ok, done, Changed(st.net, Arg, Head(todo).op = "ignore"))
    /\ st' = (IF ok THEN Remembered(st.net, srv'.ign[st.net]) ELSE st)
    /\ page' = IF ok THEN [page EXCEPT !.ign = [of |-> st.net, list |-> srv'.ign[st.net]],
                                       !.masks = Masks(st.net, srv'.ign[st.net])]
               ELSE [page EXCEPT !.status = "ignore-failed"]
    /\ UNCHANGED <<file, ghosts>>

\* A mutant: the change of a nick menu is shown in Settings whatever network is picked.
ShowsInAny(n) == TRUE

\* run_member_ignore shows its list in Settings only when the network is the one picked there.
ShowsIn(n) == st.net = n

MemberIgnore(ok, done) ==
    /\ \E op \in {"member-ignore", "member-unignore"} : Runs(op)
    /\ st.open # None /\ Rest /\ Stores(ok, done, Changed(st.open, Arg, Head(todo).op = "member-ignore"))
    /\ LET list == srv'.ign[st.open] IN
       /\ st' = (IF ok THEN Remembered(st.open, list) ELSE st)
       /\ page' = [page EXCEPT !.ign = IF ok /\ ShowsIn(st.open) THEN [of |-> st.open, list |-> list] ELSE @,
                               !.masks = IF ok THEN list ELSE @,
                               !.status = IF ok THEN "ignore-done" ELSE "command-failed"]
    /\ UNCHANGED <<file, ghosts>>

\* A window opens: sync_window_ignores shows what is known, then what the server answers.
OpenWindow(ok) ==
    /\ Runs("window") /\ Rest /\ Outcome(ok)
    /\ LET list == IF ok THEN srv.ign[Arg] ELSE st.ign[Arg] IN
       /\ st' = [st EXCEPT !.open = Arg, !.ign[Arg] = list]
       /\ page' = [page EXCEPT !.masks = list]
    /\ UNCHANGED <<srv, file, ghosts>>

\* run_perform_save: the text on the screen, whatever was read.
PerformSave(ok, done) ==
    /\ Runs("perform") /\ st.net # None /\ Rest /\ Stores(ok, done, PerformStored(Arg))
    /\ UNCHANGED <<st, page, file, ghosts>>

\* handle_identity_save and run_dcc_auto_accept_toggle: nobody reads the answer.
IdentitySave(ok, done) ==
    /\ Runs("identity") /\ st.net # None /\ Rest /\ Stores(ok, done, IdentityStored)
    /\ UNCHANGED <<st, page, file, ghosts>>

DccToggle(ok, done) ==
    /\ Runs("dcc") /\ st.net # None /\ Rest /\ Stores(ok, done, DccStored)
    /\ UNCHANGED <<st, page, file, ghosts>>

\* handle_profile_save: only what differs from the last answer is sent.
ProfileSave(ok, done) ==
    /\ Runs("profile") /\ st.net # None /\ Rest
    /\ IF ~Changes(Arg)
       THEN ok /\ ~done /\ page' = [page EXCEPT !.status = "profile-saved"] /\ UNCHANGED <<srv, st, events>>
       ELSE /\ Stores(ok, done, ProfileStored(Arg))
            /\ st' = (IF ok THEN [st EXCEPT !.baseline = Arg] ELSE st)
            /\ page' = [page EXCEPT !.status = IF ok THEN "profile-saved" ELSE "profile-failed"]
    /\ UNCHANGED <<file, ghosts>>

\* handle_avatar_upload and handle_avatar_remove; a file that is no image is refused here.
AvatarChange(ok, done) ==
    /\ \E op \in {"avatar", "avatar-remove"} : Runs(op)
    /\ st.net # None /\ Rest /\ Stores(ok, done, AvatarStored(Head(todo).op = "avatar"))
    /\ page' = [page EXCEPT !.avatar = IF ok THEN srv'.avatar ELSE @,
                            !.status = IF ok THEN "" ELSE "avatar-failed"]
    /\ UNCHANGED <<st, file, ghosts>>

\* load_personal_prefs: everything or nothing.
LoadPersonal(ok) ==
    /\ Runs("prefs") /\ Rest /\ Outcome(ok)
    /\ page' = (IF ok THEN [page EXCEPT !.loaded = TRUE, !.display = srv.display] ELSE page)
    /\ UNCHANGED <<srv, st, file, ghosts>>

\* handle_personal_prefs_save: four writes that do not wait for each other's
\* success, then the suffix of the nick if all of them worked.
PersonalSave(bad, suffix) ==
    /\ Runs("personal") /\ Rest
    /\ IF ~Arg
       THEN bad = {} /\ suffix /\ page' = [page EXCEPT !.status = "away-delay-invalid"] /\ UNCHANGED <<srv, events>>
       ELSE /\ Outcome(bad = {} /\ suffix)
            /\ srv' = PersonalStored(bad, suffix)
            /\ page' = [page EXCEPT !.status = IF bad = {} /\ suffix THEN "personal-prefs-saved" ELSE "personal-prefs-failed"]
    /\ UNCHANGED <<st, file, ghosts>>

\* load_ban_type and run_ban_type_save: the form in use changes once the server has it.
LoadBans(ok) ==
    /\ Runs("bans") /\ Rest /\ Outcome(ok)
    /\ st' = (IF ok THEN [st EXCEPT !.ban = srv.ban] ELSE st)
    /\ page' = [page EXCEPT !.ban = IF ok THEN srv.ban ELSE "old"]
    /\ UNCHANGED <<srv, file, ghosts>>

BanTypeSave(ok, done) ==
    /\ Runs("ban") /\ Rest /\ Stores(ok, done, BanStored(Arg))
    /\ st' = (IF ok THEN [st EXCEPT !.ban = Arg] ELSE st)
    /\ page' = IF ok THEN [page EXCEPT !.ban = Arg]
               ELSE [page EXCEPT !.ban = IF st.ban = None THEN "old" ELSE st.ban, !.status = "personal-prefs-failed"]
    /\ UNCHANGED <<file, ghosts>>

-----------------------------------------------------------------------------
(* Lists that a change reads, edits and writes back whole. *)

\* A mutant: a read that failed is an empty map.
ReadOrEmpty(ok) == IF ok THEN srv.aliases ELSE {}

\* The read of apply_alias_change: without it nothing is written.
AliasRead(ok) == IF ok THEN srv.aliases ELSE None

ReadAliases(ok) ==
    /\ \E op \in {"alias", "unalias"} : Runs(op)
    /\ Outcome(ok)
    /\ LET read == AliasRead(ok) IN
       IF read = None
       THEN Rest /\ page' = [page EXCEPT !.status = "alias-read-failed"] /\ UNCHANGED touched
       ELSE /\ todo' = <<Step("alias-write", [x |-> Arg, add |-> Head(todo).op = "alias", read |-> read])>> \o Tail(todo)
            /\ touched' = {} /\ UNCHANGED page
    /\ UNCHANGED <<srv, st, file, foreign, kept>>

\* The write of apply_alias_change and the refresh of run_alias_change.
WriteAliases(ok, done) ==
    /\ Runs("alias-write")
    /\ LET a == Arg
           new == IF a.add THEN a.read \union {a.x} ELSE a.read \ {a.x}
       IN /\ Stores(ok, done, [srv EXCEPT !.aliases = new])
          /\ kept' = IF ~done THEN kept
                     ELSE IF a.add THEN (kept \union {a.x}) \ touched ELSE kept \ (touched \union {a.x})
    /\ todo' = (IF ok THEN <<Step("refresh", None)>> ELSE <<>>) \o Tail(todo)
    /\ page' = (IF ok THEN page ELSE [page EXCEPT !.status = "alias-save-failed"])
    /\ touched' = {} /\ UNCHANGED <<st, file, foreign>>

\* handle_vhost_toggle: nothing is written without the current selection.
ReadVhost(ok) ==
    /\ Runs("vhost") /\ Outcome(ok)
    /\ todo' = (IF ok THEN <<Step("vhost-write", ~srv.vhost)>> ELSE <<>>) \o Tail(todo)
    /\ UNCHANGED <<srv, st, page, file, ghosts>>

WriteVhost(ok, done) ==
    /\ Runs("vhost-write") /\ Stores(ok, done, VhostStored(Arg))
    /\ todo' = <<Step("refresh", None)>> \o Tail(todo)
    /\ UNCHANGED <<st, page, file, ghosts>>

-----------------------------------------------------------------------------
(* The display preferences and the Denoise choices are one map on the server, *)
(* read and then written whole by every Cordiale that changes a part of it.   *)

Stored == [display |-> srv.display, pins |-> srv.pins]
Replaced(map) == [srv EXCEPT !.display = map.display, !.pins = map.pins, !.persisted = TRUE]

\* What update_display_prefs and put_presence_pins edit in the map that was read.
WithDisplay(map, v) == [map EXCEPT !.display = v]
WithPins(map, push) ==
    [map EXCEPT !.pins = [c \in Channel |-> IF c \in DOMAIN push THEN push[c] ELSE @[c]]]

\* A mutant: a read that failed is an account without preferences.
StoredOrDefault(ok) == IF ok THEN Stored ELSE [display |-> "old", pins |-> Unset]

StoredRead(ok) == IF ok THEN Stored ELSE None

\* put_display_prefs_merged up to its PUT.
ReadStored(ok) ==
    /\ \E op \in {"display", "denoise-put", "pins-put"} : Runs(op)
    /\ Outcome(ok)
    /\ todo' = <<Step("put", [of |-> Head(todo).op, edit |-> Arg, read |-> StoredRead(ok)])>> \o Tail(todo)
    /\ UNCHANGED <<srv, st, page, file, ghosts>>

\* Its PUT, of the map that was read with the edit; without one nothing is sent.
Puts(op, ok, done, edited) ==
    /\ Runs("put") /\ Arg.of = op /\ Rest
    /\ IF Arg.read = None THEN ~ok /\ ~done /\ UNCHANGED <<srv, events>> ELSE Stores(ok, done, Replaced(edited))

\* handle_save_display_prefs: a refusal shows what is stored, when that can be read.
DisplaySave(ok, done, read) ==
    /\ Puts("display", ok, done, WithDisplay(Arg.read, Arg.edit)) /\ (ok => ~read)
    /\ page' = IF ok THEN page
               ELSE [page EXCEPT !.display = IF read THEN srv'.display ELSE @, !.status = "display-prefs-save-failed"]
    /\ UNCHANGED <<st, file, ghosts>>

-----------------------------------------------------------------------------
(* The map of the notifications, saved whole over the last one that was read. *)

\* forget_lifted_mutes with save_mute_settings.
Lifted(s, notes) == [s EXCEPT !.notes = notes, !.since = @ \intersect notes.muted]
Shown(notes) == [page EXCEPT !.toggle = notes.toggle, !.muted = notes.muted]

\* handle_load_notification_prefs.
LoadNotes(ok) ==
    /\ Runs("notes") /\ Rest /\ Outcome(ok)
    /\ st' = (IF ok THEN Lifted(st, srv.notes) ELSE st) /\ file' = [file EXCEPT !.since = st'.since]
    /\ page' = (IF ok THEN Shown(srv.notes) ELSE page)
    /\ UNCHANGED <<srv, ghosts>>

\* handle_save_notification_prefs: nothing without a map; a refusal puts the switches back.
SaveToggles(ok, done) ==
    /\ Runs("toggle") /\ Rest
    /\ IF st.notes = None
       THEN ok /\ ~done /\ UNCHANGED <<srv, st, page, events>>
       ELSE LET new == [st.notes EXCEPT !.toggle = Arg] IN
            /\ Stores(ok, done, NotesStored(new))
            /\ st' = (IF ok THEN [st EXCEPT !.notes = new] ELSE st)
            /\ page' = IF ok THEN page ELSE [page EXCEPT !.toggle = st.notes.toggle, !.status = "notify-prefs-failed"]
    /\ UNCHANGED <<file, ghosts>>

\* apply_notification_edit.
Edited(notes, op, c) ==
    CASE op = "mute" -> [notes EXCEPT !.muted = @ \union {c}]
      [] op = "unmute" -> [notes EXCEPT !.muted = @ \ {c}]
      [] op = "sound" -> [notes EXCEPT !.sound = ~@]

\* handle_notification_edit: the map is read first when there is none.
EditNotes(read, ok, done) ==
    /\ \E op \in {"mute", "unmute", "sound"} : Runs(op)
    /\ Rest /\ (st.notes # None => read)
    /\ IF ~read
       THEN ~ok /\ ~done /\ Outcome(FALSE) /\ page' = [page EXCEPT !.status = "notify-prefs-failed"] /\ UNCHANGED <<srv, st, file>>
       ELSE LET stored == IF st.notes = None THEN srv.notes ELSE st.notes
                new == Edited(stored, Head(todo).op, Arg)
                muted == IF Head(todo).op = "mute" THEN {Arg} ELSE {}
                loaded == IF st.notes = None THEN Shown(stored) ELSE page
            IN /\ Stores(ok, done, NotesStored(new))
               /\ st' = Lifted(IF ok THEN [st EXCEPT !.since = @ \union muted] ELSE st, IF ok THEN new ELSE stored)
               /\ file' = [file EXCEPT !.since = st'.since]
               /\ page' = IF ok THEN [loaded EXCEPT !.muted = new.muted]
                          ELSE [loaded EXCEPT !.muted = stored.muted, !.status = "notify-prefs-failed"]
    /\ UNCHANGED ghosts

-----------------------------------------------------------------------------
(* Watched nicks and keywords. *)

\* run_notify_add, run_notify_remove: the local list follows an accepted change.
NotifyChange(ok, done) ==
    /\ \E op \in {"notify", "unnotify"} : Runs(op)
    /\ Rest /\ (st.net = None => ok /\ ~done)
    /\ LET new == IF Head(todo).op = "notify" THEN {"nick"} ELSE {} IN
       IF st.net = None THEN UNCHANGED <<srv, st, events>>
       ELSE /\ Stores(ok, done, NotifyStored(new))
            /\ st' = (IF ok THEN [st EXCEPT !.notify = new] ELSE st)
    /\ page' = [page EXCEPT !.notify = st'.notify]
    /\ UNCHANGED <<file, ghosts>>

\* notify_list: every change is answered with the whole list.
NotifyPush ==
    /\ st.notify # srv.notify /\ st' = [st EXCEPT !.notify = srv.notify] /\ page' = [page EXCEPT !.notify = srv.notify]
    /\ UNCHANGED <<srv, file, todo, tab, events, other, ghosts>>

\* run_watch_pattern_add, run_watch_pattern_remove: nobody waits for the server.
WatchChange(done) ==
    /\ \E op \in {"watch", "unwatch"} : Runs(op)
    /\ Rest /\ Outcome(done)
    /\ LET new == IF Head(todo).op = "watch" THEN {"word"} ELSE {} IN
       /\ srv' = (IF done THEN [srv EXCEPT !.watch = new] ELSE srv)
       /\ st' = [st EXCEPT !.watch = new]
    /\ UNCHANGED <<page, file, ghosts>>

\* request_watch_patterns, and its reply.
WatchList ==
    /\ Runs("watch-list") /\ Rest /\ st' = [st EXCEPT !.listing = TRUE]
    /\ UNCHANGED <<srv, page, file, events, ghosts>>

WatchReply ==
    /\ st.listing /\ st' = [st EXCEPT !.listing = FALSE, !.watch = srv.watch]
    /\ UNCHANGED <<srv, page, file, todo, tab, events, other, ghosts>>

-----------------------------------------------------------------------------
(* Denoise. *)

\* save_presence_settings.
Saved(s) == [file EXCEPT !.pins = s.pins, !.unsynced = s.unsynced]

Toggled(pref) == IF pref = "hide" THEN "show" ELSE "hide"

\* handle_toggle_denoise: the choice is on disk, unconfirmed, before it is sent.
ToggleDenoise ==
    /\ Runs("denoise")
    /\ LET c == Arg
           pref == Toggled(st.pins[c])
       IN /\ st' = [st EXCEPT !.pins[c] = pref, !.unsynced = @ \union {c}]
          /\ todo' = <<Step("denoise-put", [x \in {c} |-> pref])>> \o Tail(todo)
    /\ file' = Saved(st') /\ UNCHANGED <<srv, page, events, ghosts>>

PutDenoise(ok, done) ==
    /\ Puts("denoise-put", ok, done, WithPins(Arg.read, Arg.edit))
    /\ st' = (IF ok THEN [st EXCEPT !.unsynced = @ \ DOMAIN Arg.edit] ELSE st)
    /\ file' = Saved(st') /\ foreign' = (IF done THEN foreign \ DOMAIN Arg.edit ELSE foreign)
    /\ UNCHANGED <<page, kept, touched>>

\* reconcile: the server wins except for what it never confirmed; an account that
\* never saved anything gets every choice of this device.
Push == IF ~srv.persisted THEN [c \in {x \in Channel : st.pins[x] # "unset"} |-> st.pins[c]]
        ELSE [c \in st.unsynced |-> st.pins[c]]
Reconciled ==
    IF ~srv.persisted THEN st.pins ELSE [c \in Channel |-> IF c \in st.unsynced THEN st.pins[c] ELSE srv.pins[c]]

\* sync_presence_pins, its read; without one the local choices stay.
ReadPins(ok) ==
    /\ Runs("pins") /\ Outcome(ok)
    /\ IF ok
       THEN /\ st' = [st EXCEPT !.pins = Reconciled, !.unsynced = {}]
            /\ todo' = <<IF Push = <<>> THEN Step("pins-save", None) ELSE Step("pins-put", Push)>> \o Tail(todo)
            /\ touched' = {}
       ELSE Rest /\ UNCHANGED <<st, touched>>
    /\ UNCHANGED <<srv, page, file, foreign, kept>>

\* A mutant: a failed upload at sign-in is forgotten.
UnconfirmedForgotten(ok, push) == {}

Unconfirmed(ok, push) == IF ok THEN {} ELSE DOMAIN push

\* sync_presence_pins: nothing to upload, or the upload.
SavePins ==
    /\ Runs("pins-save") /\ Rest
    /\ file' = Saved(st) /\ foreign' = touched \intersect Channel
    /\ UNCHANGED <<srv, st, page, events, kept, touched>>

PutPins(ok, done) ==
    /\ Puts("pins-put", ok, done, WithPins(Arg.read, Arg.edit))
    /\ st' = [st EXCEPT !.unsynced = Unconfirmed(ok, Arg.edit)]
    /\ file' = Saved(st') /\ foreign' = (touched \intersect Channel) \ (IF done THEN DOMAIN Arg.edit ELSE {})
    /\ UNCHANGED <<page, kept, touched>>

-----------------------------------------------------------------------------
(* Sign-out keeps the page and signs in again; a crash keeps settings.json. *)
SignOut ==
    /\ todo = <<>> /\ Event
    /\ st' = Fresh(file) /\ page' = [page EXCEPT !.loaded = FALSE] /\ todo' = SignInSteps
    /\ UNCHANGED <<tab, srv, file, other, ghosts>>

Crash ==
    /\ Event
    /\ st' = Fresh(file) /\ page' = Blank /\ todo' = SignInSteps
    /\ UNCHANGED <<tab, srv, file, other, ghosts>>

\* Another client of the account.
Other ==
    /\ Event
    /\ \/ \E x \in Alias :
             /\ srv' = [srv EXCEPT !.aliases = @ \union {x}]
             /\ kept' = kept \union {x} /\ touched' = touched \union {x} /\ UNCHANGED foreign
       \/ \E n \in Network, m \in Mask : srv' = Changed(n, m, m \notin srv.ign[n]) /\ UNCHANGED ghosts
       \/ srv' = [srv EXCEPT !.notes.muted = Channel \ @] /\ UNCHANGED ghosts
    /\ UNCHANGED <<tab, st, page, file, todo, other>>

\* Another Cordiale of the account changes its display preferences or a choice:
\* it reads the map, and what it writes later may be older than the server's.
OtherReads ==
    /\ other = None /\ Event
    /\ other' \in {WithDisplay(Stored, v) : v \in Value}
                \union {WithPins(Stored, [x \in {c} |-> v]) : c \in Channel, v \in {"show", "hide"}}
    /\ UNCHANGED <<tab, srv, st, page, file, todo, ghosts>>

OtherWrites ==
    /\ other # None /\ srv' = Replaced(other) /\ other' = None
    /\ LET changed == {c \in Channel : srv'.pins[c] # srv.pins[c]} IN
       foreign' = foreign \union changed /\ touched' = touched \union changed
    /\ UNCHANGED <<tab, st, page, file, todo, events, kept>>

Worker ==
    \/ NoNetwork \/ NoWindow \/ WatchList \/ ToggleDenoise \/ SavePins
    \/ \E ok \in BOOLEAN :
          \/ SelectNetwork(ok) \/ OpenWindow(ok) \/ LoadPersonal(ok) \/ LoadBans(ok) \/ LoadNotes(ok)
          \/ ReadAliases(ok) \/ ReadVhost(ok) \/ ReadPins(ok) \/ ReadStored(ok) \/ WatchChange(ok)
          \/ \E bad \in SUBSET {"perform", "aliases", "vhost", "dcc"} : Refresh(ok, bad)
          \/ \E bad \in SUBSET Field : PersonalSave(bad, ok)
          \/ \E done \in BOOLEAN :
                \/ IgnoreChange(ok, done) \/ MemberIgnore(ok, done) \/ PerformSave(ok, done) \/ IdentitySave(ok, done)
                \/ DccToggle(ok, done) \/ ProfileSave(ok, done) \/ AvatarChange(ok, done) \/ BanTypeSave(ok, done)
                \/ WriteAliases(ok, done) \/ WriteVhost(ok, done) \/ SaveToggles(ok, done) \/ NotifyChange(ok, done)
                \/ PutDenoise(ok, done) \/ PutPins(ok, done)
                \/ \E read \in BOOLEAN : DisplaySave(ok, done, read) \/ EditNotes(read, ok, done)

Next ==
    \/ ClickNetwork \/ ClickIgnores \/ ClickAccount \/ ClickNotes \/ Worker
    \/ NotifyPush \/ WatchReply \/ SignOut \/ Crash \/ Other \/ OtherReads \/ OtherWrites
Spec == Init /\ [][Next]_vars

-----------------------------------------------------------------------------
(* "A failed upload is kept and sent again at the next sign-in": a Denoise    *)
(* choice that the server does not have is on disk as unconfirmed, whatever   *)
(* failed or crashed on the way, and however this client's own writes of the  *)
(* map fall between those of others.  The exception is a choice that a write  *)
(* of another client changed since this one last read or wrote it: it chose,  *)
(* or it wrote back a map that it had read before.                            *)
ChoiceKept == \A c \in Channel : file.pins[c] # srv.pins[c] => c \in file.unsynced \union foreign

(* "Pins for other channels, possibly set from another device, stay"          *)
(* (put_presence_pins): no write of this client takes back a choice that it   *)
(* does not send.                                                             *)
PinsStay ==
    [][\A c \in Channel :
          srv'.pins[c] # srv.pins[c] /\ other' = other
          => todo # <<>> /\ Head(todo).op = "put" /\ Arg.of # "display" /\ c \in DOMAIN Arg.edit]_vars

(* The ignore list in Settings is the one of the network picked there, or the *)
(* empty one after a failed read, whichever network's nick menu was used.     *)
ListOfNetwork == todo = <<>> /\ st.net # None => page.ign.of \in {st.net, None}

(* "A failed read must never reach write": the account loses no alias that    *)
(* nobody removed; only one that another client added between the read and    *)
(* the write of a change is overwritten.                                      *)
AliasesKept == kept \subseteq srv.aliases

=============================================================================
