------------------------------ MODULE Replies ------------------------------
(***************************************************************************)
(* The reply screen: what the server answers to /who, /whois, /lusers and  *)
(* the like, the WHOIS card with its picture, the summary of the mentions  *)
(* and the jump from one of its rows into the window it lives in.          *)
(*                                                                         *)
(* The worker reads one push at a time, so a push and the screen it opens  *)
(* are one step.  A picture is downloaded by a task of its own, which ends *)
(* whenever it ends.  Payloads are reduced to the subject of the reply and *)
(* to whether they are well formed.                                        *)
(***************************************************************************)
EXTENDS Naturals, Sequences, FiniteSets, FiniteSetsExt

CONSTANTS
    Nick,       \* subjects of WHOIS cards
    None,
    MaxPushes,  \* replies of the server
    MaxWire,    \* replies that wait for the worker
    MaxTasks,   \* downloads under way
    MaxRow,     \* rows of the window that the mention is in
    Around      \* rows on either side of a mention in its page

VARIABLES
    up,        \* the network is registered
    wire,      \* pushes on the user topic, in order
    pushes,
    view,      \* reply_view, as the screen shows it
    card,      \* whois_card
    picture,   \* the picture that the screen shows
    tasks,     \* downloads of pictures
    requested, \* lusers_requested holds the network
    bundle,    \* mentions_bundles and mention_jumps: the id of the mention, 0 for none
    last,      \* server: the newest row of the mention's window
    rows,      \* messages of that window
    asked,     \* history: /lusers commands
    shown,     \* history: LUSERS views that were shown
    rebuilt    \* history: a jump has replaced the rows of the window

vars == <<up, wire, pushes, view, card, picture, tasks, requested, bundle, last, rows,
          asked, shown, rebuilt>>
screen == <<view, picture>>
window == <<last, rows, rebuilt>>
counts == <<asked, shown>>

NoView == [kind |-> "none", subject |-> None, avatar |-> FALSE]
NoCard == [nick |-> None, avatar |-> FALSE]
ReplyKinds == {"who", "server", "whowas", "banlist"}

TypeOK ==
    /\ view.subject \in Nick \union {None} /\ card.nick \in Nick \union {None}
    /\ picture \in Nick \union {None} /\ Cardinality(tasks) <= MaxTasks
    /\ rows \subseteq 1 .. last /\ bundle \in 0 .. last

Init ==
    /\ up = TRUE /\ wire = <<>> /\ pushes = 0
    /\ view = NoView /\ card = NoCard /\ picture = None /\ tasks = {}
    /\ requested = FALSE /\ bundle = 0
    /\ last = MaxRow - 1 /\ rows = {last}
    /\ asked = 0 /\ shown = 0 /\ rebuilt = FALSE

-----------------------------------------------------------------------------
(* Requests and the server. *)

Push(k, n, ok) ==
    /\ Len(wire) < MaxWire /\ pushes < MaxPushes /\ pushes' = pushes + 1
    /\ wire' = Append(wire, [kind |-> k, nick |-> n, ok |-> ok])

\* parse_reply_command: the verbs that the server answers with a view.  A command
\* without its argument, or without a session, sends nothing.
Ask(k, n) ==
    /\ \E ok \in BOOLEAN : Push(k, n, ok)
    /\ IF k = "lusers" THEN requested' = TRUE /\ asked' = asked + 1
       ELSE UNCHANGED <<requested, asked>>
    /\ UNCHANGED <<up, screen, card, tasks, bundle, window, shown>>

\* The command is sent and the server has no answer.
AskUnanswered ==
    /\ asked < MaxPushes /\ requested' = TRUE /\ asked' = asked + 1
    /\ UNCHANGED <<up, wire, pushes, screen, card, tasks, bundle, window, shown>>

\* The server finds the picture of a nick later than the card.
AvatarFound(n) ==
    /\ Push("avatar", n, TRUE)
    /\ UNCHANGED <<up, screen, card, tasks, requested, bundle, window, counts>>

\* Back from away: the summary of the mentions.
BackFromAway ==
    /\ Push("mentions", None, TRUE)
    /\ UNCHANGED <<up, screen, card, tasks, requested, bundle, window, counts>>

\* connection_progress "connecting": a /lusers belongs to its connection.
ConnectionProgress ==
    /\ up /\ wire = <<>> /\ up' = FALSE /\ requested' = FALSE
    /\ UNCHANGED <<wire, pushes, screen, card, tasks, bundle, window, counts>>

\* The registration brings LUSERS that nobody asked for.
Registered ==
    /\ ~up /\ up' = TRUE /\ Push("lusers", None, TRUE)
    /\ UNCHANGED <<screen, card, tasks, requested, bundle, window, counts>>

-----------------------------------------------------------------------------
(* The worker. *)

Got(k) == wire # <<>> /\ Head(wire).kind = k /\ Head(wire).ok /\ wire' = Tail(wire)

\* One malformed field, or another carrier topic, drops the whole reply.
Rejected ==
    /\ wire # <<>> /\ ~Head(wire).ok /\ wire' = Tail(wire)
    /\ UNCHANGED <<up, pushes, screen, card, tasks, requested, bundle, window, counts>>

\* push_reply_view: any new view starts without a picture.
Shown(v) == view' = v /\ picture' = None
Show(k, n) == Shown([kind |-> k, subject |-> n, avatar |-> FALSE])

\* who_reply, server_reply, whowas_bundle, banlist_bundle: a view of their own.
WhoReply == Got("who") /\ Show("who", Head(wire).nick)
ServerReply == Got("server") /\ Show("server", None)
WhowasBundle == Got("whowas") /\ Show("whowas", Head(wire).nick)
BanlistBundle == Got("banlist") /\ Show("banlist", None)
PlainReply ==
    /\ WhoReply \/ ServerReply \/ WhowasBundle \/ BanlistBundle
    /\ UNCHANGED <<up, pushes, card, tasks, requested, bundle, window, counts>>

\* invite_ack: only a line in the status bar.
InviteAck ==
    /\ Got("invite")
    /\ UNCHANGED <<up, pushes, screen, card, tasks, requested, bundle, window, counts>>

\* load_whois_avatar: one task per card that has a picture.
LoadAvatar(n) ==
    /\ Cardinality(tasks) < MaxTasks
    /\ tasks' = tasks \union {[of |-> n, no |-> pushes]}

\* whois_bundle_view: the rows of the card, the one for the picture among them.
CardView(c) == [kind |-> "whois", subject |-> c.nick, avatar |-> c.avatar]

\* whois_bundle: the server may have the picture at once.
WhoisBundle(avatar) ==
    /\ Got("whois")
    /\ LET n == Head(wire).nick IN
       /\ card' = [nick |-> n, avatar |-> avatar] /\ Shown(CardView(card'))
       /\ IF avatar THEN LoadAvatar(n) ELSE UNCHANGED tasks
    /\ UNCHANGED <<up, pushes, requested, bundle, window, counts>>

\* apply_whois_avatar_ready: only the card of the same nick, and only once.
Patched == Head(wire).nick = card.nick /\ ~card.avatar

\* whois_avatar_ready: the card is patched, and shown again when it is the view.
WhoisAvatarReady ==
    /\ Got("avatar")
    /\ IF ~Patched THEN UNCHANGED <<card, screen, tasks>>
       ELSE /\ card' = [card EXCEPT !.avatar = TRUE]
            /\ IF view.kind = "whois" /\ view.subject = card.nick
               THEN Shown(CardView(card')) /\ LoadAvatar(card.nick)
               ELSE UNCHANGED <<screen, tasks>>
    /\ UNCHANGED <<up, pushes, requested, bundle, window, counts>>

\* A mutant: the request is not consumed.
LusersBundleAlways ==
    /\ Got("lusers")
    /\ IF requested THEN Show("lusers", None) /\ shown' = shown + 1
       ELSE UNCHANGED <<screen, shown>>
    /\ UNCHANGED <<up, pushes, requested, card, tasks, bundle, window, asked>>

\* lusers_bundle: shown once per request, and the unsolicited one never.
LusersBundle ==
    /\ Got("lusers")
    /\ IF requested THEN requested' = FALSE /\ Show("lusers", None) /\ shown' = shown + 1
       ELSE UNCHANGED <<requested, screen, shown>>
    /\ UNCHANGED <<up, pushes, card, tasks, bundle, window, asked>>

\* mentions_bundle: kept for /mentions with the places its rows lead to, and opened.
MentionsBundle(id) ==
    /\ Got("mentions") /\ bundle' = id /\ Show("mentions", None)
    /\ UNCHANGED <<up, pushes, card, tasks, requested, window, counts>>

\* /mentions, with a summary to show.
ReopenMentions ==
    /\ view.kind # "mentions" /\ bundle # 0 /\ Show("mentions", None)
    /\ UNCHANGED <<up, wire, pushes, card, tasks, requested, bundle, window, counts>>

\* The end of load_whois_avatar: the picture goes on whatever screen there is.
AvatarLoaded(t) ==
    /\ tasks' = tasks \ {t} /\ picture' = t.of
    /\ UNCHANGED <<up, wire, pushes, view, card, requested, bundle, window, counts>>

AvatarNotLoaded(t) ==
    /\ tasks' = tasks \ {t}
    /\ UNCHANGED <<up, wire, pushes, screen, card, requested, bundle, window, counts>>

\* finish_connect: a new session forgets the panels.
SignInAgain ==
    /\ up /\ wire = <<>> /\ (view # NoView \/ requested)
    /\ view' = NoView /\ card' = NoCard /\ requested' = FALSE /\ bundle' = 0
    /\ UNCHANGED <<up, wire, pushes, picture, tasks, window, counts>>

-----------------------------------------------------------------------------
(* The jump. *)

LiveRow ==
    /\ last < MaxRow /\ last' = last + 1 /\ rows' = rows \union {last'}
    /\ UNCHANGED <<up, wire, pushes, screen, card, tasks, requested, bundle, counts, rebuilt>>

\* fetch_messages_around.
PageAround(id) == {r \in 1 .. last : r + Around >= id /\ r <= id + Around}

\* A mutant: the page is merged however far it is from the rows held.
PageRowsMerged(page) == rows \union page

\* A page older than all rows held replaces them.
PageRows(page) == IF rows # {} /\ Max(page) < Min(rows) THEN page ELSE rows \union page

\* handle_open_mention, with the page read.
OpenMention ==
    /\ view.kind = "mentions" /\ bundle # 0
    /\ rows' = PageRows(PageAround(bundle)) /\ view' = NoView
    /\ rebuilt' = (rebuilt \/ ~(rows \subseteq rows'))
    /\ UNCHANGED <<up, wire, pushes, card, picture, tasks, requested, bundle, last, counts>>

\* The message is gone, or the page is not read.  A window that is gone changes nothing.
MentionNotFound ==
    /\ view.kind = "mentions" /\ bundle # 0
    /\ view' = NoView
    /\ UNCHANGED <<up, wire, pushes, card, picture, tasks, requested, bundle, window, counts>>

LoadOlder ==
    /\ rows # {} /\ Min(rows) > 1 /\ rows' = rows \union {Min(rows) - 1}
    /\ UNCHANGED <<up, wire, pushes, screen, card, tasks, requested, bundle, last, counts,
                   rebuilt>>

-----------------------------------------------------------------------------
Next ==
    \/ \E k \in ReplyKinds \union {"whois", "lusers", "invite"}, n \in Nick : Ask(k, n)
    \/ AskUnanswered \/ BackFromAway \/ ConnectionProgress \/ Registered
    \/ \E n \in Nick : AvatarFound(n)
    \/ Rejected \/ PlainReply \/ InviteAck \/ WhoisAvatarReady \/ LusersBundle
    \/ \E a \in BOOLEAN : WhoisBundle(a)
    \/ \E id \in 1 .. last : MentionsBundle(id)
    \/ ReopenMentions \/ SignInAgain
    \/ \E t \in tasks : AvatarLoaded(t) \/ AvatarNotLoaded(t)
    \/ LiveRow \/ OpenMention \/ MentionNotFound \/ LoadOlder

Spec == Init /\ [][Next]_vars

-----------------------------------------------------------------------------
(* A LUSERS view answers a /lusers of this connection, one view for each:    *)
(* the burst of a registration, however it falls between them, adds none.    *)
LusersOnlyAsked == shown <= asked

(* "The window is then rebuilt from the page": the page of a mention that is *)
(* older than all rows held leaves no hole, "that paging back can't fill",   *)
(* between itself and them.                                                  *)
FirstJumpLeavesNoHole == ~rebuilt => rows = Min(rows) .. Max(rows)

(* The same for good: the window still has no such hole when a newer row or  *)
(* the page of a newer mention follows the rebuilt rows.                     *)
JumpLeavesNoHole == rows = Min(rows) .. Max(rows)

(* "A late completion for a closed or different card is a silent no-op": the *)
(* picture on a WHOIS card is that of its nick.                              *)
PictureIsOfCard == view.kind = "whois" /\ picture # None => picture = view.subject

=============================================================================
