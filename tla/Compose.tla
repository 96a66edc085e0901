------------------------------ MODULE Compose ------------------------------
(****************************************************************************)
(* The compose line: the aliases, the slash commands, what each of them     *)
(* asks of the server, /kb with its look-up, and the Services console       *)
(* (core slash.rs and ban.rs; ui slash.rs, main.rs, frames.rs and           *)
(* e2e_runtime.rs).  One network is modelled.  A line is its verb and the   *)
(* first word after it; text after that word is left out.  The worker runs  *)
(* one line to its end before it takes the next command or frame.           *)
(****************************************************************************)
EXTENDS Naturals, Sequences, FiniteSets, Functions

CONSTANTS
    Name,             \* names an alias may have; some are also commands
    Template,         \* the expansions: [verb, place]
    Channel, Nick,
    Peer,             \* the nicks with a query and a locked window
    NickFold,         \* nick -> the nick under the network's CASEMAPPING
    AsciiFold,        \* nick -> the nick in lower-case ASCII
    None,
    MAX_ALIAS_DEPTH,
    AliasLists,       \* the alias lists an account may have
    Typed,            \* the lines the user types
    MaxEvents,        \* bound: lines, answers and changes of the world
    MaxId             \* bound: NOTICE rows of the service

VARIABLES
    window,    \* the open window: [kind, of]
    ready,     \* current_query_ready
    peerNow,   \* nick -> the nick of the same peer now (query_peer_links)
    session,   \* is there a SessionHandle
    saved,     \* the account's aliases, on the server
    aliases,   \* prefs.aliases: the cache
    joined,    \* the channels whose window state is Joined
    members,   \* channel -> its member list
    banType,   \* prefs.ban_type
    nextRef,   \* tracked_refs of the session
    kickbans,  \* pending_kickbans: ref -> the request
    asked,     \* refs whose answer can still come
    done,      \* the bans and kicks that were sent, in order
    console,   \* service_console
    posting,   \* the console's request that the worker waits for
    draft,     \* the console's input, in the UI
    rows,      \* the service's NOTICE rows so far
    last,      \* the last line: as run, the locked peer, its requests
    events

vars == <<window, ready, peerNow, session, saved, aliases, joined, members, banType, nextRef,
          kickbans, asked, done, console, posting, draft, rows, last, events>>
worldVars == <<ready, peerNow, session, joined, members>>
lineVars == <<worldVars, window, saved, aliases>>
banVars == <<banType, nextRef, kickbans, asked, done>>
consoleVars == <<console, posting, draft, rows>>

\* The commands of SlashCommand, by what run_slash_command does with them.
ToWindow == {"say", "me", "np"}
ByVerb == {"kick", "nickmodes", "topicclear", "names", "raw", "away", "hilight"}
NeedsChannel == {"kick", "nickmodes", "topicclear", "part", "cycle", "topic", "names"}
ByRequest == {"join", "part", "topic", "nick", "connect", "disconnect", "ignore", "notify"}
TwoRequests == {"cycle", "reconnect"}
Views == {"links", "recover", "mentions", "archive", "list"}
Replies == {"who", "whois"}
NoEffect == {"show", "usage", "unknown", "beep"}
Command == ToWindow \cup ByVerb \cup NeedsChannel \cup ByRequest \cup TwoRequests \cup Views
           \cup Replies \cup NoEffect
           \cup {"msg", "notice", "ctcp_action", "ctcp", "query", "kb", "amsg", "alias",
                 "unalias", "quit", "cs", "e2e", "onotice", "w"}
Arg == Nick \cup Channel \cup {None}
\* A line as parse and expand_aliases see it: its verb and its first word.
Line == [verb : Command \cup Name \cup {"text", "", "too-deep", "no-target"}, arg : Arg]
Server == [kind |-> "server", of |-> None]
NoWindow == [kind |-> "none", of |-> None]
Window == {Server, NoWindow} \cup [kind : {"channel"}, of : Channel]
          \cup [kind : {"query", "locked"}, of : Peer]
NoAlias == [verb |-> "", place |-> "none"]
NoConsole == [open |-> FALSE, since |-> 0, lines |-> <<>>]
NoPost == [text |-> "", clear |-> FALSE]

Locked == window.kind = "locked"
nick_eq(a, b) == a \in Nick /\ b \in Nick /\ NickFold[a] = NickFold[b]
query_send_target(n) == peerNow[n]

-----------------------------------------------------------------------------
(* Aliases *)

\* What $C stands for.
alias_target ==
    CASE window.kind \in {"query", "locked"} -> query_send_target(window.of)
      [] window.kind = "channel" -> window.of
      [] OTHER -> None

BUILTIN_ALIASES(v) == IF v = "onotice" THEN [verb |-> "notice", place |-> "$C"] ELSE NoAlias
TemplateOf(map, v) == IF v \in Name /\ map[v] # NoAlias THEN map[v] ELSE BUILTIN_ALIASES(v)
Expandable(map, v) == v \notin {"alias", "unalias"} /\ TemplateOf(map, v) # NoAlias

\* "$*" and a template without placeholders keep the words, "$2" has none to
\* take here, and "$C" puts the window's target first.
substitute_alias(t, arg, target) ==
    [verb |-> t.verb,
     arg |-> CASE t.place = "$C" -> target
               [] t.place = "$2" -> None
               [] OTHER -> arg]

short_form(l) == IF l.verb = "w" THEN [l EXCEPT !.verb = "whois"] ELSE l
TooDeep == [verb |-> "too-deep", arg |-> None]
NoTarget == [verb |-> "no-target", arg |-> None]

\* One round of the loop; a line without an alias stays as it is.
expand_once(map, l, target) ==
    IF ~Expandable(map, l.verb) THEN l
    ELSE IF TemplateOf(map, l.verb).place = "$C" /\ target = None THEN NoTarget
    ELSE substitute_alias(TemplateOf(map, l.verb), l.arg, target)
ExpandedIn(rounds, map, line, target) ==
    LET walk[d \in 0 .. rounds] == IF d = 0 THEN line ELSE expand_once(map, walk[d - 1], target)
        end == walk[rounds]
    IN  IF line.verb \in {"text", "say"} THEN line
        ELSE IF Expandable(map, end.verb) THEN TooDeep ELSE short_form(end)

ExpandedLate(map, line, target) == ExpandedIn(MAX_ALIAS_DEPTH + 1, map, line, target)
expand_aliases(map, line, target) == ExpandedIn(MAX_ALIAS_DEPTH, map, line, target)

NoAliases == [n \in Name |-> NoAlias]
\* user_aliases: fetched once; a failed fetch leaves the line without aliases.
user_aliases(fetched) == IF aliases # <<>> THEN aliases[1] ELSE IF fetched THEN saved ELSE NoAliases
CacheAfter(line, fetched) ==
    IF line.verb # "text" /\ aliases = <<>> /\ fetched THEN <<saved>> ELSE aliases

-----------------------------------------------------------------------------
(* Where a line goes: [lane, verb, to] of every request it makes *)

Req(lane, verb, to) == [lane |-> lane, verb |-> verb, to |-> to]
\* The peer that a command of this window is about: never the lock label.
Target == IF window.kind \in {"query", "locked"} THEN query_send_target(window.of) ELSE window.of
Post(verb, to) == {Req("plain", verb, to)}
PushVerb(verb, to) == IF session THEN {Req("verb", verb, to)} ELSE {}

locked_ctcp_action(l) == l.verb = "ctcp_action" /\ nick_eq(l.arg, window.of)
classify_locked_input(l) ==
    CASE l.verb \in {"text", "say", "me", "np"} -> "sealed"
      [] l.verb = "" -> "reject"
      [] OTHER -> "command"

\* The requests of run_slash_command.  The second of two is made only when the
\* first was accepted; "/amsg" goes on to every joined channel.
RunSlash(l, ok) ==
    LET chan == IF l.arg \in Channel THEN l.arg ELSE IF window.kind = "channel" THEN window.of ELSE None
        refused == \/ l.verb \in NeedsChannel /\ chan = None
                   \/ l.verb \in {"kick", "nickmodes"} /\ window.kind # "channel"
                   \/ l.verb \in ToWindow \ {"np"} /\ window = Server
                   \/ l.verb \in {"msg", "ctcp_action"} /\ l.arg = None
                   \/ l.verb = "msg" /\ l.arg \in Channel
    IN  IF refused THEN {} ELSE
        CASE l.verb \in ToWindow -> Post(l.verb, Target)
          [] l.verb = "msg" -> PushVerb("open_query_window", l.arg) \cup Post("msg", l.arg)
          [] l.verb = "ctcp_action" -> Post("ctcp_action", l.arg)
          [] l.verb \in {"notice", "ctcp"} -> IF l.arg = None THEN {} ELSE Post(l.verb, Target)
          [] l.verb = "query" /\ l.arg \in Nick -> PushVerb("open_query_window", l.arg)
          [] l.verb = "query" /\ l.arg = None /\ window.kind = "query" ->
                PushVerb("close_query_window", window.of)
          [] l.verb \in ByVerb \cup Replies -> PushVerb(l.verb, chan)
          [] l.verb \in ByRequest -> {Req("rest", l.verb, chan)}
          [] l.verb = "cycle" -> {Req("rest", "part", chan)} \cup IF ok THEN {Req("rest", "join", chan)} ELSE {}
          [] l.verb = "reconnect" -> {Req("rest", "parked", None)}
                                     \cup IF ok THEN {Req("rest", "connected", None)} ELSE {}
          [] l.verb = "amsg" -> {Req("plain", "amsg", c) : c \in joined}
          [] l.verb = "quit" -> {Req("rest", "parked", None)}
          [] OTHER -> {}

\* The requests of handle_send_message for the expanded line l.
GoesOutUnexpanded(typed, l, ok) ==
    IF Locked /\ (locked_ctcp_action(typed) \/ classify_locked_input(typed) = "sealed")
    THEN {Req("sealed", l.verb, window.of)}
    ELSE IF l.verb = "text" /\ window = Server THEN {}
    ELSE IF l.verb \in Views THEN PushVerb(l.verb, None)
    ELSE IF l.verb \in Replies THEN PushVerb(l.verb, None)
    ELSE IF l.verb \in {"text", ""} THEN IF Locked THEN {} ELSE Post("text", Target)
    ELSE RunSlash(l, ok)
GoesOut(typed, l, ok) ==
    IF Locked /\ (locked_ctcp_action(l) \/ classify_locked_input(l) = "sealed")
    THEN {Req("sealed", l.verb, window.of)}
    ELSE IF Locked /\ classify_locked_input(l) = "reject" THEN {}
    ELSE IF l.verb = "text" /\ window = Server THEN {}
    ELSE IF l.verb \in Views THEN PushVerb(l.verb, None)
    ELSE IF l.verb \in Replies THEN PushVerb(l.verb, None)
    ELSE IF l.verb \in {"text", ""} THEN Post("text", Target)
    ELSE RunSlash(l, ok)

-----------------------------------------------------------------------------
(* /kb: the ban, and the kick after it *)

needs_userhost(form) == form # "nick"
MaskOf(form, identity) ==
    CASE form = "nick" -> "nick"
      [] form = "host" -> IF "host" \in identity THEN "host" ELSE ""
      [] form = "user_host" -> IF {"user", "host"} \subseteq identity THEN "user_host" ELSE ""

\* send_kickban: the kick follows the ban, while the nick is in the channel.
is_channel_member(c, n) == \E m \in members[c] : AsciiFold[m] = AsciiFold[n]  \* eq_ignore_ascii_case
send_kickban(k, mask) ==
    IF ~session THEN <<>>
    ELSE <<[id |-> k.id, what |-> "ban", mask |-> mask, form |-> k.form]>>
         \o IF k.kick /\ is_channel_member(k.channel, k.nick)
            THEN <<[id |-> k.id, what |-> "kick", mask |-> mask, form |-> k.form]>> ELSE <<>>

\* What the answer [identity known to the server] makes of the request k.
FinishOpen(k, identity) ==
    IF MaskOf(k.form, identity) # "" THEN send_kickban(k, MaskOf(k.form, identity))
    ELSE IF k.kick /\ is_channel_member(k.channel, k.nick)
         THEN <<[id |-> k.id, what |-> "kick", mask |-> "", form |-> k.form]>> ELSE <<>>
finish_kickban(k, identity) ==
    IF k.channel \notin joined \/ MaskOf(k.form, identity) = "" THEN <<>>
    ELSE send_kickban(k, MaskOf(k.form, identity))

\* start_kickban: the nick form goes out at once.
start_kickban(n, kick, form, heard) ==
    LET k == [id |-> events, channel |-> window.of, nick |-> n, kick |-> kick, form |-> form]
    IN  IF ~needs_userhost(form)
        THEN /\ done' = done \o send_kickban(k, "nick")
             /\ UNCHANGED <<nextRef, kickbans, asked>>
        ELSE IF ~session THEN UNCHANGED <<done, nextRef, kickbans, asked>>
        ELSE /\ nextRef' = nextRef + 1
             /\ kickbans' = [r \in DOMAIN kickbans \cup {nextRef} |->
                                 IF r = nextRef THEN k ELSE kickbans[r]]
             /\ asked' = asked \cup (IF heard THEN {nextRef} ELSE {})
             /\ UNCHANGED done

-----------------------------------------------------------------------------
(* The user's lines *)

Step == events < MaxEvents /\ events' = events + 1
Idle == posting = NoPost

\* A line that only asks something of the server, or is refused.
Special == {"alias", "unalias", "quit", "cs", "kb"}
PlainLine(l) ==
    /\ l.verb \notin Special
    /\ window' = IF l.verb = "query" /\ l.arg = None /\ Locked THEN NoWindow ELSE window
    /\ UNCHANGED <<worldVars, saved, banVars, consoleVars>>

\* /alias and /unalias change the account's list and drop the cache, whether
\* the request worked or not.
SetAlias(l, ok) ==
    /\ l.verb \in {"alias", "unalias"}
    /\ \E n \in Name, t \in Template :
          saved' = IF ok THEN [saved EXCEPT ![n] = IF l.verb = "alias" THEN t ELSE NoAlias] ELSE saved
    /\ saved' \in AliasLists
    /\ UNCHANGED <<worldVars, window, banVars, consoleVars>>

\* effective_ban_type: read again when the sign-in could not read it.
KickBan(l) ==
    /\ l.verb = "kb" /\ window.kind = "channel" /\ l.arg \in Nick
    /\ banType' \in IF banType = None THEN {None, "user_host"} ELSE {banType}
    /\ \E heard \in BOOLEAN :
          start_kickban(l.arg, TRUE, IF banType' = None THEN "host" ELSE banType', heard)
    /\ UNCHANGED <<worldVars, window, saved, consoleVars>>
KickBanRefused(l) ==
    /\ l.verb = "kb" /\ ~(window.kind = "channel" /\ l.arg \in Nick)
    /\ UNCHANGED <<worldVars, window, saved, banVars, consoleVars>>

\* /quit parks every network and signs out: a new WorkerState.
SignedOut(l) ==
    /\ l.verb = "quit"
    /\ window' = NoWindow /\ ready' = FALSE /\ session' = TRUE
    /\ peerNow' = [n \in Nick |-> n]
    /\ joined' = {} /\ members' = [c \in Channel |-> {}]
    /\ banType' = None /\ nextRef' = 1 /\ kickbans' = <<>> /\ asked' = {}
    /\ console' = NoConsole
    /\ UNCHANGED <<saved, done, posting, draft, rows>>

-----------------------------------------------------------------------------
(* The Services console *)

MirroredAgain(c, id) ==
    IF c.open /\ id > c.since THEN [c EXCEPT !.lines = Append(@, id)] ELSE c
\* record_service_console_line: every row once, and only newer ones.
Mirrored(c, id) ==
    IF c.open /\ id > c.since /\ id \notin Range(c.lines)
    THEN [c EXCEPT !.lines = Append(@, id)] ELSE c

\* open_service_console: its mark is the newest row of the network in memory.
OpenConsole(l) ==
    /\ l.verb = "cs"
    /\ console' = [open |-> TRUE, since |-> rows, lines |-> <<>>]
    /\ draft' = ""
    /\ posting' = [text |-> "help", clear |-> FALSE]
    /\ UNCHANGED <<worldVars, window, saved, banVars, rows>>

Form == {"nick", "host", "user_host"}
Identity == {{}, {"host"}, {"user", "host"}}
NoLine == [line |-> [verb |-> "", arg |-> None], locked |-> None, out |-> {}]

\* handle_send_message.  A plain query that is not ready takes no line.
SendMessage(typed, fetched, ok) ==
    LET l == expand_aliases(user_aliases(fetched), typed, alias_target)
    IN  /\ Step /\ Idle
        /\ window.kind # "none" /\ (window.kind = "query" => ready)
        /\ last' = [line |-> l, locked |-> IF Locked THEN window.of ELSE None,
                    out |-> GoesOut(typed, l, ok)]
        /\ aliases' = IF l.verb \in {"alias", "unalias", "quit"} THEN <<>> ELSE CacheAfter(typed, fetched)
        /\ \/ PlainLine(l) \/ SetAlias(l, ok)
           \/ KickBan(l) \/ KickBanRefused(l)
           \/ SignedOut(l) \/ OpenConsole(l)
TypeDraft(t) ==
    /\ Step /\ last' = NoLine
    /\ console.open /\ draft # t
    /\ draft' = t
    /\ UNCHANGED <<lineVars, banVars, console, posting, rows>>
ServiceConsoleSend ==
    /\ Step /\ last' = NoLine
    /\ Idle /\ console.open /\ draft # ""
    /\ posting' = [text |-> draft, clear |-> TRUE]
    /\ UNCHANGED <<lineVars, banVars, console, draft, rows>>
should_clear_service_console_draft(current) == posting.clear /\ current = posting.text
ServiceConsoleSent(ok) ==
    /\ last' = NoLine /\ UNCHANGED events
    /\ ~Idle
    /\ posting' = NoPost
    /\ draft' = IF ok /\ should_clear_service_console_draft(draft) THEN "" ELSE draft
    /\ UNCHANGED <<lineVars, banVars, console, rows>>
ServiceConsoleClose ==
    /\ Step /\ last' = NoLine
    /\ Idle /\ console.open
    /\ console' = NoConsole
    /\ UNCHANGED <<lineVars, banVars, posting, draft, rows>>
\* A row of the service, new or delivered again by another topic or a catch-up.
ServiceNotice(id) ==
    /\ Step /\ last' = NoLine
    /\ Idle /\ id \in 1 .. rows + 1 /\ id <= MaxId
    /\ rows' = IF id > rows THEN id ELSE rows
    /\ console' = Mirrored(console, id)
    /\ UNCHANGED <<lineVars, banVars, posting, draft>>

-----------------------------------------------------------------------------
(* The rest of the client and the server *)

Elsewhere == Step /\ Idle /\ last' = NoLine /\ UNCHANGED consoleVars
SelectWindow(w) ==
    /\ Elsewhere
    /\ w # window
    /\ window' = w /\ ready' = FALSE
    /\ UNCHANGED <<peerNow, session, saved, aliases, joined, members, banVars>>
QueryReady ==
    /\ Elsewhere
    /\ window.kind = "query" /\ session /\ ~ready
    /\ ready' = TRUE
    /\ UNCHANGED <<window, peerNow, session, saved, aliases, joined, members, banVars>>
\* "Ban host" in the member menu bans without a kick.
MemberBanHost(n, heard) ==
    /\ Elsewhere
    /\ window.kind = "channel"
    /\ start_kickban(n, FALSE, "host", heard)
    /\ UNCHANGED <<lineVars, banType>>
BanTypeSave(form) ==
    /\ Elsewhere
    /\ banType' = form
    /\ UNCHANGED <<lineVars, nextRef, kickbans, asked, done>>
\* The answer of resolve_userhost, with what the server's cache holds.
ResolveReply(r, identity) ==
    /\ Elsewhere
    /\ r \in asked /\ r \in DOMAIN kickbans
    /\ asked' = asked \ {r}
    /\ kickbans' = [q \in DOMAIN kickbans \ {r} |-> kickbans[q]]
    /\ done' = done \o finish_kickban(kickbans[r], identity)
    /\ UNCHANGED <<lineVars, banType, nextRef>>
\* A lost connection loses the answers; what waits for them stays.
Reconnecting ==
    /\ Elsewhere
    /\ session /\ (ready \/ asked # {})
    /\ ready' = FALSE /\ asked' = {}
    /\ UNCHANGED <<window, peerNow, session, saved, aliases, joined, members, banType, nextRef,
                   kickbans, done>>
\* A refused join ends the session for good; the sign-in stays.
JoinRefused ==
    /\ Elsewhere
    /\ session
    /\ session' = FALSE /\ ready' = FALSE /\ asked' = {}
    /\ UNCHANGED <<window, peerNow, saved, aliases, joined, members, banType, nextRef, kickbans, done>>
ChannelChanges(c) ==
    /\ Elsewhere
    /\ joined' = IF c \in joined THEN joined \ {c} ELSE joined \cup {c}
    /\ UNCHANGED <<window, ready, peerNow, session, saved, aliases, members, banVars>>
MemberChanges(c, n) ==
    /\ Elsewhere
    /\ members' = [members EXCEPT ![c] = IF n \in @ THEN @ \ {n} ELSE @ \cup {n}]
    /\ UNCHANGED <<window, ready, peerNow, session, saved, aliases, joined, banVars>>
\* note_peer_nick_change: a new spelling alone starts no link, and a nick with a
\* window or a link of its own is somebody else's.
PeerRenamed(n, m) ==
    /\ Elsewhere
    /\ n \in Peer /\ peerNow[n] # m /\ (peerNow[n] # n \/ ~nick_eq(n, m))
    /\ \A o \in Peer \ {n} : ~nick_eq(o, m) /\ ~nick_eq(peerNow[o], m)
    /\ peerNow' = [peerNow EXCEPT ![n] = m]
    /\ UNCHANGED <<window, ready, session, saved, aliases, joined, members, banVars>>

Init ==
    /\ window \in {NoWindow} \cup [kind : {"channel"}, of : Channel]
    /\ ready = FALSE /\ session = TRUE
    /\ peerNow = [n \in Nick |-> n]
    /\ saved \in AliasLists /\ aliases = <<>>
    /\ joined = Channel /\ members = [c \in Channel |-> Nick]
    /\ banType \in {None, "host"} /\ nextRef = 1 /\ kickbans = <<>> /\ asked = {} /\ done = <<>>
    /\ console = NoConsole /\ posting = NoPost /\ draft = "" /\ rows = 0
    /\ last = NoLine /\ events = 0

Next ==
    \/ \E t \in Typed, fetched \in IF aliases = <<>> THEN BOOLEAN ELSE {TRUE}, ok \in BOOLEAN :
          SendMessage(t, fetched, ok)
    \/ \E t \in {"a", "b"} : TypeDraft(t)
    \/ ServiceConsoleSend \/ \E ok \in BOOLEAN : ServiceConsoleSent(ok)
    \/ ServiceConsoleClose \/ \E id \in 1 .. MaxId : ServiceNotice(id)
    \/ \E w \in Window : SelectWindow(w)
    \/ QueryReady
    \/ \E n \in Peer, heard \in BOOLEAN : MemberBanHost(n, heard)
    \/ \E form \in Form : BanTypeSave(form)
    \/ \E r \in asked, identity \in Identity : ResolveReply(r, identity)
    \/ Reconnecting \/ JoinRefused
    \/ \E c \in Channel : ChannelChanges(c) \/ \E n \in Peer : MemberChanges(c, n)
    \/ \E n, m \in Nick : PeerRenamed(n, m)
Spec == Init /\ [][Next]_vars

-----------------------------------------------------------------------------
Refs == 1 .. MaxEvents + 1
Request == [id : 0 .. MaxEvents, channel : Channel, nick : Nick, kick : BOOLEAN, form : Form]
TypeOK ==
    /\ window \in Window /\ ready \in BOOLEAN /\ peerNow \in [Nick -> Nick]
    /\ session \in BOOLEAN /\ saved \in AliasLists /\ (aliases = <<>> \/ aliases[1] \in AliasLists)
    /\ joined \subseteq Channel /\ members \in [Channel -> SUBSET Nick]
    /\ banType \in Form \cup {None} /\ nextRef \in Refs /\ asked \subseteq DOMAIN kickbans
    /\ DOMAIN kickbans \subseteq Refs /\ Range(kickbans) \subseteq Request
    /\ console.open \in BOOLEAN /\ rows \in 0 .. MaxId /\ draft \in {"", "a", "b"}
    /\ last.line \in Line
    /\ last.out \subseteq [lane : {"plain", "sealed", "verb", "rest"}, verb : STRING,
                          to : Arg]

(* A line typed in a locked window that is chat for its peer - text, "//",   *)
(* /me, /np, or a CTCP ACTION to that nick in any spelling, also when an     *)
(* alias made it so - is only ever given to the E2E engine.                  *)
ChatFor(l, peer) ==
    l.verb \in {"text", "say", "me", "np"} \/ (l.verb = "ctcp_action" /\ nick_eq(l.arg, peer))
LockedStaysSealed ==
    last.locked # None /\ ChatFor(last.line, last.locked) =>
        last.out = {Req("sealed", last.line.verb, last.locked)}

(* A line is refused as too deep exactly when more than MAX_ALIAS_DEPTH      *)
(* aliases of the account follow one another from its verb, a cycle          *)
(* included; any other line is run with no alias left in it.                 *)
DeepChain(v) ==
    \E p \in [0 .. MAX_ALIAS_DEPTH -> Name \cup {"onotice"}] :
        /\ p[0] = v
        /\ \A i \in 0 .. MAX_ALIAS_DEPTH :
              /\ Expandable(saved, p[i])
              /\ i < MAX_ALIAS_DEPTH => TemplateOf(saved, p[i]).verb = p[i + 1]
AliasesEnd ==
    \A v \in Name, target \in Channel :
        LET r == expand_aliases(saved, [verb |-> v, arg |-> None], target)
        IN  /\ (r = TooDeep) = DeepChain(v)
            /\ ~Expandable(saved, r.verb)

(* A request to ban is carried out at most once, in the form that was the    *)
(* account's when it was made, and the kick goes out only after its ban.     *)
BanFailsClosed ==
    /\ \A i \in 1 .. Len(done) : done[i].what = "ban" => done[i].mask = done[i].form
    /\ \A i, j \in 1 .. Len(done) : i # j /\ done[i].id = done[j].id => done[i].what # done[j].what
    /\ \A i \in 1 .. Len(done) : done[i].what = "kick" =>
          \E j \in 1 .. i - 1 : done[j].id = done[i].id /\ done[j].what = "ban"

(* The console shows each answer of its service once, and none that the      *)
(* transcript had when it was opened.                                        *)
ConsoleShowsOnce ==
    /\ \A i \in 1 .. Len(console.lines) : console.lines[i] > console.since
    /\ Cardinality(Range(console.lines)) = Len(console.lines)

(* What a line may do: chat of a locked window is sealed, aliases end, a ban  *)
(* fails closed and the console shows an answer once, with the types.         *)
ComposeSound == TypeOK /\ LockedStaysSealed /\ AliasesEnd /\ BanFailsClosed /\ ConsoleShowsOnce

(* A CTCP ACTION to the peer of a locked window goes out encrypted, also     *)
(* when $C of an alias named the peer (the comment in handle_send_message).  *)
ActionToPeerSealed ==
    last.locked # None /\ last.line.verb = "ctcp_action"
        /\ last.line.arg \in {last.locked, peerNow[last.locked]} =>
        \A r \in last.out : r.lane = "sealed"

============================================================================
