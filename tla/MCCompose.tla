------------------------------ MODULE MCCompose ------------------------------
(****************************************************************************)
(* One run over what the user types and sets: the compose line with its     *)
(* aliases, the settings and panels of the account, and the limits of the   *)
(* encrypted requests that a line or a peer causes. The parts are specified *)
(* by themselves and share no state here, so a behaviour belongs to one     *)
(* part: the first keeps its variables, and the others use the variables    *)
(* x1, x2, ... one after the other.                                         *)
(****************************************************************************)
EXTENDS Compose

CONSTANTS p, P, q, other, room, x, y
VARIABLES
    part,   \* the part of this behaviour, which never changes
    x1, x2, x3, x4, x5, x6, x7, x8, x9, x10, x11, x12

AtRest == Init /\ window = NoWindow /\ saved = NoAliases /\ banType = None

\* The compose line.  p and P are one nick under the network's case mapping (a
\* bracket and a brace), and two for a comparison of ASCII letters.
FoldNick == [n \in Nick |-> IF n = P THEN p ELSE n]
FoldAscii == [n \in Nick |-> n]
T(v, place) == [verb |-> v, place |-> place]
SomeTemplates == {T("y", "none"), T("kb", "$*")}
M(a, b, me) == [n \in {"x", "y", "me"} |-> IF n = "x" THEN a ELSE IF n = "y" THEN b ELSE me]
\* No alias; an action by way of two; $C; a hidden command; a chain that is
\* too long and a cycle.
SomeLists ==
    {M(NoAlias, NoAlias, NoAlias), M(T("y", "none"), T("me", "none"), NoAlias),
     M(T("ctcp_action", "$C"), NoAlias, NoAlias), M(T("kb", "$*"), NoAlias, T("amsg", "$2")),
     M(T("y", "none"), T("me", "none"), T("np", "none")),
     M(T("y", "none"), T("x", "none"), NoAlias), M(T("y", "none"), NoAlias, NoAlias)}
L(v, a) == [verb |-> v, arg |-> a]
SomeLines ==
    {L(v, None) : v \in {"text", "say", "np", "me", "x", "", "cs", "quit", "alias", "unalias", "query",
                         "amsg", "w", "links", "cycle", "onotice"}}
    \cup {L("x", p), L("ctcp_action", P), L("msg", p), L("kb", p), L("kb", None), L("part", room)}

\* The limits.  p and q differ only by a bracket and a brace, which rfc1459 folds.
SameNick ==
    [m \in {"ascii", "rfc1459"} |->
        [n \in {p, q, other} |-> IF n = q /\ m = "rfc1459" THEN p ELSE n]]

Stt == INSTANCE Settings WITH
    Network <- {x, y}, Mask <- {"x"}, Alias <- {"s", "t"}, Channel <- {"c", "d"}, MaxEvents <- 3,
    tab <- x1, srv <- x2, st <- x3, page <- x4, file <- x5, todo <- x6, events <- x7,
    foreign <- x8, kept <- x9, touched <- x10, other <- x11

Pan == INSTANCE Panels WITH
    Network <- {x, y}, Target <- {"t"}, Offer <- {"o", "p"}, Nick <- {x, y}, MaxEvents <- 3,
    part <- x1, srv <- x2, st <- x3, wire <- x4, up <- x5, events <- x6, missed <- x7,
    stale <- x8, refused <- x9

Pac == INSTANCE Pacing WITH
    Nick <- {p, q, other}, Msg <- {"m1", "m2"}, Mapping <- {"ascii", "rfc1459"}, Same <- SameNick,
    KEYREQ_INTERVAL <- 2, REASSEMBLY_TIMEOUT <- 2, ONE_TIME_KEY_INTERVAL <- 2,
    ONE_TIME_KEY_GLOBAL_LIMIT <- 2, ONE_TIME_KEY_WINDOW <- 3, MaxTime <- 3, MaxEvents <- 4,
    part <- x1, now <- x2, casemapping <- x3, keyed <- x4, last <- x5, fragment <- x6,
    window <- x7, events <- x8, taken <- x9, arrived <- x10, global <- x11, wrong <- x12

\* The slots from the k-th on: empty, and as a tuple.
Empty12 == x12 = 0
Empty11 == x11 = 0 /\ Empty12
from11 == <<x11, x12>>
Empty10 == x10 = 0 /\ Empty11
from10 == <<x10, from11>>
Empty1 ==
    x1 = 0 /\ x2 = 0 /\ x3 = 0 /\ x4 = 0 /\ x5 = 0 /\ x6 = 0 /\ x7 = 0 /\ x8 = 0 /\ x9 = 0 /\
    Empty10
from1 == <<x1, x2, x3, x4, x5, x6, x7, x8, x9, from10>>

MCInit ==
    \/ part = "compose" /\ Init /\ Empty1
    \/ part = "settings" /\ Stt!Init /\ AtRest /\ Empty12
    \/ part = "panels" /\ Pan!Init /\ AtRest /\ Empty10
    \/ part = "pacing" /\ Pac!Init /\ AtRest
MCNext ==
    \/ part = "compose" /\ Next /\ UNCHANGED <<part, from1>>
    \/ part = "settings" /\ Stt!Next /\ UNCHANGED <<part, vars, x12>>
    \/ part = "panels" /\ Pan!Next /\ UNCHANGED <<part, vars, from10>>
    \/ part = "pacing" /\ Pac!Next /\ UNCHANGED <<part, vars>>
MCSpec == MCInit /\ [][MCNext]_<<part, vars, from1>>

\* A choice, the list of a network and the aliases are kept (Settings).
SettingsSound ==
    part = "settings" => Stt!TypeOK /\ Stt!ChoiceKept /\ Stt!ListOfNetwork /\ Stt!AliasesKept

\* A panel that was read shows what the server holds (Panels).
PanelsSound == part = "panels" => Pan!TypeOK /\ Pan!PanelsCurrent /\ Pan!PanelsSound

\* The limits of keys and requests hold (Pacing).
PacingSound == part = "pacing" => Pac!TypeOK /\ Pac!PacingSound
==============================================================================
