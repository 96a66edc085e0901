---------------------------- MODULE MCTranscript -----------------------------
(****************************************************************************)
(* One run over what the chat windows show: the rows of a channel, the      *)
(* queries, the replies of the server and the tree of /links. The parts are *)
(* specified by themselves and share no state here, so a behaviour belongs  *)
(* to one part: the first keeps its variables, and the others use the       *)
(* variables x1, x2, ... one after the other.                               *)
(****************************************************************************)
EXTENDS Transcript

CONSTANTS Pair, nobody
VARIABLES
    part,   \* the part of this behaviour, which never changes
    x1, x2, x3, x4, x5, x6, x7, x8, x9, x10, x11, x12, x13, x14, x15, x16, x17, x18, x19, x20,
    x21, x22, x23, x24

AtRest == Init

Que == INSTANCE Queries WITH
    Nick <- Pair, Me <- "me", None <- nobody, MaxRows <- 2, TailPage <- 2, AfterPage <- 1,
    MaxPending <- 1, MaxMoves <- 2, MaxWire <- 1, stored <- x1, srvOpen <- x2, srvOwn <- x3,
    told <- x4, link <- x5, subs <- x6, joins <- x7, wire <- x8, moves <- x9, windows <- x10,
    stale <- x11, qjoined <- x12, ready <- x13, full <- x14, topics <- x15, own <- x16,
    listening <- x17, pending <- x18, held <- x19, current <- x20, focus <- x21, task <- x22,
    excused <- x23, forgotten <- x24

Rep == INSTANCE Replies WITH
    Nick <- Pair, None <- nobody, MaxPushes <- 2, MaxWire <- 1, MaxTasks <- 2, MaxRow <- 4,
    Around <- 0, up <- x1, wire <- x2, pushes <- x3, view <- x4, card <- x5, picture <- x6,
    tasks <- x7, requested <- x8, bundle <- x9, last <- x10, rows <- x11, asked <- x12,
    shown <- x13, rebuilt <- x14

Lin == INSTANCE Links WITH
    Servers <- 4, MaxEntries <- 3, MaxHops <- 1, entries <- x1

\* The slots from the k-th on: empty, and as a tuple.
Empty15 ==
    x15 = 0 /\ x16 = 0 /\ x17 = 0 /\ x18 = 0 /\ x19 = 0 /\ x20 = 0 /\ x21 = 0 /\ x22 = 0 /\
    x23 = 0 /\ x24 = 0
from15 == <<x15, x16, x17, x18, x19, x20, x21, x22, x23, x24>>
Empty2 ==
    x2 = 0 /\ x3 = 0 /\ x4 = 0 /\ x5 = 0 /\ x6 = 0 /\ x7 = 0 /\ x8 = 0 /\ x9 = 0 /\ x10 = 0 /\
    x11 = 0 /\ x12 = 0 /\ x13 = 0 /\ x14 = 0 /\ Empty15
from2 == <<x2, x3, x4, x5, x6, x7, x8, x9, x10, x11, x12, x13, x14, from15>>
Empty1 == x1 = 0 /\ Empty2
from1 == <<x1, from2>>

MCInit ==
    \/ part = "rows" /\ Init /\ Empty1
    \/ part = "queries" /\ Que!Init /\ AtRest
    \/ part = "replies" /\ Rep!Init /\ AtRest /\ Empty15
    \/ part = "links" /\ Lin!Init /\ AtRest /\ Empty2
MCNext ==
    \/ part = "rows" /\ Next /\ UNCHANGED <<part, from1>>
    \/ part = "queries" /\ Que!Next /\ UNCHANGED <<part, vars>>
    \/ part = "replies" /\ Rep!Next /\ UNCHANGED <<part, vars, from15>>
    \/ part = "links" /\ Lin!Next /\ UNCHANGED <<part, vars, from2>>
MCSpec == MCInit /\ [][MCNext]_<<part, vars, from1>>

\* A query that lets the user write has its listener and its tail (Queries).
QueriesSound == part = "queries" => Que!TypeOK /\ Que!ReadyIsLive

\* Only an asked summary is shown, and the first jump leaves no hole (Replies).
RepliesSound ==
    part = "replies" => Rep!TypeOK /\ Rep!LusersOnlyAsked /\ Rep!FirstJumpLeavesNoHole

\* The tree of /links shows every server once (Links).
LinksSound == part = "links" => Lin!TypeOK /\ Lin!EveryServerShown
==============================================================================
