------------------------------ MODULE MCWindows ------------------------------
(****************************************************************************)
(* One run over the windows of the desktop: the sidebar, the encrypted      *)
(* chats with their requests, the sign-in before them and the uploads into  *)
(* them. The parts are specified by themselves and share no state here, so  *)
(* a behaviour belongs to one part: the first keeps its variables, and the  *)
(* others use the variables x1, x2, ... one after the other.                *)
(****************************************************************************)
EXTENDS Windows

CONSTANTS x, y, nobody
VARIABLES
    part,   \* the part of this behaviour, which never changes
    x1, x2, x3, x4, x5, x6, x7, x8, x9, x10, x11, x12, x13, x14, x15, x16, x17, x18

MCNetOf == [a |-> "n1", b |-> "n2"]
AtRest == Init /\ sv = [c \in Channel |-> "out"]

Loc == INSTANCE LockedChat WITH
    MaxId <- 2, MaxClicks <- 2, MaxWire <- 2, MaxFaults <- 1, srv <- x1, made <- x2,
    message <- x3, up <- x4, wire <- x5, queue <- x6, clicks <- x7, faults <- x8, engine <- x9,
    requests <- x10, activated <- x11, locked <- x12, keys <- x13, ready <- x14, incoming <- x15,
    consented <- x16, unsure <- x17, renewed <- x18

Sig == INSTANCE SignIn WITH
    Account <- {x, y}, TwoFactor <- {y}, Guest <- "guest", None <- nobody, MaxTokens <- 3,
    MaxFaults <- 2, issued <- x1, password <- x2, faults <- x3, profile <- x4, secret <- x5,
    keyring <- x6, guest <- x7, selected <- x8, auto <- x9, screen <- x10, connecting <- x11,
    job <- x12, pending <- x13, session <- x14, rejected <- x15

Upl == INSTANCE Uploads WITH
    MaxJobs <- 2, MaxSessions <- 2, MaxFiles <- 2, MaxUi <- 2, Window <- {"chan"},
    MAX_ACTIVE_UPLOADS <- 1, MAX_QUEUED_UPLOADS <- 2, session <- x1, sessions <- x2, ended <- x3,
    window <- x4, popup <- x5, commands <- x6, picked <- x7, jobs <- x8, slots <- x9,
    queue <- x10, reads <- x11, active <- x12, dismissed <- x13, pushes <- x14, status <- x15,
    posted <- x16

\* The slots from the k-th on: empty, and as a tuple.
Empty17 == x17 = 0 /\ x18 = 0
from17 == <<x17, x18>>
Empty16 == x16 = 0 /\ Empty17
from16 == <<x16, from17>>
Empty1 ==
    x1 = 0 /\ x2 = 0 /\ x3 = 0 /\ x4 = 0 /\ x5 = 0 /\ x6 = 0 /\ x7 = 0 /\ x8 = 0 /\ x9 = 0 /\
    x10 = 0 /\ x11 = 0 /\ x12 = 0 /\ x13 = 0 /\ x14 = 0 /\ x15 = 0 /\ Empty16
from1 == <<x1, x2, x3, x4, x5, x6, x7, x8, x9, x10, x11, x12, x13, x14, x15, from16>>

MCInit ==
    \/ part = "sidebar" /\ Init /\ Empty1
    \/ part = "locked" /\ Loc!Init /\ AtRest
    \/ part = "sign-in" /\ Sig!Init /\ AtRest /\ Empty16
    \/ part = "uploads" /\ Upl!Init /\ AtRest /\ Empty17
MCNext ==
    \/ part = "sidebar" /\ Next /\ UNCHANGED <<part, from1>>
    \/ part = "locked" /\ Loc!Next /\ UNCHANGED <<part, vars>>
    \/ part = "sign-in" /\ Sig!Next /\ UNCHANGED <<part, vars, from16>>
    \/ part = "uploads" /\ Upl!Next /\ UNCHANGED <<part, vars, from17>>
MCSpec == MCInit /\ [][MCNext]_<<part, vars, from1>>

\* An encrypted chat starts only with the user, the requests mirror those of the
\* server, and a progress row ends (LockedChat).
LockedChatSound ==
    part = "locked" =>
        Loc!TypeOK /\ Loc!ChatStartsWithUser /\ Loc!MirrorAgrees /\ Loc!ProgressEnds

\* One sign-in never finishes as another, no rejected bearer is kept, and the
\* connect screen never waits for nothing (SignIn).
SignInSound == part = "sign-in" => Sig!SignInSound

\* A link is posted in its session, no permit is lost, the notice is of a live
\* job (Uploads).
UploadsSound == part = "uploads" => Upl!TypeOK /\ Upl!UploadsSound
==============================================================================
