------------------------------- MODULE MCPages -------------------------------
(****************************************************************************)
(* One run over the pages and tools of the desktop: the pairing of a device *)
(* from the encryption page, the security and administration pages, the     *)
(* radio and the files on disk. The parts are specified by themselves and   *)
(* share no state here, so a behaviour belongs to one part: the first keeps *)
(* its variables, and the others use the variables x1, x2, ... one after    *)
(* the other.                                                               *)
(****************************************************************************)
EXTENDS Pairing

CONSTANTS x, y, bad, none
VARIABLES
    part,   \* the part of this behaviour, which never changes
    x1, x2, x3, x4, x5, x6, x7, x8, x9, x10, x11, x12, x13, x14, x15, x16, x17, x18, x19, x20,
    x21, x22

AtRest == Init

Rad == INSTANCE Radio WITH
    Station <- {"r"}, FedStation <- {"r"}, Upload <- {"u"}, None <- none, BYTE_CHUNKS <- 1,
    SAMPLE_BLOCKS <- 1, MaxTunes <- 2, MaxReports <- 1, generation <- x1, tuned <- x2,
    poll <- x3, nowPlaying <- x4, commands <- x5, device <- x6, current <- x7, stream <- x8,
    inbox <- x9, reports <- x10

Sec == INSTANCE Security WITH
    Account <- {x, y}, None <- none, MaxMade <- 2, MaxKeys <- 2, MaxClicks <- 3, MaxQueue <- 1,
    MaxTasks <- 2, MaxFaults <- 1, srv <- x1, made <- x2, session <- x3, queue <- x4,
    worker <- x5, page <- x6, tasks <- x7, faults <- x8, clicks <- x9, seen <- x10,
    unsure <- x11, kept <- x12

Adm == INSTANCE Admin WITH
    Server <- {"s1", "s2"}, None <- none, Network <- {x, y}, Section <- {"networks"},
    Upload <- {"u"}, MaxClicks <- 3, MaxVersion <- 1, MaxEvents <- 1, session <- x1, ver <- x2,
    gone <- x3, uploads <- x4, mode <- x5, todo <- x6, clicks <- x7, shown <- x8, failed <- x9,
    status <- x10, editor <- x11, servers <- x12, featured <- x13, confirm <- x14, form <- x15,
    registry <- x16, settings <- x17, armed <- x18, events <- x19, feed <- x20, counted <- x21,
    written <- x22

Fil == INSTANCE Files WITH
    File <- {x, y}, None <- none, Bad <- bad, MaxEvents <- 3, LogMax <- 1, LogCheckEvery <- 1,
    part <- x1, disk <- x2, oldDir <- x3, phase <- x4, use <- x5, legacy <- x6, left <- x7,
    made <- x8, checked <- x9, th <- x10, keyring <- x11, fallback <- x12, avail <- x13,
    log <- x14, prev <- x15, writes <- x16, events <- x17, saved <- x18, damaged <- x19,
    bearer <- x20, excuse <- x21

\* The slots from the k-th on: empty, and as a tuple.
Empty22 == x22 = 0
from22 == <<x22>>
Empty13 ==
    x13 = 0 /\ x14 = 0 /\ x15 = 0 /\ x16 = 0 /\ x17 = 0 /\ x18 = 0 /\ x19 = 0 /\ x20 = 0 /\
    x21 = 0 /\ Empty22
from13 == <<x13, x14, x15, x16, x17, x18, x19, x20, x21, from22>>
Empty11 == x11 = 0 /\ x12 = 0 /\ Empty13
from11 == <<x11, x12, from13>>
Empty1 ==
    x1 = 0 /\ x2 = 0 /\ x3 = 0 /\ x4 = 0 /\ x5 = 0 /\ x6 = 0 /\ x7 = 0 /\ x8 = 0 /\ x9 = 0 /\
    x10 = 0 /\ Empty11
from1 == <<x1, x2, x3, x4, x5, x6, x7, x8, x9, x10, from11>>

MCInit ==
    \/ part = "pairing" /\ Init /\ Empty1
    \/ part = "radio" /\ Rad!Init /\ AtRest /\ Empty11
    \/ part = "security" /\ Sec!Init /\ AtRest /\ Empty13
    \/ part = "admin" /\ Adm!Init /\ AtRest
    \/ part = "files" /\ Fil!Init /\ AtRest /\ Empty22
MCNext ==
    \/ part = "pairing" /\ Next /\ UNCHANGED <<part, from1>>
    \/ part = "radio" /\ Rad!Next /\ UNCHANGED <<part, vars, from11>>
    \/ part = "security" /\ Sec!Next /\ UNCHANGED <<part, vars, from13>>
    \/ part = "admin" /\ Adm!Next /\ UNCHANGED <<part, vars>>
    \/ part = "files" /\ Fil!Next /\ UNCHANGED <<part, vars, from22>>
MCSpec == MCInit /\ [][MCNext]_<<part, vars, from1>>

\* What is heard and shown is of the station that is tuned, and a stream that was
\* left comes to its end (Radio).
RadioSound == part = "radio" => Rad!RadioSound

\* What is armed was shown, and a page that is read agrees with the server
\* (Security).
SecuritySound == part = "security" => Sec!TypeOK /\ Sec!ArmedWasShown /\ Sec!PageAgrees

\* A deletion was counted for the user first, and a write that went through is
\* shown (Admin).
AdminSound == part = "admin" => Adm!TypeOK /\ Adm!DeleteWasCounted /\ Adm!WriteIsShown

\* A stop at any write leaves the last saved file, a damaged file is set aside,
\* the bearer is the last one and the log is bounded (Files).
FilesSound ==
    part = "files" =>
        Fil!TypeOK /\ Fil!ResumesLast /\ Fil!DamagedKept /\ Fil!BearerIsLast /\ Fil!LogBounded
==============================================================================
