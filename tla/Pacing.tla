------------------------------- MODULE Pacing -------------------------------
(***************************************************************************)
(* The pacing rules of e2e_pacing.rs over several nicks: KEYREQs and the   *)
(* reassembly that holds them back, and one-time keys with their hourly    *)
(* limit.  The queue and the book of the same file are in SendQueue.       *)
(*                                                                         *)
(* Nicks are folded with the case mapping of the network, which the server *)
(* may change: Same gives the nicks that are one under each mapping.  The  *)
(* clock is monotonic.                                                     *)
(***************************************************************************)
EXTENDS Naturals, Sequences, FiniteSets

CONSTANTS
    Nick, Msg, None,
    Mapping, Same,                              \* Same[mapping] : nick -> the folded nick
    KEYREQ_INTERVAL, REASSEMBLY_TIMEOUT,
    ONE_TIME_KEY_INTERVAL, ONE_TIME_KEY_GLOBAL_LIMIT, ONE_TIME_KEY_WINDOW,
    MaxTime, MaxEvents

VARIABLES
    part, now, casemapping,
    keyed,          \* the mapping of the keys that a limiter holds
    last,           \* IntervalLimiter: the last event of a folded nick
    fragment,       \* ReassemblyGate: the last fragment of each message of a folded nick
    window,         \* WindowLimiter: the one-time keys taken, oldest first
    events,
    taken,          \* history: [nick, at] of each event let through, under this mapping
    arrived,        \* history: when each fragment of a message came
    global,         \* history: when each one-time key was taken
    wrong           \* history: what a step did that it may not

limits == <<keyed, last, fragment, window, taken, arrived, global>>
vars == <<part, now, casemapping, limits, events, wrong>>

Fold(n) == Same[casemapping][n]

Init ==
    /\ part \in {"keyreq", "onetime"}
    /\ now = 0 /\ casemapping \in Mapping /\ keyed = None
    /\ last = <<>> /\ fragment = <<>> /\ window = <<>>
    /\ events = 0 /\ taken = {} /\ arrived = {} /\ global = <<>> /\ wrong = {}

TypeOK ==
    /\ now \in 0..MaxTime /\ keyed \in Mapping \union {None}
    /\ DOMAIN last \subseteq Nick /\ DOMAIN fragment \subseteq Nick \X Msg
    /\ Len(window) <= ONE_TIME_KEY_GLOBAL_LIMIT

-----------------------------------------------------------------------------
Event == events < MaxEvents /\ events' = events + 1
Put(f, k, v) == [x \in DOMAIN f \union {k} |-> IF x = k THEN v ELSE f[x]]
Keep(f, ks) == [x \in DOMAIN f \intersect ks |-> f[x]]

Tick == now < MaxTime /\ now' = now + 1 /\ UNCHANGED <<part, casemapping, limits, events, wrong>>

\* The server announces another mapping; the limiters learn of it at their next call.
CaseMappingChanges ==
    /\ Event /\ casemapping' \in Mapping \ {casemapping}
    /\ UNCHANGED <<part, now, limits, wrong>>

\* sync_casemapping: keys of another mapping cannot be folded again.
Last == IF keyed = casemapping THEN last ELSE <<>>
Fragments == IF keyed = casemapping THEN fragment ELSE <<>>
Taken == IF keyed = casemapping THEN taken ELSE {}
Arrived == IF keyed = casemapping THEN arrived ELSE {}
Sync == keyed' = casemapping

\* A mutant: the end of the interval is one tick early.
FreeEarly(n, interval) == Fold(n) \in DOMAIN Last => now - Last[Fold(n)] + 1 >= interval

\* IntervalLimiter: one event in each interval, its exact end allowed.
Free(n, interval) == Fold(n) \in DOMAIN Last => now - Last[Fold(n)] >= interval

-----------------------------------------------------------------------------
(* KeyReqPacer *)

\* A mutant: the first fragment's time counts.
NotedFirst(n, m) ==
    IF <<Fold(n), m>> \in DOMAIN Fragments THEN Fragments ELSE Put(Fragments, <<Fold(n), m>>, now)

\* ReassemblyGate::note_fragment: the timer of this message restarts, old ones go.
Noted(n, m) ==
    Put(Keep(Fragments, {k \in DOMAIN Fragments : k[1] # Fold(n) \/ now - Fragments[k] < REASSEMBLY_TIMEOUT}),
        <<Fold(n), m>>, now)

NoteFragment(n, m) ==
    /\ part = "keyreq" /\ Event /\ Sync /\ fragment' = Noted(n, m)
    /\ last' = Last /\ taken' = Taken /\ arrived' = Arrived \union {[nick |-> n, msg |-> m, at |-> now]}
    /\ UNCHANGED <<part, now, casemapping, window, global, wrong>>

Finish(n, m) ==
    /\ part = "keyreq" /\ Event /\ Sync
    /\ fragment' = Keep(Fragments, DOMAIN Fragments \ {<<Fold(n), m>>})
    /\ last' = Last /\ taken' = Taken /\ arrived' = {a \in Arrived : Fold(a.nick) # Fold(n) \/ a.msg # m}
    /\ UNCHANGED <<part, now, casemapping, window, global, wrong>>

\* A 401 of the nick clears its interval and its reassemblies.
Forget(n) ==
    /\ part = "keyreq" /\ Event /\ Sync
    /\ last' = Keep(Last, DOMAIN Last \ {Fold(n)})
    /\ fragment' = Keep(Fragments, {k \in DOMAIN Fragments : k[1] # Fold(n)})
    /\ taken' = {t \in Taken : Fold(t.nick) # Fold(n)}
    /\ arrived' = {a \in Arrived : Fold(a.nick) # Fold(n)}
    /\ UNCHANGED <<part, now, casemapping, window, global, wrong>>

IsActive(n) == \E k \in DOMAIN Fragments : k[1] = Fold(n) /\ now - Fragments[k] < REASSEMBLY_TIMEOUT

\* Whether an answer of the nick is coming in, from the fragments themselves.
Reassembling(n) == \E a \in Arrived : Fold(a.nick) = Fold(n) /\ now - a.at < REASSEMBLY_TIMEOUT

\* KeyReqPacer::try_send: a refusal uses no interval.
TrySend(n) ==
    LET go == ~IsActive(n) /\ Free(n, KEYREQ_INTERVAL) IN
    /\ part = "keyreq" /\ Event /\ Sync /\ fragment' = Fragments /\ arrived' = Arrived
    /\ last' = (IF go THEN Put(Last, Fold(n), now) ELSE Last)
    /\ taken' = (IF go THEN Taken \union {[nick |-> n, at |-> now]} ELSE Taken)
    /\ wrong' = (IF go /\ Reassembling(n) THEN wrong \union {"reassembling"} ELSE wrong)
    /\ UNCHANGED <<part, now, casemapping, window, global>>

-----------------------------------------------------------------------------
(* OneTimeKeyPacer *)

\* WindowLimiter::is_ready drops what left the window.
Window == SelectSeq(window, LAMBDA t : now - t < ONE_TIME_KEY_WINDOW)
IsReady == Len(Window) < ONE_TIME_KEY_GLOBAL_LIMIT

\* A mutant: the nick's interval starts before the global limit is asked.
LastAfterFirst(n) == IF Free(n, ONE_TIME_KEY_INTERVAL) THEN Put(Last, Fold(n), now) ELSE Last

\* choose asks the global limit first: a refused request uses neither.
LastAfter(n) == IF IsReady /\ Free(n, ONE_TIME_KEY_INTERVAL) THEN Put(Last, Fold(n), now) ELSE Last

\* What the last minute and the last hour allow, from the keys really taken.
Allowed(n) ==
    /\ \A t \in Taken : Fold(t.nick) = Fold(n) => now - t.at >= ONE_TIME_KEY_INTERVAL
    /\ Len(SelectSeq(global, LAMBDA t : now - t < ONE_TIME_KEY_WINDOW)) < ONE_TIME_KEY_GLOBAL_LIMIT

Choose(n) ==
    LET oneTime == IsReady /\ Free(n, ONE_TIME_KEY_INTERVAL) IN
    /\ part = "onetime" /\ Event /\ Sync /\ fragment' = Fragments
    /\ last' = LastAfter(n) /\ arrived' = Arrived
    /\ window' = (IF oneTime THEN Append(Window, now) ELSE Window)
    /\ taken' = (IF oneTime THEN Taken \union {[nick |-> n, at |-> now]} ELSE Taken)
    /\ global' = (IF oneTime THEN Append(global, now) ELSE global)
    /\ wrong' = (IF Allowed(n) # oneTime THEN wrong \union {"choice"} ELSE wrong)
    /\ UNCHANGED <<part, now, casemapping>>

-----------------------------------------------------------------------------
Next ==
    \/ Tick \/ CaseMappingChanges
    \/ \E n \in Nick : Choose(n) \/ TrySend(n) \/ Forget(n)
    \/ \E n \in Nick, m \in Msg : NoteFragment(n, m) \/ Finish(n, m)

Spec == Init /\ [][Next]_vars

-----------------------------------------------------------------------------
(* Properties *)

\* A nick, by whatever of its spellings, is asked once in an interval, and
\* never while a KEYS answer of it is coming in: its own fragments hold it
\* back, each message by its last one, and no other nick's do.
KeyReqPaced ==
    part = "keyreq" /\ keyed = casemapping =>
        \A s, t \in taken : s # t /\ Fold(s.nick) = Fold(t.nick) =>
            s.at >= t.at + KEYREQ_INTERVAL \/ t.at >= s.at + KEYREQ_INTERVAL

\* The choice is what the keys really taken leave: a one-time key exactly when
\* the nick had none in its interval and the window has room.  A refused
\* request used up neither limit.
ChoiceIsExact == "choice" \notin wrong

\* No window of the clock holds more one-time keys than the limit.
OneTimeBounded ==
    \A t \in 0..MaxTime :
        Cardinality({i \in DOMAIN global : global[i] >= t /\ global[i] < t + ONE_TIME_KEY_WINDOW})
            <= ONE_TIME_KEY_GLOBAL_LIMIT

\* A KEYREQ went out while a reassembly was running.
NotWhileReassembling == "reassembling" \notin wrong

\* The limits of the requests and of the keys that are handed out, together.
PacingSound == KeyReqPaced /\ ChoiceIsExact /\ OneTimeBounded /\ NotWhileReassembling
=============================================================================
