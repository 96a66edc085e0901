------------------------------- MODULE Pairing -------------------------------
(***************************************************************************)
(* The pairing of a new device: the holder of the master key and the       *)
(* joiner, each with the state machine of e2e_pairing_flow.rs and the      *)
(* worker steps around it (e2e_runtime.rs), the rendezvous of the relay    *)
(* between them, and the offer that the server pushes to the joiner.       *)
(*                                                                         *)
(* The channel of a rendezvous has one check code, which both users type.  *)
(* Each message answers the one before it, so a fetch finds at most one    *)
(* message of the other side behind the last sequence.  A session that is  *)
(* done or ended leaves the worker in the same step.                       *)
(***************************************************************************)
EXTENDS Naturals, Sequences, SequencesExt, FiniteSets

CONSTANTS
    Net,            \* the networks of the account, numbers in name order
    HolderNet,      \* the networks whose master key the holder has
    ListMax,        \* MAX_ENROLLED_DEVICES
    SeenMax,        \* SEEN_OFFERS_MAX
    MaxRdv,         \* bound: rendezvous that are opened
    MaxFaults,      \* bound: failed calls and writes
    MaxRestarts     \* bound: stops, reconnects and lists of another holder

\* Networks are numbers, of which every set has a first one, and the memory of
\* seen offers has room for one.
ASSUME PairingConstants ==
    /\ Net \subseteq Nat /\ HolderNet \subseteq Net
    /\ \A S \in SUBSET Net : S # {} => \E n \in S : \A m \in S : n <= m
    /\ MaxRdv \in Nat /\ SeenMax \in Nat \ {0}

VARIABLES
    rdv,        \* the relay: every rendezvous, with its log of messages
    act,        \* E2eRuntime.pairing of a device, or None
    slot,       \* the pairing slot of each sealed store: a rendezvous, or 0
    list,       \* the signed list of the holder, by network
    published,  \* the list that the server holds, by network
    granted,    \* the joiner: the networks with a stored list and certificate
    needs,      \* the joiner: the networks that lack the identity
    offer,      \* the joiner: the offer that waits for the user, or 0
    seen,       \* seen_offers, oldest first
    typed,      \* the devices whose user typed the code, by rendezvous
    origin,     \* the rendezvous that put the joiner on a list, by network
    closedSeen, \* the rendezvous whose end the joiner was told
    faults, restarts

server == <<rdv, published>>
stores == <<slot, list, granted>>
offers == <<needs, offer, seen, closedSeen>>
bounds == <<faults, restarts>>
vars == <<server, act, stores, offers, typed, origin, bounds>>

Device == {"H", "J"}
Rdv == 1 .. MaxRdv
None == [id |-> 0]
Other(d) == IF d = "H" THEN "J" ELSE "H"

Fault == faults < MaxFaults /\ faults' = faults + 1
NoFault == UNCHANGED faults
Bounded == restarts < MaxRestarts /\ restarts' = restarts + 1

Init ==
    /\ rdv = << >>
    /\ act = [d \in Device |-> None] /\ slot = [d \in Device |-> [n \in Net |-> 0]]
    /\ list = [n \in Net |-> [ver |-> 1, keys |-> {"H"}]] /\ published = list
    /\ granted = {} /\ needs = Net /\ offer = 0 /\ seen = << >>
    /\ typed = [i \in Rdv |-> {}] /\ origin = [n \in Net |-> 0] /\ closedSeen = {}
    /\ faults = 0 /\ restarts = 0

-----------------------------------------------------------------------------
(* The relay. *)

IsOpen(i) == rdv[i].open

CloseRdv(ids) ==
    rdv' = [i \in DOMAIN rdv |-> IF i \in ids THEN [rdv[i] EXCEPT !.open = FALSE] ELSE rdv[i]]

\* post: the message is in the log.
Posted(d, i, wire, n) ==
    rdv' = [rdv EXCEPT ![i].log = Append(@, [from |-> d, wire |-> wire, net |-> n])]

-----------------------------------------------------------------------------
(* The session of one device. *)

\* PairingSession::new; the first eligible network stands for the network of
\* the offer until the offer names it.
Session(i, n, stage, eligible) ==
    [id |-> i, net |-> n, stage |-> stage, eligible |-> eligible, master |-> FALSE,
     confirmed |-> FALSE, offerSent |-> FALSE, joinSent |-> FALSE, peer |-> FALSE, seq |-> 0]

Active(d) == act[d] # None

\* The session is over and its slot is emptied (cleanup, finish_pairing_step).
Gone(d) ==
    /\ act' = [act EXCEPT ![d] = None]
    /\ slot' = [slot EXCEPT ![d][act[d].net] = 0]

\* abort, cancel and a wrong code: the rendezvous is closed as well.  (A close
\* that does not arrive is ignored: it leaves what Expire leaves.)
Aborted(d) == Gone(d) /\ CloseRdv({act[d].id})

Keep(d, s) == act' = [act EXCEPT ![d] = s] /\ UNCHANGED slot

\* A message goes out and the session goes on, or the call fails and ends it.
Post(d, s, wire) ==
    \/ IsOpen(s.id) /\ Posted(d, s.id, wire, s.net) /\ Keep(d, s) /\ NoFault
    \/ ~IsOpen(s.id) /\ Aborted(d) /\ NoFault
    \/ Aborted(d) /\ Fault

\* Mutant: the joiner answers the offer before its user typed the code.
JoinReadyUnconfirmed(s) == s.master /\ ~s.joinSent

JoinReady(s) == s.confirmed /\ s.master /\ ~s.joinSent

\* send_join_if_ready
SendJoinIfReady(s) ==
    IF JoinReady(s) THEN Post("J", [s EXCEPT !.joinSent = TRUE], "join")
    ELSE Keep("J", s) /\ NoFault /\ UNCHANGED rdv

-----------------------------------------------------------------------------
(* The holder opens a rendezvous. *)

\* A start that ends without a session: the open pairing was cancelled first.
StartRefused(d) == Active(d) /\ Aborted(d)

\* run_e2e_pair Start and start_creator.  A full list gets no rendezvous; the
\* relay closes the older one of the account and offers the new one.  When the
\* slot is not written the rendezvous is closed again.
Start(n) ==
    LET i == Len(rdv) + 1
        cleared == IF Active("H") THEN [slot["H"] EXCEPT ![act["H"].net] = 0] ELSE slot["H"]
        log(open) == Append([k \in DOMAIN rdv |-> [rdv[k] EXCEPT !.open = FALSE]],
                            [open |-> open, joined |-> FALSE, log |-> << >>])
    IN  /\ i <= MaxRdv
        /\ Cardinality(list[n].keys) < ListMax
        /\ \/ /\ act' = [act EXCEPT !["H"] = Session(i, n, "Open", {})]
              /\ slot' = [slot EXCEPT !["H"] = [cleared EXCEPT ![n] = i]]
              /\ rdv' = log(TRUE) /\ NoFault
           \/ /\ act' = [act EXCEPT !["H"] = None] /\ slot' = [slot EXCEPT !["H"] = cleared]
              /\ rdv' = log(FALSE) /\ Fault
        /\ UNCHANGED <<list, published, granted, offers, typed, origin, restarts>>

\* The list is full, or the call failed: the pairing that was open is over.
StartFails(n) ==
    /\ IF Cardinality(list[n].keys) >= ListMax THEN NoFault ELSE Fault
    /\ StartRefused("H")
    /\ UNCHANGED <<list, published, granted, offers, typed, origin, restarts>>

-----------------------------------------------------------------------------
(* The joiner takes an offer, or a code that the user typed. *)

\* start_joiner_any for a joiner without an open pairing: the relay takes one
\* joiner, the slot is written, and the first message goes out.
Join(i, n, eligible) ==
    LET s == Session(i, n, "Keyed", eligible)
        joined == [rdv EXCEPT ![i].joined = TRUE]
    IN  \/ /\ IsOpen(i) /\ ~rdv[i].joined
           /\ act' = [act EXCEPT !["J"] = s]
           /\ slot' = [slot EXCEPT !["J"][n] = i]
           /\ rdv' = [joined EXCEPT ![i].log = <<[from |-> "J", wire |-> "hello", net |-> n]>>]
           /\ NoFault
        \/ /\ IsOpen(i) => rdv[i].joined
           /\ UNCHANGED <<rdv, act, slot>> /\ NoFault
        \/ /\ IsOpen(i) /\ ~rdv[i].joined /\ Fault
           /\ rdv' = [joined EXCEPT ![i].open = FALSE]
           /\ UNCHANGED <<act, slot>>

\* take_offer: one accept gives the offer once.  An offer past its end time,
\* and one for no network that still needs it, gives nothing.
Accept ==
    /\ offer # 0
    /\ offer' = 0
    /\ \/ /\ ~Active("J") /\ needs # {}
          /\ Join(offer, CHOOSE n \in needs : \A m \in needs : n <= m, needs)
       \/ UNCHANGED <<rdv, act, slot, faults>>
    /\ UNCHANGED <<published, list, granted, needs, seen, closedSeen, typed, origin, restarts>>

Decline ==
    /\ offer # 0
    /\ offer' = 0
    /\ UNCHANGED <<server, act, stores, needs, seen, closedSeen, typed, origin, bounds>>

\* The user types the code of a rendezvous on the new device (a server without
\* offers); an open pairing is cancelled first.
JoinByCode(i, n) ==
    /\ ~Active("J") /\ i \in DOMAIN rdv /\ IsOpen(i) /\ n \in needs
    /\ offer' = 0
    /\ Join(i, n, {})
    /\ UNCHANGED <<published, list, granted, needs, seen, closedSeen, typed, origin, restarts>>

-----------------------------------------------------------------------------
(* The user types the check code. *)

\* A joiner that confirmed sends its join when it holds the offer; the holder
\* sends its offer.  Without a channel nothing happens.
ConfirmRight(d) ==
    /\ Active(d) /\ act[d].stage = "Keyed" /\ ~act[d].confirmed
    /\ typed' = [typed EXCEPT ![act[d].id] = @ \cup {d}]
    /\ IF d = "H"
       THEN Post(d, [act[d] EXCEPT !.confirmed = TRUE, !.offerSent = TRUE], "offer")
       ELSE SendJoinIfReady([act[d] EXCEPT !.confirmed = TRUE])
    /\ UNCHANGED <<published, list, granted, offers, origin, restarts>>

\* A wrong code ends the pairing, also after a right one.
ConfirmWrong(d) ==
    /\ Active(d) /\ act[d].stage = "Keyed"
    /\ Fault
    /\ Aborted(d)
    /\ UNCHANGED <<published, list, granted, offers, typed, origin, restarts>>

-----------------------------------------------------------------------------
(* A message of the other side. *)

\* The messages behind the last sequence, from the other side.
Behind(d) ==
    {k \in DOMAIN rdv[act[d].id].log : k > act[d].seq /\ rdv[act[d].id].log[k].from # d}

Current(d) == [act[d] EXCEPT !.seq = CHOOSE k \in Behind(d) : TRUE]
Message(d) == rdv[act[d].id].log[CHOOSE k \in Behind(d) : TRUE]

Read(d, wire) == Active(d) /\ IsOpen(act[d].id) /\ Behind(d) # {} /\ Message(d).wire = wire

\* take_hello: the channel of the holder is open.
TakeHello ==
    /\ Read("H", "hello") /\ act["H"].stage = "Open"
    /\ Keep("H", [Current("H") EXCEPT !.stage = "Keyed"])
    /\ UNCHANGED <<rdv, published, list, granted, origin, faults, needs>>

\* Mutant: the slot of the first network is left.
MovedKeepsFirst(from, to, i) == [slot["J"] EXCEPT ![to] = i]

\* The slots of the joiner when its pairing moves to another network.
Moved(from, to, i) == [slot["J"] EXCEPT ![from] = 0, ![to] = i]

\* take_offer of the session and rebind_joiner: the joiner goes to the network
\* that the offer names, when it is its own or one of the eligible ones; its
\* slot goes along.
TakeOffer ==
    LET s == Current("J")
        n == Message("J").net
        bound == [s EXCEPT !.master = TRUE, !.net = n]
    IN  /\ Read("J", "offer")
        /\ IF n = s.net
           THEN SendJoinIfReady(bound)
           ELSE IF n \notin s.eligible
           THEN Aborted("J") /\ NoFault
           ELSE \/ /\ act' = [act EXCEPT !["J"] =
                        IF JoinReady(bound) THEN [bound EXCEPT !.joinSent = TRUE] ELSE bound]
                   /\ slot' = [slot EXCEPT !["J"] = Moved(s.net, n, s.id)]
                   /\ IF JoinReady(bound) THEN Posted("J", s.id, "join", n)
                                          ELSE UNCHANGED rdv
                   /\ NoFault
                \/ Aborted("J") /\ Fault
        /\ UNCHANGED <<published, list, granted, origin, needs>>

\* refuse: the joiner closes the rendezvous.
Refuse ==
    \/ Posted("H", act["H"].id, "refused", act["H"].net) /\ Gone("H") /\ NoFault
    \/ Aborted("H") /\ Fault

\* build_grant
Grant(n) == [ver |-> list[n].ver + 1, keys |-> list[n].keys \cup {"J"}]

\* Mutant: the holder does not keep the list that it published.
SavedNever(n, done) == list

\* The list of the holder after the steps that were made.
Saved(n, done) == IF done >= 2 THEN [list EXCEPT ![n] = Grant(n)] ELSE list

\* The list goes to the server, then to the store, then to the joiner: `done`
\* of these steps were made when one failed and ended the pairing, or when the
\* program stopped.
Sign(n, done) ==
    /\ published' = IF done >= 1 THEN [published EXCEPT ![n] = Grant(n)] ELSE published
    /\ list' = Saved(n, done)
    /\ origin' = IF done >= 1 THEN [origin EXCEPT ![n] = act["H"].id] ELSE origin
    /\ IF done = 3
       THEN /\ Posted("H", act["H"].id, "signed", n) /\ NoFault
            /\ Keep("H", [Current("H") EXCEPT !.peer = TRUE])
       ELSE Aborted("H") /\ Fault

\* take_join and finish_creator.  The server takes a newer list only.
TakeJoin ==
    LET s == act["H"]
        n == s.net
    IN  /\ Read("H", "join") /\ s.confirmed /\ s.offerSent /\ ~s.peer
        /\ IF Message("H").net # n
           THEN Aborted("H") /\ NoFault /\ UNCHANGED <<published, list, origin>>
           ELSE IF "J" \in list[n].keys \/ Cardinality(list[n].keys) >= ListMax
           THEN Refuse /\ UNCHANGED <<published, list, origin>>
           ELSE IF Grant(n).ver <= published[n].ver
           THEN Aborted("H") /\ NoFault /\ UNCHANGED <<published, list, origin>>
           ELSE \E done \in 0 .. 3 : Sign(n, done)
        /\ UNCHANGED <<granted, needs>>

\* take_signed and finish_joiner: the grant is stored, the device registered,
\* and `done` goes out.  When a step fails, the grant may be stored already.
TakeSigned ==
    /\ Read("J", "signed")
    /\ \/ /\ granted' = granted \cup {act["J"].net}
          /\ needs' = needs \ {act["J"].net}
          /\ Gone("J") /\ Posted("J", act["J"].id, "done", act["J"].net) /\ NoFault
       \/ /\ granted' \in {granted, granted \cup {act["J"].net}}
          /\ Aborted("J") /\ Fault /\ UNCHANGED needs
    /\ UNCHANGED <<published, list, origin>>

\* The holder refused the network: the joiner ends and closes.
TakeRefusal ==
    /\ Read("J", "refused")
    /\ Aborted("J")
    /\ UNCHANGED <<published, list, granted, origin, needs, faults>>

\* The joiner is paired: the holder closes the rendezvous.
TakeDone ==
    /\ Read("H", "done") /\ act["H"].offerSent
    /\ Aborted("H")
    /\ UNCHANGED <<published, list, granted, origin, needs, faults>>

\* The fetch fails, or the rendezvous is closed by now: the pairing is over.
FetchFails(d) ==
    /\ Active(d)
    /\ IF IsOpen(act[d].id) THEN Fault ELSE NoFault
    /\ Aborted(d)
    /\ UNCHANGED <<published, list, granted, origin, needs>>

Pump(d) ==
    \/ d = "H" /\ (TakeHello \/ TakeJoin \/ TakeDone)
    \/ d = "J" /\ (TakeOffer \/ TakeSigned \/ TakeRefusal)
    \/ FetchFails(d)

-----------------------------------------------------------------------------
(* Events of the user topic.  One may come late, more than once, in another *)
(* order, or never: the socket may be down.                                 *)

\* remember_offer: the newest SeenMax ids.
Remembered(i) ==
    IF i \in ToSet(seen) THEN seen
    ELSE IF Len(seen) >= SeenMax THEN Append(Tail(seen), i) ELSE Append(seen, i)

\* handle_e2e_pairing_offer and admit_offer: an offer of the past, a repeated
\* one and one that this device does not need show nothing.
OfferEvent(i) ==
    /\ i \in DOMAIN rdv /\ i \notin ToSet(seen) /\ needs # {} /\ ~Active("J")
    /\ offer' = i /\ seen' = Remembered(i)
    /\ UNCHANGED <<server, act, stores, needs, closedSeen, typed, origin, bounds>>

\* Mutant: the end of a rendezvous is not remembered.
OfferClosedForgets(i) ==
    /\ offer' = IF offer = i THEN 0 ELSE offer
    /\ closedSeen' = closedSeen \cup {i}
    /\ UNCHANGED seen

\* close_offer_of: a later offer of the rendezvous is a repeated one.
OfferClosed(i) ==
    /\ offer' = IF offer = i THEN 0 ELSE offer
    /\ closedSeen' = closedSeen \cup {i}
    /\ seen' = Remembered(i)

\* on_push Closed: the session of that rendezvous is over, and no call is made.
ClosedEvent(d, i) ==
    /\ i \in DOMAIN rdv /\ ~IsOpen(i)
    /\ IF d = "J" THEN OfferClosed(i) ELSE UNCHANGED <<offer, seen, closedSeen>>
    /\ IF act[d].id = i THEN Gone(d) ELSE UNCHANGED <<act, slot>>
    /\ UNCHANGED <<server, list, granted, needs, typed, origin, bounds>>

\* on_push Message for an offer that waits: someone joined its rendezvous.
JoinedElsewhere ==
    /\ offer # 0 /\ rdv[offer].log # << >>
    /\ offer' = 0
    /\ UNCHANGED <<server, act, stores, needs, seen, closedSeen, typed, origin, bounds>>

\* on_push Message and pump_pairing after a connect: the device fetches, at
\* any time, since an event may come late or not at all.
Fetch(d) == Pump(d) /\ UNCHANGED <<offer, seen, closedSeen, typed, restarts>>

-----------------------------------------------------------------------------
(* Ends. *)

Cancel(d) ==
    /\ Active(d)
    /\ Aborted(d)
    /\ UNCHANGED <<published, list, granted, offers, typed, origin, bounds>>


\* tick_pairing: the lifetime of the session is over; the close may not
\* arrive.
Expire(d) ==
    /\ Active(d)
    /\ Gone(d) /\ (CloseRdv({act[d].id}) \/ UNCHANGED rdv)
    /\ UNCHANGED <<published, list, granted, offers, typed, origin, bounds>>

\* retire_expired_offer
ExpireOffer ==
    /\ offer # 0
    /\ offer' = 0
    /\ UNCHANGED <<server, act, stores, needs, seen, closedSeen, typed, origin, bounds>>

\* The relay ends a rendezvous after its lifetime.
RelayExpires(i) ==
    /\ i \in DOMAIN rdv /\ IsOpen(i)
    /\ CloseRdv({i})
    /\ UNCHANGED <<published, act, stores, offers, typed, origin, bounds>>

\* The session connects again: a waiting offer is stale, and the
\* joiner runs the provision, which ends the need of a network with a grant.
Reconnect(d) ==
    /\ Bounded
    /\ offer' = IF d = "J" THEN 0 ELSE offer
    /\ needs' = IF d = "J" THEN needs \ granted ELSE needs
    /\ UNCHANGED <<rdv, published, act, stores, seen, closedSeen, typed, origin, faults>>

\* The program stops.  The channel is gone, so the slot that the next start
\* finds is stale: it is emptied and its rendezvous closed.
Restart(d) ==
    LET left == {slot[d][n] : n \in Net} \ {0}
    IN  /\ Bounded
        /\ act' = [act EXCEPT ![d] = None]
        /\ slot' = [slot EXCEPT ![d] = [n \in Net |-> 0]]
        /\ CloseRdv(left)
        /\ offer' = IF d = "J" THEN 0 ELSE offer
        /\ seen' = IF d = "J" THEN << >> ELSE seen
        /\ closedSeen' = IF d = "J" THEN {} ELSE closedSeen
        /\ needs' = IF d = "J" THEN Net \ granted ELSE needs
        /\ UNCHANGED <<published, list, granted, typed, origin, faults>>

\* Another holder of the master publishes a list with its own new device.
AnotherPublishes(n) ==
    /\ Bounded /\ "K" \notin published[n].keys
    /\ published' = [published EXCEPT ![n] = [ver |-> @.ver + 1, keys |-> @.keys \cup {"K"}]]
    /\ UNCHANGED <<rdv, act, stores, offers, typed, origin, faults>>

\* sync_own_list of the holder.
SyncOwnList(n) ==
    /\ list[n].ver < published[n].ver
    /\ list' = [list EXCEPT ![n] = published[n]]
    /\ UNCHANGED <<server, act, slot, granted, offers, typed, origin, bounds>>

Next ==
    \/ \E n \in HolderNet : Start(n) \/ StartFails(n) \/ AnotherPublishes(n) \/ SyncOwnList(n)
    \/ \E i \in Rdv, n \in Net : JoinByCode(i, n)
    \/ Accept \/ Decline \/ JoinedElsewhere \/ ExpireOffer
    \/ \E i \in Rdv : OfferEvent(i)
    \/ \E d \in Device :
         \/ ConfirmRight(d) \/ ConfirmWrong(d) \/ Fetch(d) \/ Cancel(d) \/ Expire(d)
         \/ \E i \in Rdv : ClosedEvent(d, i)
         \/ Reconnect(d) \/ Restart(d)
    \/ \E i \in Rdv : RelayExpires(i)

Spec == Init /\ [][Next]_vars

-----------------------------------------------------------------------------
(* Properties. *)

\* The state keeps its type, and the slot of a store that no session uses is
\* empty: every way out of a pairing empties it, also after a move to another
\* network (cleanup, rebind_joiner).
TypeOK ==
    /\ Len(rdv) <= MaxRdv /\ Len(seen) <= SeenMax
    /\ offer \in 0 .. Len(rdv) /\ granted \subseteq Net /\ needs \subseteq Net
    /\ \A d \in Device, n \in Net :
         slot[d][n] = IF Active(d) /\ act[d].net = n THEN act[d].id ELSE 0

\* The joiner is on a list only after both users typed the code of the same
\* rendezvous (finish_creator: "It is reached only after the `join` message,
\* so both sides confirmed").
BothConfirmed ==
    \A n \in Net : origin[n] # 0 => typed[origin[n]] = Device

\* A joiner with a stored grant is on the list of the server and on that of the
\* holder, whatever failed behind it (finish_creator, finish_joiner).
GrantedIsListed ==
    \A n \in granted : "J" \in published[n].keys /\ "J" \in list[n].keys

\* An offer never waits for the user after the device was told the end of its
\* rendezvous, in whatever order the events came (admit_offer, close_offer_of).
NoOfferAfterClose == offer \notin closedSeen

\* The safety of a pairing: types, consent of both users, what the grant says,
\* and no offer of a rendezvous that ended.
PairingSound == TypeOK /\ BothConfirmed /\ GrantedIsListed /\ NoOfferAfterClose
=============================================================================
