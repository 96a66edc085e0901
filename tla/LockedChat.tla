----------------------------- MODULE LockedChat -----------------------------
(***************************************************************************)
(* How an encrypted chat with a peer starts: the consent request of the    *)
(* plain query, the locked entry that opens after it, the request for the  *)
(* peer's keys and the progress row of a message that is on its way.       *)
(*                                                                         *)
(* One peer on one network.  Requests are mirrored from the server by      *)
(* pushes, which are lost while the socket is down, and read again on      *)
(* every connect.  A click carries the request that was on the screen and  *)
(* waits in the worker's queue; the worker handles one event at a time.    *)
(***************************************************************************)
EXTENDS Naturals, Sequences, FiniteSets, FiniteSetsExt

CONSTANTS
    MaxId,      \* consent requests
    MaxClicks,
    MaxWire,    \* events that wait for the worker
    MaxFaults   \* losses, lost answers and an identity that comes or goes

VARIABLES
    srv,        \* server: the state of every request
    made,       \* server: requests so far
    message,    \* server: a message of the peer in several frames
    up,         \* the user topic is joined
    wire,       \* events for the worker, in order
    queue,      \* clicks for the worker
    clicks, faults,
    engine,     \* this device has the identity of the network
    requests,   \* requests, "no" for none
    activated,  \* activated_requests
    locked,     \* the locked entry of the peer
    keys,       \* key_requests
    ready,      \* the peer's keys are here
    incoming,   \* the progress row
    consented,  \* history: requests that the user started or accepted, on any device
    unsure,     \* history: an answer was lost since the last read of the requests
    renewed     \* history: the identity came or went in this session

vars == <<srv, made, message, up, wire, queue, clicks, faults, engine, requests, activated, locked,
          keys, ready, incoming, consented, unsure, renewed>>
server == <<srv, made, message>>
mirror == <<requests, activated>>
chat == <<locked, keys, ready>>
bounds == <<clicks, faults>>

Id == 1 .. MaxId
RequestState == {"no", "incoming", "outgoing", "accepted", "refused"}
Live == {"incoming", "outgoing", "accepted"}
Ev(k, id) == [kind |-> k, id |-> id, state |-> IF id = 0 THEN "" ELSE srv'[id]]

TypeOK ==
    /\ srv \in [Id -> RequestState] /\ requests \in [Id -> RequestState]
    /\ activated \subseteq Id /\ keys \in {"none", "accepted", "waiting", "failed"}
    /\ message \in {"no", "started", "whole", "lost"} /\ (ready => keys # "none")

Init ==
    /\ srv = [i \in Id |-> "no"] /\ made = 0 /\ message = "no" /\ up = TRUE /\ wire = <<>>
    /\ queue = <<>> /\ clicks = 0 /\ faults = 0 /\ engine = TRUE
    /\ requests = srv /\ activated = {} /\ locked = FALSE /\ keys = "none" /\ ready = FALSE
    /\ incoming = FALSE /\ consented = {} /\ unsure = FALSE /\ renewed = FALSE

Fault == faults < MaxFaults /\ faults' = faults + 1

-----------------------------------------------------------------------------
(* The server, the peer and the other devices of the account. *)

Pushed(e) ==
    IF up THEN Len(wire) < MaxWire /\ wire' = Append(wire, e) ELSE wire' = wire

Moved(id, st) ==
    /\ srv' = [srv EXCEPT ![id] = st]
    /\ Pushed(IF st = "no" THEN Ev("gone", id) ELSE Ev("request", id))

PeerMoves ==
    /\ \/ /\ made < MaxId /\ \A i \in Id : srv[i] \notin Live
          /\ made' = made + 1 /\ Moved(made', "incoming")
       \/ /\ \E i \in Id : srv[i] = "incoming" /\ Moved(i, "no")
          /\ UNCHANGED made
       \/ /\ \E i \in Id, st \in {"accepted", "refused"} : srv[i] = "outgoing" /\ Moved(i, st)
          /\ UNCHANGED made
    /\ UNCHANGED <<message, up, queue, bounds, engine, mirror, chat, incoming, consented, unsure, renewed>>

\* Another device of the account answers, or takes an answered request away.
SiblingMoves(i) ==
    /\ Fault
    /\ \/ srv[i] = "incoming" /\ Moved(i, "accepted") /\ consented' = consented \union {i}
       \/ srv[i] \in {"incoming", "accepted", "refused"} /\ Moved(i, "no") /\ UNCHANGED consented
    /\ UNCHANGED <<made, message, up, queue, clicks, engine, mirror, chat, incoming, unsure, renewed>>

\* The relay has no such nick: the open request is dropped.
NickGone ==
    /\ Fault /\ \E i \in Id : srv[i] = "outgoing" /\ srv' = [srv EXCEPT ![i] = "no"]
    /\ Pushed(Ev("nonick", 0))
    /\ UNCHANGED <<made, message, up, queue, clicks, engine, mirror, chat, incoming, consented, unsure, renewed>>

PeerKeys ==
    /\ keys # "none" /\ ~ready /\ engine /\ ready' = TRUE
    /\ UNCHANGED <<server, up, wire, queue, bounds, engine, mirror, locked, keys, incoming, consented, unsure, renewed>>

\* e2e_incoming, then the message or e2e_incoming_lost.
Frames ==
    /\ \/ message = "no" /\ message' = "started"
       \/ message = "started" /\ message' \in {"whole", "lost"}
    /\ Pushed([kind |-> message', id |-> 0, state |-> ""])
    /\ UNCHANGED <<srv, made, up, queue, bounds, engine, mirror, chat, incoming, consented, unsure, renewed>>

SocketLost ==
    /\ up /\ Fault /\ up' = FALSE /\ wire' = Append(wire, [kind |-> "lost-socket", id |-> 0, state |-> ""])
    /\ UNCHANGED <<server, queue, clicks, engine, mirror, chat, incoming, consented, unsure, renewed>>

SocketBack ==
    /\ ~up /\ up' = TRUE /\ wire' = Append(wire, [kind |-> "connected", id |-> 0, state |-> ""])
    /\ UNCHANGED <<server, queue, bounds, engine, mirror, chat, incoming, consented, unsure, renewed>>

\* A reset takes the identity of the network, a pairing brings it.
Identity ==
    /\ Fault /\ engine' = ~engine /\ renewed' = TRUE
    /\ UNCHANGED <<server, up, wire, queue, clicks, mirror, chat, incoming, consented, unsure>>

-----------------------------------------------------------------------------
(* What the screen shows of the plain query, and the clicks. *)

\* request_for_peer: the newest one.
Newest == Max({0} \union {i \in Id : requests[i] # "no"})

\* locked_entry_state: the chat has passed the request for keys.
Passed == locked /\ ready

\* query_consent_view: the newest request, unless the locked chat has passed it.
Card == IF Passed THEN 0 ELSE Newest

\* request_view_state.
CardState == IF Card = 0 THEN "" ELSE requests[Card]

\* push_open_query_consent: the buttons below the card.
Offered(a) ==
    CASE a = "start" -> CardState = "" /\ engine
      [] a = "accept" -> CardState = "incoming" /\ engine
      [] a = "refuse" -> CardState = "incoming"
      [] a = "cancel" -> CardState = "outgoing"
      [] a = "retry" -> CardState = "refused" /\ engine
      [] a = "dismiss" -> CardState = "refused"
      [] a = "open" -> CardState = "accepted" \/ locked
      [] a = "rekey" -> locked /\ ~ready
      [] a = "close" -> locked

Action == {"start", "accept", "refuse", "cancel", "retry", "dismiss", "open", "rekey", "close"}

Click(a) ==
    /\ queue = <<>> /\ Offered(a) /\ clicks < MaxClicks /\ clicks' = clicks + 1
    /\ queue' = <<[action |-> a, id |-> Card]>>
    /\ UNCHANGED <<server, up, wire, faults, engine, mirror, chat, incoming, consented, unsure, renewed>>

-----------------------------------------------------------------------------
(* The worker. *)

\* note_key_request: a request that the pacing holds leaves the state of an open one.
KeysAfter(result) ==
    IF result = "ok" THEN "accepted"
    ELSE IF result = "paced" THEN (IF keys \in {"none", "failed"} THEN keys ELSE "waiting")
    ELSE "failed"

KeysAsked(result) == keys' = KeysAfter(result)

\* activate_accepted_request: the entry opens, the keys are asked for, and the
\* request is dismissed once they are.
Activate(id, before, result, dismissed) ==
    IF id \in activated \/ ~engine
    THEN /\ requests' = before /\ UNCHANGED <<activated, locked, keys, ready, server>>
    ELSE /\ locked' = TRUE /\ KeysAsked(result) /\ UNCHANGED <<ready, made, message>>
         /\ IF result = "ok" /\ dismissed
            THEN /\ requests' = [before EXCEPT ![id] = "no"] /\ activated' = activated \ {id}
                 /\ srv' = [srv EXCEPT ![id] = "no"]
            ELSE requests' = before /\ activated' = activated \union {id} /\ UNCHANGED srv

Results == {"ok", "paced", "failed"}
Next2(e) == wire # <<>> /\ Head(wire).kind = e

\* A mutant: every request that is pushed opens the chat.
OpensAny(st) == st # "no"

\* Only an accepted request opens the chat.
Opens(st) == st = "accepted"

\* The dismissal of a request is pushed like any other change.
DismissalPushed(e) ==
    wire' = Tail(wire) \o (IF up /\ srv' # srv THEN <<Ev("gone", e.id)>> ELSE <<>>)

\* handle_e2e_request_push.
RequestPush(result, dismissed) ==
    /\ Next2("request")
    /\ LET e == Head(wire)
           put == [requests EXCEPT ![e.id] = e.state]
       IN  /\ IF Opens(e.state) THEN Activate(e.id, put, result, dismissed)
              ELSE requests' = put /\ UNCHANGED <<activated, locked, keys, ready, server>>
           /\ DismissalPushed(e)
    /\ UNCHANGED <<up, queue, bounds, engine, incoming, consented, unsure, renewed>>

\* handle_e2e_request_gone_push.
RequestGone ==
    /\ Next2("gone") /\ wire' = Tail(wire)
    /\ requests' = [requests EXCEPT ![Head(wire).id] = "no"] /\ activated' = activated \ {Head(wire).id}
    /\ UNCHANGED <<server, up, queue, bounds, engine, chat, incoming, consented, unsure, renewed>>

\* remove_outgoing_request_for_peer.
RemoveOutgoing ==
    LET open == {i \in Id : requests[i] = "outgoing"} IN
    /\ requests' = [i \in Id |-> IF i \in open THEN "no" ELSE requests[i]]
    /\ activated' = activated \ open

\* mark_key_request_failed_for_peer: one that was sent or that waits.
KeyRequestFailed == keys' = IF keys = "none" THEN keys ELSE "failed"

\* handle_no_such_nick_push.
NoSuchNick ==
    /\ Next2("nonick") /\ wire' = Tail(wire) /\ RemoveOutgoing /\ KeyRequestFailed
    /\ UNCHANGED <<server, up, queue, bounds, engine, locked, ready, incoming, consented, unsure, renewed>>

\* note_incoming, take_incoming, note_incoming_lost.
IncomingAfter(k) ==
    CASE k = "started" -> engine
      [] k = "whole" -> FALSE
      [] k = "lost" -> incoming /\ (~engine \/ renewed)

\* handle_e2e_incoming, handle_e2e_message and handle_e2e_incoming_lost.
Progress ==
    /\ \E k \in {"started", "whole", "lost"} : Next2(k)
    /\ wire' = Tail(wire)
    /\ incoming' = IncomingAfter(Head(wire).kind)
    /\ UNCHANGED <<server, up, queue, bounds, engine, mirror, chat, consented, unsure, renewed>>

\* A mutant: the progress rows stay when the session ends.
SessionEndedKeepsRows ==
    /\ Next2("lost-socket") /\ wire' = Tail(wire)
    /\ UNCHANGED <<server, up, queue, bounds, engine, mirror, chat, consented, unsure, incoming, renewed>>

\* end_e2e_sessions: no event of the next session ends a row of this one.
SessionEnded ==
    /\ Next2("lost-socket") /\ wire' = Tail(wire) /\ incoming' = FALSE /\ renewed' = FALSE
    /\ UNCHANGED <<server, up, queue, bounds, engine, mirror, chat, consented, unsure>>

\* A mutant: what the list does not have is kept.
ReplacedMerges(list) == [i \in Id |-> IF list[i] = "no" THEN requests[i] ELSE list[i]]

\* replace_requests.
Replaced(list) == list

\* sync_e2e_requests, on every connect: the list replaces the mirror and an accepted
\* request is activated again.
SyncRequests(result, dismissed) ==
    /\ Next2("connected")
    /\ LET accepted == {i \in Id : srv[i] = "accepted"} IN
       IF accepted = {} \/ ~engine
       THEN /\ requests' = Replaced(srv) /\ activated' = {} /\ wire' = Tail(wire)
            /\ UNCHANGED <<server, chat>>
       ELSE LET id == Max(accepted)
                done == result = "ok" /\ dismissed
            IN  /\ locked' = TRUE /\ KeysAsked(result) /\ UNCHANGED <<ready, made, message>>
                /\ requests' = IF done THEN [Replaced(srv) EXCEPT ![id] = "no"] ELSE Replaced(srv)
                /\ activated' = IF done THEN {} ELSE {id}
                /\ srv' = IF done THEN [srv EXCEPT ![id] = "no"] ELSE srv
                /\ DismissalPushed([id |-> id])
    /\ unsure' = FALSE
    /\ UNCHANGED <<up, queue, bounds, engine, incoming, consented, renewed>>

SyncFails ==
    /\ Next2("connected") /\ wire' = Tail(wire) /\ Fault /\ unsure' = TRUE
    /\ UNCHANGED <<server, up, queue, clicks, engine, mirror, chat, incoming, consented, renewed>>

-----------------------------------------------------------------------------
(* handle_e2e_request_action. *)

\* A click on a request that is no longer the newest of the peer does nothing.
Stale(c) == Newest # 0 /\ Newest # c.id

Clicked(a) == queue # <<>> /\ Head(queue).action = a /\ queue' = <<>>
Told(id) == wire' = IF up THEN Append(wire, Ev(IF srv'[id] = "no" THEN "gone" ELSE "request", id)) ELSE wire

Ignored ==
    /\ \E a \in {"start", "accept", "refuse", "cancel", "retry", "dismiss"} : Clicked(a)
    /\ LET c == Head(queue) IN
       \/ Stale(c)
       \/ c.action \in {"start", "accept", "retry"} /\ ~engine
       \/ c.action = "accept" /\ ~Stale(c) /\ requests[c.id] # "incoming"
       \/ c.action = "retry" /\ ~Stale(c) /\ requests[c.id] # "refused"
       \/ c.action \in {"cancel", "dismiss"} /\ ~Stale(c) /\ requests[c.id] = "no"
       \/ c.action = "cancel" /\ ~Stale(c) /\ requests[c.id] = "outgoing" /\ ~engine
    /\ UNCHANGED <<server, up, wire, bounds, engine, mirror, chat, incoming, consented, unsure, renewed>>

\* "start" and "retry": a locked entry is opened instead.  A request of the peer that
\* crosses this one makes it accepted.
Start(result, dismissed) ==
    /\ Clicked("start") \/ Clicked("retry")
    /\ ~Stale(Head(queue)) /\ engine
    /\ IF locked \/ (Head(queue).action = "retry" /\ requests[Head(queue).id] # "refused")
       THEN UNCHANGED <<server, wire, mirror, chat, consented>>
       ELSE \/ /\ \A i \in Id : srv[i] \notin Live
               /\ made < MaxId /\ made' = made + 1 /\ srv' = [srv EXCEPT ![made'] = "outgoing"]
               /\ Told(made') /\ requests' = [requests EXCEPT ![made'] = "outgoing"]
               /\ consented' = consented \union {made'}
               /\ UNCHANGED <<message, activated, chat>>
            \/ \E i \in Id :
               /\ srv[i] = "incoming" /\ consented' = consented \union {i}
               /\ locked' = TRUE /\ KeysAsked(result) /\ UNCHANGED <<ready, made, message>>
               /\ LET done == result = "ok" /\ dismissed IN
                  /\ srv' = [srv EXCEPT ![i] = IF done THEN "no" ELSE "accepted"]
                  /\ requests' = [requests EXCEPT ![i] = srv'[i]]
                  /\ activated' = IF done THEN activated \ {i} ELSE activated \union {i}
               /\ Told(i)
            \/ UNCHANGED <<server, wire, mirror, chat, consented>>
    /\ UNCHANGED <<up, bounds, engine, incoming, unsure, renewed>>

\* "accept": the server may refuse it, and its answer may be lost.
Accept(result, dismissed) ==
    /\ Clicked("accept") /\ ~Stale(Head(queue)) /\ engine /\ requests[Head(queue).id] = "incoming"
    /\ LET i == Head(queue).id
           done == result = "ok" /\ dismissed
       IN  \/ /\ srv[i] = "incoming" /\ consented' = consented \union {i}
              /\ locked' = (i \notin activated \/ locked) /\ KeysAsked(result)
              /\ srv' = [srv EXCEPT ![i] = IF done THEN "no" ELSE "accepted"] /\ Told(i)
              /\ requests' = [requests EXCEPT ![i] = srv'[i]]
              /\ activated' = IF done THEN activated \ {i} ELSE activated \union {i}
              /\ UNCHANGED <<faults, unsure, ready, made, message>>
           \/ /\ srv[i] = "incoming" /\ Fault /\ unsure' = TRUE /\ consented' = consented \union {i}
              /\ srv' = [srv EXCEPT ![i] = "accepted"] /\ Told(i)
              /\ UNCHANGED <<made, message, mirror, chat>>
           \/ /\ srv[i] # "incoming" /\ UNCHANGED <<server, wire, mirror, chat, faults, unsure, consented>>
    /\ UNCHANGED <<up, clicks, engine, incoming, renewed>>

\* "refuse", "cancel" and "dismiss": gone from the server, then from the mirror.
TakeBack ==
    /\ \E a \in {"refuse", "cancel", "dismiss"} : Clicked(a)
    /\ ~Stale(Head(queue))
    /\ LET i == Head(queue).id IN
       /\ Head(queue).action = "refuse" \/ requests[i] # "no"
       /\ Head(queue).action = "cancel" /\ requests[i] = "outgoing" => engine
       /\ \/ /\ srv[i] # "no" /\ srv' = [srv EXCEPT ![i] = "no"] /\ Told(i)
             /\ \/ requests' = [requests EXCEPT ![i] = "no"] /\ activated' = activated \ {i}
                   /\ UNCHANGED <<faults, unsure>>
                \/ Fault /\ unsure' = TRUE /\ UNCHANGED mirror
          \/ srv[i] = "no" /\ UNCHANGED <<srv, wire, mirror, faults, unsure>>
    /\ UNCHANGED <<made, message, up, clicks, engine, chat, incoming, consented, renewed>>

\* "open": an accepted request is activated once more, else the entry is shown.
Open(result, dismissed) ==
    /\ Clicked("open")
    /\ LET i == Head(queue).id IN
       IF i # 0 /\ engine /\ requests[IF i = 0 THEN 1 ELSE i] = "accepted"
       THEN LET done == result = "ok" /\ dismissed IN
            /\ locked' = TRUE /\ KeysAsked(result) /\ UNCHANGED <<ready, made, message>>
            /\ requests' = IF done THEN [requests EXCEPT ![i] = "no"] ELSE requests
            /\ activated' = IF done THEN activated \ {i} ELSE activated \union {i}
            /\ srv' = IF done THEN [srv EXCEPT ![i] = "no"] ELSE srv
            /\ IF srv' # srv THEN Told(i) ELSE UNCHANGED wire
       ELSE UNCHANGED <<server, wire, mirror, chat>>
    /\ UNCHANGED <<up, bounds, engine, incoming, consented, unsure, renewed>>

\* handle_e2e_rekey, by hand.
Rekey(result) ==
    /\ Clicked("rekey")
    /\ KeysAsked(IF engine THEN result ELSE "failed")
    /\ UNCHANGED <<server, up, wire, bounds, engine, mirror, locked, ready, incoming, consented, unsure, renewed>>

\* close_locked_query: the history and the keys stay.
CloseLocked ==
    /\ Clicked("close") /\ locked' = FALSE
    /\ UNCHANGED <<server, up, wire, bounds, engine, mirror, keys, ready, incoming, consented, unsure, renewed>>

-----------------------------------------------------------------------------
World == PeerMoves \/ (\E i \in Id : SiblingMoves(i)) \/ NickGone \/ PeerKeys \/ Frames
         \/ SocketLost \/ SocketBack \/ Identity

Worker ==
    \/ RequestGone \/ NoSuchNick \/ Progress \/ SessionEnded \/ SyncFails \/ Ignored \/ TakeBack
    \/ CloseLocked
    \/ \E r \in Results, d \in BOOLEAN :
          RequestPush(r, d) \/ SyncRequests(r, d) \/ Start(r, d) \/ Accept(r, d) \/ Open(r, d)
    \/ \E r \in Results : Rekey(r)

Next == World \/ Worker \/ \E a \in Action : Click(a)
Spec == Init /\ [][Next]_vars

-----------------------------------------------------------------------------
Settled == up /\ wire = <<>> /\ queue = <<>> /\ ~unsure

(* "A new chat starts only after a user action": whatever pushes, losses,     *)
(* siblings and late clicks there were, a locked entry has a request that     *)
(* the user started or accepted, and so has every request that was activated. *)
ChatStartsWithUser == (locked => consented # {}) /\ activated \subseteq consented

(* Once nothing is under way, the mirror has the requests of the server: no   *)
(* push that was queued before an answer brings an older state back.          *)
MirrorAgrees == Settled => requests = srv

(* A progress row ends: with the message, with its loss or with the session.  *)
(* Only a device id that changed while the message was on its way misses the  *)
(* event of the loss.                                                         *)
ProgressEnds == Settled /\ incoming /\ ~renewed => message = "started"

=============================================================================
