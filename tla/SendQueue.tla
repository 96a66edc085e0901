------------------------------ MODULE SendQueue ------------------------------
(***************************************************************************)
(* The texts that one device sends to one nick: the queue of texts that    *)
(* wait for keys, the send book, the memory for a re-send after a NACK and *)
(* the drop marks of the history rows (E2eEngine of e2e_engine.rs,         *)
(* OutgoingQueue and SendBook of e2e_pacing.rs), and the worker that runs  *)
(* them one call at a time (settle_engine of e2e_runtime.rs).              *)
(*                                                                         *)
(* A call of the engine waits for the relay between its requests.  No      *)
(* other event of the worker runs meanwhile, but time passes, the relay    *)
(* takes a request whose answer is lost, or the program stops.             *)
(*                                                                         *)
(* A timer holds the time that is left.  A text is its own history row.    *)
(***************************************************************************)
EXTENDS Integers, Sequences, FiniteSets, SequencesExt

CONSTANTS
    Device,          \* the devices of the nick, all of them in its signed list
    Text,            \* the texts that the user may type
    QueueMax,        \* OUTGOING_QUEUE_MAX
    QueueTTL,        \* OUTGOING_QUEUE_TTL
    Margin,          \* SEND_SAFETY_MARGIN
    MaxSends,        \* MAX_SENDS
    SentMemory,      \* SENT_MEMORY
    SentMax,         \* SENT_MAX
    KeyreqInterval,  \* KEYREQ_INTERVAL
    RekeyInterval,   \* REKEY_INTERVAL
    Wildcard,        \* the address of a NACK that no device signs
    Stranger,        \* a device that the signed list does not name
    MaxSessions,     \* bound: one-time keys and sessions that peers make
    MaxFaults,       \* bound: failed writes, lost answers, refusals and unsendable texts
    MaxRestarts,     \* bound: stops of the program
    None

ASSUME SendConstants ==
    /\ QueueMax \in Nat /\ QueueTTL \in Nat /\ Margin \in Nat /\ Margin < QueueTTL
    /\ MaxSends \in Nat \ {0} /\ SentMemory \in Nat \ {0} /\ SentMax \in Nat \ {0}
    /\ KeyreqInterval \in Nat /\ RekeyInterval \in Nat
    /\ MaxSessions \in Nat /\ MaxFaults \in Nat /\ MaxRestarts \in Nat
    /\ None \notin Device \cup Text
    /\ {Wildcard, Stranger} \cap Device = {}

\* The keys of the sends: local ones of queued texts and the msgids of the relay.
SendKey == Nat \ {0}

VARIABLES
    \* The memory of the engine.
    queue,      \* OutgoingQueue: the texts that wait, oldest first
    pending,    \* what a waiting send will deliver
    book,       \* SendBook with row_ids: the status and the row of a send
    sent,       \* the texts that a NACK may still bring back
    marks,      \* dropped_rows: the rows with a drop mark
    otk,        \* the one-time key held for a device, or 0
    known,      \* peers: the devices that a row named since the start
    wanted,     \* keys_wanted
    keyreq,     \* the time until the next KEYREQ
    rekey,      \* the time until the next re-key
    \* The disk.
    session,    \* the Olm session with a device
    rows,       \* the history
    saved,      \* the drop marks of the sealed state
    \* The worker.
    stage,      \* where settle_engine stands
    flush,      \* the items that flush_queue took, and those it will put back
    job,        \* the text that deliver sends, or None
    \* The relay and the history of the run.
    wire,       \* the messages that the relay took, by msgid
    copied,     \* the texts handed to queue_copies
    typed,      \* the texts that the user typed
    lost,       \* the texts that waited when the program stopped
    next,       \* the next send key
    sessions,   \* the one-time keys and sessions seen so far
    faults, restarts

waiting == <<queue, pending>>
engine == <<waiting, book, sent, marks, otk, known, wanted, keyreq, rekey>>
disk == <<session, rows, saved>>
worker == <<stage, flush, job>>
limits == <<sessions, faults, restarts>>
ghost == <<wire, copied, typed, lost>>
vars == <<engine, disk, worker, ghost, next, limits>>

NoSession == [id |-> 0, n |-> 0, received |-> FALSE]
NoFlush == [taken |-> <<>>, retry |-> <<>>]

Init ==
    /\ queue = <<>> /\ pending = <<>> /\ book = <<>> /\ sent = <<>>
    /\ marks = {}
    /\ otk = [d \in Device |-> 0] /\ known = {}
    /\ wanted = FALSE /\ keyreq = 0 /\ rekey = 0
    /\ session = [d \in Device |-> NoSession]
    /\ rows = {} /\ saved = {}
    /\ stage = "idle" /\ flush = NoFlush /\ job = None
    /\ wire = <<>> /\ copied = [t \in Text |-> 0] /\ typed = {} /\ lost = {}
    /\ next = 1 /\ sessions = 0
    /\ faults = MaxFaults /\ restarts = MaxRestarts

-----------------------------------------------------------------------------
(***************************************************************************)
(* The book and the marks.                                                 *)
(***************************************************************************)

Put(f, k, v) == [x \in DOMAIN f \cup {k} |-> IF x = k THEN v ELSE f[x]]
Without(f, ks) == [x \in DOMAIN f \ ks |-> f[x]]

\* start: a send enters the book with its row.
Started(b, k, row) == Put(b, k, [row |-> row, status |-> "pending"])

\* The sends that a drop can still change.
Open(ks) == {k \in ks \cap DOMAIN book : book[k].status \in {"pending", "accepted"}}

\* apply_dropped for the sends of ks, then note_drops: the row of each is marked,
\* in memory always and on the disk when the writes succeed.  The reason of the
\* mark (late, send_failed, session_ended, unreadable, no_such_nick) decides
\* nothing but its text.
NoteDrops(ks, ok) ==
    LET dropped == {book[k].row : k \in Open(ks)} IN
    /\ book' = [k \in DOMAIN book |->
                   IF k \in Open(ks) THEN [book[k] EXCEPT !.status = "dropped"] ELSE book[k]]
    /\ marks' = marks \cup dropped
    /\ saved' = IF ok THEN saved \cup dropped ELSE saved

\* A step that meets n faults.
Faults(n) == faults >= n /\ faults' = faults - n
Fault(ok) == Faults(IF ok THEN 0 ELSE 1)

\* check_send_deadline.
TooLate(item) == item.left <= Margin

Keys(items) == {items[i].key : i \in DOMAIN items}

\* retain of the queue: the items at some of its places, in their order.
Retained(items, at) ==
    [i \in 1 .. Cardinality(at) |->
        items[CHOOSE p \in at : Cardinality({q \in at : q <= p}) = i]]

-----------------------------------------------------------------------------
(***************************************************************************)
(* A text of the user.                                                     *)
(***************************************************************************)

\* entry_ready: a session, or a one-time key to start one, of a device that the
\* engine knows.
Ready == {d \in known : session[d] # NoSession \/ otk[d] # 0}

\* seal: the messages are written with copies of the sessions.  Nothing is
\* saved yet.
Seal(ds) == [d \in ds |-> IF session[d] # NoSession THEN session[d]
                          ELSE [NoSession EXCEPT !.id = otk[d]]]

\* PendingText: what waits, the count of its sends, and the device of a re-send.
Waiting(t, n, d) == [text |-> t, sends |-> n, did |-> d]

\* A call of deliver: for an item of the queue, or for the user (None).
Job(item, p, ds) == [item |-> item, what |-> p, sealed |-> Seal(ds), out |-> {}]

\* push of OutgoingQueue.
Pushed(k) == Append(queue, [key |-> k, left |-> QueueTTL])

\* queue_text: the text waits and its row shows at once.  A full queue or a
\* failed write of the row refuses it.
QueueText(t) ==
    IF Len(queue) >= QueueMax
    THEN UNCHANGED <<waiting, book, wanted, rows, next, faults>>
    ELSE \E ok \in BOOLEAN :
            /\ Fault(ok)
            /\ next' = next + 1
            /\ IF ok
               THEN /\ queue' = Pushed(next)
                    /\ rows' = rows \cup {t}
                    /\ book' = Started(book, next, t)
                    /\ pending' = Put(pending, next, Waiting(t, 1, None))
                    /\ wanted' = TRUE
               ELSE UNCHANGED <<waiting, book, wanted, rows>>

\* handle_send_locked: send_or_queue, then settle_engine.
SendOrQueue(t) ==
    /\ stage = "idle" /\ t \notin typed
    /\ typed' = typed \cup {t}
    /\ IF Ready = {}
       THEN QueueText(t) /\ stage' = "settle" /\ UNCHANGED job
       ELSE /\ job' = Job(None, Waiting(t, 1, None), Ready) /\ stage' = "send"
            /\ UNCHANGED <<waiting, book, wanted, rows, next, faults>>
    /\ UNCHANGED <<sent, marks, otk, known, keyreq, rekey, session, saved, flush,
                   wire, copied, lost, sessions, restarts>>

-----------------------------------------------------------------------------
(***************************************************************************)
(* deliver: one request for each chunk of a group, then the records.       *)
(***************************************************************************)

\* msg goes before pkmsg, and a request holds one kind.  The limits of a
\* request decide how a group is split.
Group(sealed) ==
    LET normal == {d \in DOMAIN sealed : sealed[d].received}
    IN  IF normal # {} THEN normal ELSE DOMAIN sealed

Chunks == {c \in SUBSET Group(job.sealed) : c # {}}

\* Mutant: the one-time key stays in the cache of the engine.
SessionsSavedKeyKept(c) ==
    /\ session' = [d \in Device |->
                      IF d \in c THEN [job.sealed[d] EXCEPT !.n = @ + 1] ELSE session[d]]
    /\ otk' = otk

\* The sessions of the chunk are saved before the request goes out.
SessionsSaved(c) ==
    /\ session' = [d \in Device |->
                      IF d \in c THEN [job.sealed[d] EXCEPT !.n = @ + 1] ELSE session[d]]
    /\ otk' = [d \in Device |-> IF d \in c THEN 0 ELSE otk[d]]

\* The relay takes the request: a msgid, and a body for each device.
OnWire(c) ==
    Put(wire, next, [text |-> job.what.text,
                     body |-> [d \in c |-> <<job.sealed[d].id, job.sealed[d].n>>]])

\* Mutant: the text of a busy relay goes back to the queue and not to pending.
DeliverFailsForgets(why, ok) ==
    /\ job' = None
    /\ IF job.item = None
       THEN stage' = "settle" /\ UNCHANGED <<pending, book, marks, saved, flush>>
       ELSE /\ stage' = "flush"
            /\ IF why = "busy"
               THEN /\ flush' = [flush EXCEPT !.retry = Append(@, job.item)]
                    /\ UNCHANGED <<pending, book, marks, saved>>
               ELSE NoteDrops({job.item.key}, ok) /\ UNCHANGED <<pending, flush>>

\* deliver ends with an error.  A text of the user is refused.  A text of the
\* queue goes back to it when the relay is busy, and is dropped otherwise.
DeliverFails(why, ok) ==
    /\ job' = None
    /\ CASE job.item = None ->
              /\ stage' = "settle"
              /\ UNCHANGED <<pending, book, marks, saved, flush>>
         [] job.item # None /\ why = "busy" ->
              /\ stage' = "flush"
              /\ pending' = Put(pending, job.item.key, job.what)
              /\ flush' = [flush EXCEPT !.retry = Append(@, job.item)]
              /\ UNCHANGED <<book, marks, saved>>
         [] OTHER ->
              /\ stage' = "flush"
              /\ NoteDrops({job.item.key}, ok)
              /\ UNCHANGED <<pending, flush>>

\* emit: the first request decides the result.  A later one that fails leaves
\* its devices without the message.
RequestFails(c, why, ok) ==
    IF job.out = {}
    THEN DeliverFails(why, ok)
    ELSE /\ ok
         /\ job' = [job EXCEPT !.sealed = Without(@, c)]
         /\ UNCHANGED <<pending, book, marks, saved, flush, stage>>

Emitting == stage = "send" /\ job # None /\ job.sealed # <<>>

unsent == <<queue, sent, known, wanted, keyreq, rekey, rows, copied, typed, lost, sessions, restarts>>

\* emit_group: the request is accepted, and the answer names the msgid or not.
EmitAccepted ==
    /\ Emitting
    /\ \E c \in Chunks, named \in BOOLEAN :
          /\ Fault(named)
          /\ SessionsSaved(c)
          /\ wire' = OnWire(c)
          /\ job' = [job EXCEPT !.sealed = Without(@, c),
                                !.out = @ \cup {[id |-> next, named |-> named, dids |-> c]}]
    /\ next' = next + 1
    /\ UNCHANGED <<unsent, pending, book, marks, saved, flush, stage>>

\* emit_group: the relay refuses the request.  Only a busy one (429) differs
\* for the queue.
EmitRefused ==
    /\ Emitting
    /\ \E c \in Chunks, why \in {"busy", "refused"}, ok \in BOOLEAN :
          /\ Faults(IF ok THEN 1 ELSE 2)
          /\ SessionsSaved(c)
          /\ RequestFails(c, why, ok)
    /\ UNCHANGED <<unsent, wire, next>>

\* Mutant: the sessions are saved after the answer.
EmitLostUnsaved ==
    /\ Emitting
    /\ \E c \in Chunks, taken, ok \in BOOLEAN :
          /\ Faults(IF ok THEN 1 ELSE 2)
          /\ RequestFails(c, "lost", ok)
          /\ wire' = IF taken THEN OnWire(c) ELSE wire
          /\ next' = IF taken THEN next + 1 ELSE next
    /\ UNCHANGED <<unsent, session, otk>>

\* emit_group: the request or its answer is lost.
EmitLost ==
    /\ Emitting
    /\ \E c \in Chunks, taken, ok \in BOOLEAN :
          /\ Faults(IF ok THEN 1 ELSE 2)
          /\ SessionsSaved(c)
          /\ RequestFails(c, "lost", ok)
          /\ wire' = IF taken THEN OnWire(c) ELSE wire
          /\ next' = IF taken THEN next + 1 ELSE next
    /\ UNCHANGED unsent

\* emit_group: a session is not saved, and the request does not go out.
EmitUnsaved ==
    /\ Emitting
    /\ \E c \in Chunks, ok \in BOOLEAN :
          /\ Faults(IF ok THEN 1 ELSE 2)
          /\ \E part \in SUBSET c : part # c /\ SessionsSaved(part)
          /\ RequestFails(c, "store", ok)
    /\ UNCHANGED <<unsent, wire, next>>

\* deliver, before the first request: a text that cannot be sealed, or a body
\* that does not fit alone.
TooLarge ==
    /\ Emitting /\ job.out = {}
    /\ \E ok \in BOOLEAN : Faults(IF ok THEN 1 ELSE 2) /\ DeliverFails("large", ok)
    /\ UNCHANGED <<unsent, wire, next, otk, session>>

\* trim_sent: by age, then the oldest ones over the limit.
Live(s) == Without(s, {m \in DOMAIN s : s[m].left = 0})
Trimmed(s) ==
    LET live == Live(s)
        Older(m) == {x \in DOMAIN live : \/ live[x].left < live[m].left
                                         \/ live[x].left = live[m].left /\ x < m}
    IN  Without(live, {m \in DOMAIN live :
                          Cardinality(Older(m)) < Cardinality(DOMAIN live) - SentMax})

\* The sends of the accepted requests, with the text for a re-send.
Named == {o \in job.out : o.named}
Accepted ==
    [k \in DOMAIN book \cup {o.id : o \in Named} |->
        IF k \in DOMAIN book THEN book[k]
        ELSE [row |-> job.what.text, status |-> "accepted"]]
Remembered ==
    Trimmed([m \in DOMAIN sent \cup {o.id : o \in Named} |->
        IF m \in DOMAIN sent THEN sent[m]
        ELSE [text |-> job.what.text, sends |-> job.what.sends, left |-> SentMemory,
              dids |-> (CHOOSE o \in Named : o.id = m).dids]])

\* Mutant: a re-send makes its copies too.
DeliverCopiesAgain ==
    /\ stage = "send" /\ job # None /\ job.sealed = <<>>
    /\ job' = None
    /\ rows' = rows \cup {job.what.text}
    /\ book' = IF job.item = None THEN Accepted ELSE Without(Accepted, {job.item.key})
    /\ sent' = Remembered
    /\ copied' = [copied EXCEPT ![job.what.text] = @ + 1]
    /\ stage' = IF job.item = None THEN "settle" ELSE "flush"
    /\ UNCHANGED <<waiting, marks, otk, known, wanted, keyreq, rekey, session, saved, flush,
                   wire, typed, lost, next, sessions, faults, restarts>>

\* deliver, after the last request: the row of a text that did not wait, the
\* sends, the memory for a re-send and the copies of a first send.
Deliver ==
    /\ stage = "send" /\ job # None /\ job.sealed = <<>>
    /\ job' = None
    /\ \E ok \in BOOLEAN :
          /\ Fault(ok)
          /\ job.item # None => ok
          /\ IF ok
             THEN /\ rows' = rows \cup {job.what.text}
                  /\ book' = IF job.item = None THEN Accepted
                             ELSE Without(Accepted, {job.item.key})
                  /\ sent' = Remembered
                  /\ copied' = IF job.what.sends = 1
                               THEN [copied EXCEPT ![job.what.text] = @ + 1] ELSE copied
             ELSE UNCHANGED <<rows, book, sent, copied>>
    /\ stage' = IF job.item = None THEN "settle" ELSE "flush"
    /\ UNCHANGED <<waiting, marks, otk, known, wanted, keyreq, rekey, session, saved, flush,
                   wire, typed, lost, next, sessions, restarts>>

-----------------------------------------------------------------------------
(***************************************************************************)
(* settle_engine: the end of every call of the worker, and the tick of the *)
(* engines.                                                                *)
(***************************************************************************)

\* Mutant: only the texts of a nick with keys are looked at.
SettleReadyOnly ==
    /\ stage = "settle"
    /\ queue' = IF Ready = {} THEN queue ELSE <<>>
    /\ flush' = [NoFlush EXCEPT !.taken = IF Ready = {} THEN <<>> ELSE queue]
    /\ stage' = IF queue = <<>> THEN "keys" ELSE "flush"
    /\ UNCHANGED <<pending, book, marks, saved, sent, otk, known, wanted, keyreq, rekey, session,
                   rows, job, ghost, next, limits>>

\* expire_queue, then take_matching of flush_queue: every item of a nick that
\* has keys is taken.
Settle ==
    /\ stage = "settle"
    /\ LET late == {queue[i].key : i \in {j \in DOMAIN queue : TooLate(queue[j])}}
           live == Retained(queue, {j \in DOMAIN queue : ~TooLate(queue[j])})
       IN  /\ pending' = Without(pending, late)
           /\ \E ok \in BOOLEAN : Fault(ok) /\ (late = {} => ok) /\ NoteDrops(late, ok)
           /\ queue' = IF Ready = {} THEN live ELSE <<>>
           /\ flush' = [NoFlush EXCEPT !.taken = IF Ready = {} THEN <<>> ELSE live]
           /\ stage' = IF live = <<>> THEN "keys" ELSE "flush"
    /\ UNCHANGED <<sent, otk, known, wanted, keyreq, rekey, session, rows, job, ghost, next,
                   sessions, restarts>>

\* The devices that a waiting text goes to now.
Entries(p) == IF p.did = None THEN Ready ELSE {p.did} \cap Ready

\* flush_queue, one item: the sends before it took time, so the deadline counts
\* again.
FlushItem ==
    /\ stage = "flush" /\ flush.taken # <<>>
    /\ LET item == Head(flush.taken)
           p == pending[item.key]
       IN  IF TooLate(item)
           THEN /\ pending' = Without(pending, {item.key})
                /\ \E ok \in BOOLEAN : Fault(ok) /\ NoteDrops({item.key}, ok)
                /\ flush' = [flush EXCEPT !.taken = Tail(@)]
                /\ UNCHANGED <<stage, job>>
           ELSE /\ UNCHANGED <<book, marks, saved, faults>>
                /\ IF Entries(p) = {}
                   THEN /\ flush' = [taken |-> Tail(flush.taken),
                                     retry |-> Append(flush.retry, item)]
                        /\ UNCHANGED <<pending, stage, job>>
                   ELSE /\ flush' = [flush EXCEPT !.taken = Tail(@)]
                        /\ pending' = Without(pending, {item.key})
                        /\ job' = Job(item, p, Entries(p))
                        /\ stage' = "send"
    /\ UNCHANGED <<queue, sent, otk, known, wanted, keyreq, rekey, session, rows, ghost, next,
                   sessions, restarts>>

\* flush_queue, the end: the others go back to the front with their deadline.
FlushEnd ==
    /\ stage = "flush" /\ flush.taken = <<>>
    /\ queue' = flush.retry \o queue
    /\ wanted' = (wanted \/ queue' # <<>>)
    /\ flush' = NoFlush
    /\ stage' = "keys"
    /\ UNCHANGED <<pending, book, sent, marks, otk, known, keyreq, rekey, disk, job, ghost, next, limits>>

\* take_keys_wanted and request_keys: the pacer may refuse, and no answer counts.
RequestKeys ==
    /\ stage = "keys"
    /\ stage' = "idle"
    /\ wanted' = FALSE
    /\ keyreq' = IF wanted /\ keyreq = 0 THEN KeyreqInterval ELSE keyreq
    /\ UNCHANGED <<waiting, book, sent, marks, otk, known, rekey, disk, flush, job, ghost, next, limits>>

\* tick_e2e_engines.
TickEngines ==
    /\ stage = "idle" /\ queue # <<>>
    /\ stage' = "settle"
    /\ UNCHANGED <<engine, disk, flush, job, ghost, next, limits>>

-----------------------------------------------------------------------------
(***************************************************************************)
(* What reaches the engine from outside.                                   *)
(***************************************************************************)

\* accept_keys: a KEYS row with a fresh one-time key of a trusted device.
KeysRow(d) ==
    /\ stage = "idle" /\ sessions < MaxSessions
    /\ sessions' = sessions + 1
    /\ otk' = [otk EXCEPT ![d] = sessions + 1] /\ known' = known \cup {d}
    /\ stage' = "settle"
    /\ UNCHANGED <<waiting, book, sent, marks, wanted, keyreq, rekey, disk, flush, job,
                   ghost, next, faults, restarts>>

\* set_inbound: the peer answers on the session, or starts a new one that takes
\* its place and names the device.
PeerMessage(d) ==
    /\ stage = "idle"
    /\ \/ /\ session[d] # NoSession /\ ~session[d].received
          /\ session' = [session EXCEPT ![d].received = TRUE]
          /\ UNCHANGED <<known, sessions>>
       \/ /\ sessions < MaxSessions
          /\ known' = known \cup {d}
          /\ sessions' = sessions + 1
          /\ session' = [session EXCEPT ![d] = [id |-> sessions + 1, n |-> 0, received |-> TRUE]]
    /\ stage' = "settle"
    /\ UNCHANGED <<waiting, book, sent, marks, otk, wanted, keyreq, rekey, rows, saved, flush, job,
                   ghost, next, faults, restarts>>

\* Mutant: the limit is off by one.
SpentLater(record) == record.sends > MaxSends

\* A text that went out as often as it may.
Spent(record) == record.sends >= MaxSends

\* The re-send of a NACK: the session goes, the text waits for fresh keys.
Requeue(m, record, from, ok) ==
    /\ rekey' = RekeyInterval
    /\ session' = [session EXCEPT ![from] = NoSession]
    /\ next' = next + 1
    /\ IF Len(queue) >= QueueMax
       THEN /\ NoteDrops({m}, ok)
            /\ UNCHANGED <<waiting, wanted>>
       ELSE /\ ok
            /\ queue' = Pushed(next)
            /\ book' = Started(book, next, record.text)
            /\ pending' = Put(pending, next, Waiting(record.text, record.sends + 1, from))
            /\ wanted' = TRUE
            /\ UNCHANGED <<marks, saved>>

\* The device of a NACK loses its right to another one.
NackUsed(s, m, from) ==
    IF s[m].dids = {from} THEN Without(s, {m}) ELSE [s EXCEPT ![m].dids = @ \ {from}]

\* on_nack.
OnNack(m, from) ==
    /\ stage = "idle"
    /\ stage' = "settle"
    /\ LET s == Trimmed(sent) IN
       \E ok, removed \in BOOLEAN :
          /\ Fault(ok /\ removed)
          /\ CASE m \notin DOMAIN s \/ (m \in DOMAIN s /\ from \in Device \ s[m].dids) ->
                    /\ ok /\ removed
                    /\ sent' = s
                    /\ UNCHANGED <<waiting, wanted, rekey, session, book, marks, saved, next>>
               [] m \in DOMAIN s /\ from \notin Device ->
                    /\ removed
                    /\ sent' = Without(s, {m})
                    /\ NoteDrops({m}, ok)
                    /\ UNCHANGED <<waiting, wanted, rekey, session, next>>
               [] m \in DOMAIN s /\ from \in s[m].dids ->
                    /\ sent' = NackUsed(s, m, from)
                    /\ IF Spent(s[m]) \/ rekey > 0 \/ ~removed
                       THEN /\ removed <=> (Spent(s[m]) \/ rekey > 0)
                            /\ rekey' = IF removed THEN rekey ELSE RekeyInterval
                            /\ NoteDrops({m}, ok)
                            /\ UNCHANGED <<waiting, wanted, session, next>>
                       ELSE Requeue(m, s[m], from, ok)
    /\ UNCHANGED <<otk, known, keyreq, rows, flush, job, ghost, sessions, restarts>>

\* apply_send_dropped: an e2e_send_dropped event of the relay.
SendDropped(k) ==
    /\ stage = "idle" /\ Open({k}) # {}
    /\ \E ok \in BOOLEAN : Fault(ok) /\ NoteDrops({k}, ok)
    /\ UNCHANGED <<waiting, sent, otk, known, wanted, keyreq, rekey, session, rows, worker, ghost,
                   next, sessions, restarts>>

\* no_such_nick: what waits for keys fails, and the pacers start afresh.
NoSuchNick ==
    /\ stage = "idle"
    /\ keyreq' = 0 /\ rekey' = 0 /\ wanted' = FALSE
    /\ queue' = Retained(queue, {i \in DOMAIN queue : queue[i].key \notin DOMAIN pending})
    /\ pending' = <<>>
    /\ \E ok \in BOOLEAN :
          /\ Fault(ok) /\ (pending = <<>> => ok)
          /\ NoteDrops(DOMAIN pending, ok)
    /\ UNCHANGED <<sent, otk, known, session, rows, worker, ghost, next, sessions, restarts>>

\* Mutant: the queue is cleared and the book is not asked.
EndSessionSilent ==
    /\ stage = "idle"
    /\ queue' = <<>> /\ pending' = <<>> /\ sent' = <<>>
    /\ UNCHANGED <<book, marks, otk, known, wanted, keyreq, rekey, disk, worker, ghost, next, limits>>

\* end_session: the connection is gone, and every open send with it.
EndSession ==
    /\ stage = "idle"
    /\ queue' = <<>> /\ pending' = <<>> /\ sent' = <<>>
    /\ \E ok \in BOOLEAN :
          /\ Fault(ok) /\ (Open(DOMAIN book) = {} => ok)
          /\ NoteDrops(DOMAIN book, ok)
    /\ UNCHANGED <<otk, known, wanted, keyreq, rekey, session, rows, worker, ghost, next,
                   sessions, restarts>>

\* Mutant: a timer runs past its end.
SoonerPastEnd(n) == n - 1

\* Time passes, also while the worker waits for the relay.
Sooner(n) == IF n = 0 THEN 0 ELSE n - 1
Aged(items) == [i \in DOMAIN items |-> [items[i] EXCEPT !.left = Sooner(@)]]
Tick ==
    /\ queue' = Aged(queue)
    /\ flush' = [taken |-> Aged(flush.taken), retry |-> Aged(flush.retry)]
    /\ job' = IF job = None THEN None
              ELSE IF job.item = None THEN job ELSE [job EXCEPT !.item.left = Sooner(@)]
    /\ sent' = [m \in DOMAIN sent |-> [sent[m] EXCEPT !.left = Sooner(@)]]
    /\ keyreq' = Sooner(keyreq) /\ rekey' = Sooner(rekey)
    /\ <<queue, flush, job, sent, keyreq, rekey>>' # <<queue, flush, job, sent, keyreq, rekey>>
    /\ UNCHANGED <<pending, book, marks, otk, known, wanted, disk, stage, ghost, next, limits>>

\* The program stops and starts again: the disk stays.
Restart ==
    /\ restarts > 0 /\ restarts' = restarts - 1
    /\ lost' = lost \cup {pending[k].text : k \in DOMAIN pending}
                    \cup (marks \ saved)
                    \cup (IF job = None \/ job.item = None THEN {} ELSE {job.what.text})
    /\ queue' = <<>> /\ pending' = <<>> /\ book' = <<>> /\ sent' = <<>>
    /\ marks' = saved
    /\ otk' = [d \in Device |-> 0] /\ known' = {}
    /\ wanted' = FALSE /\ keyreq' = 0 /\ rekey' = 0
    /\ stage' = "idle" /\ flush' = NoFlush /\ job' = None
    /\ UNCHANGED <<disk, wire, copied, typed, next, sessions, faults>>

-----------------------------------------------------------------------------
EmitStep == EmitAccepted \/ EmitRefused \/ EmitLost \/ EmitUnsaved \/ TooLarge
WorkerStep == EmitStep \/ Deliver \/ Settle \/ FlushItem \/ FlushEnd \/ RequestKeys
Event ==
    \/ \E t \in Text : SendOrQueue(t)
    \/ \E d \in Device : KeysRow(d) \/ PeerMessage(d)
    \/ \E m \in DOMAIN wire, from \in Device \cup {Wildcard, Stranger} : OnNack(m, from)
    \/ \E k \in DOMAIN wire : SendDropped(k)
    \/ NoSuchNick
    \/ EndSession

Next == WorkerStep \/ TickEngines \/ Event \/ Tick \/ Restart

Spec == Init /\ [][Next]_vars

\* The worker goes on with the call it is in, its timer of 15 s comes, and time
\* passes.
FairSpec == Spec /\ WF_vars(WorkerStep) /\ WF_vars(TickEngines) /\ WF_vars(Tick)

-----------------------------------------------------------------------------
(***************************************************************************)
(* Properties.                                                             *)
(***************************************************************************)

Item == [key : SendKey, left : Nat]
PendingText == [text : Text, sends : 1 .. MaxSends, did : Device \cup {None}]
OlmSession == [id : Nat, n : Nat, received : BOOLEAN]
Request == [id : SendKey, named : BOOLEAN, dids : SUBSET Device]
SendJob == [item : Item \cup {None}, what : PendingText,
            sealed : UNION {[ds -> OlmSession] : ds \in SUBSET Device}, out : SUBSET Request]

\* None is the value of no item and of no send.
ASSUME NoneIsApart == None \notin Item \cup SendJob

\* The queue, the book, the memory of the sends, the sessions and the worker
\* keep their types.
TypeOK ==
    /\ queue \in Seq(Item)
    /\ DOMAIN pending \subseteq SendKey
    /\ \A k \in DOMAIN pending : pending[k] \in PendingText
    /\ DOMAIN book \subseteq SendKey
    /\ \A k \in DOMAIN book :
          book[k] \in [row : Text, status : {"pending", "accepted", "dropped"}]
    /\ DOMAIN sent \subseteq DOMAIN wire
    /\ \A m \in DOMAIN sent :
          sent[m] \in [text : Text, sends : 1 .. MaxSends, left : Nat, dids : SUBSET Device]
    /\ marks \subseteq Text /\ saved \subseteq Text
    /\ otk \in [Device -> Nat] /\ known \subseteq Device /\ session \in [Device -> OlmSession]
    /\ wanted \in BOOLEAN /\ keyreq \in Nat /\ rekey \in Nat
    /\ rows \subseteq Text /\ typed \subseteq Text /\ lost \subseteq Text
    /\ stage \in {"idle", "settle", "flush", "send", "keys"}
    /\ flush \in [taken : Seq(Item), retry : Seq(Item)]
    /\ stage = "send" <=> job # None
    /\ job # None =>
          /\ job.item \in Item \cup {None} /\ job.what \in PendingText
          /\ DOMAIN job.sealed \subseteq Device /\ job.out \subseteq Request
    /\ \A m \in DOMAIN wire : wire[m].text \in Text /\ DOMAIN wire[m].body \subseteq Device
    /\ next \in SendKey /\ sessions \in 0 .. MaxSessions

Waits(t) ==
    \/ \E k \in DOMAIN pending : pending[k].text = t
    \/ job # None /\ job.item # None /\ job.what.text = t

OnTheWire(t) == \E m \in DOMAIN wire : wire[m].text = t

InQueue == queue \o flush.taken \o flush.retry

\* The queue and the pending texts name the same sends, each one once, and the
\* book has each of them as pending, through a flush whose items fail, come back
\* or go out (queue_text, flush_queue, on_nack, settle_late, no_such_nick).
QueueBacked ==
    /\ DOMAIN pending = Keys(InQueue)
    /\ \A i, j \in DOMAIN InQueue : InQueue[i].key = InQueue[j].key => i = j
    /\ \A k \in DOMAIN pending :
          k \in DOMAIN book /\ book[k] = [row |-> pending[k].text, status |-> "pending"]
    /\ (job # None /\ job.item # None) =>
          /\ job.item.key \in DOMAIN book \ DOMAIN pending
          /\ book[job.item.key].status = "pending"

\* A row that the user sees is a text that went out, that still waits, or that
\* carries a drop mark, unless it waited, or its mark was not saved, when the
\* program stopped (note_drops, end_session, fail_send).
UnsentIsShown ==
    \A t \in rows : OnTheWire(t) \/ Waits(t) \/ t \in marks \cup lost

\* No device gets a text more than MAX_SENDS times, whatever NACKs come, come
\* twice or come late, and whatever requests are repeated (on_nack, flush_queue).
AtMostTwice ==
    \A x \in DOMAIN wire : \A d \in DOMAIN wire[x].body :
        Cardinality({m \in DOMAIN wire : wire[m].text = wire[x].text /\ d \in DOMAIN wire[m].body})
            <= MaxSends

\* The relay never gets two messages of one step of one Olm session, and no
\* one-time key starts two sessions: a lost answer, a failed write and a restart
\* may skip a message and never repeat one (seal, emit_group).
OlmNotReused ==
    \A m, x \in DOMAIN wire : m # x =>
        \A d \in DOMAIN wire[m].body \cap DOMAIN wire[x].body :
            wire[m].body[d] # wire[x].body[d]

\* The other devices of the account get one copy of a text, and only of a text
\* that the relay took (deliver, queue_copies).
CopiedOnce ==
    \A t \in DOMAIN copied : copied[t] <= 1 /\ (copied[t] = 1 => OnTheWire(t))

\* The queue, the pending texts and the book name the same sends, and no text
\* that did not go out looks as if it had (flush_queue, note_drops, end_session).
SendSound == QueueBacked /\ UnsentIsShown

\* A device gets a text at most MAX_SENDS times, and the own devices get one
\* copy of it, whatever NACKs, lost answers and new sessions come.
SentOnce == AtMostTwice /\ CopiedOnce
=============================================================================
