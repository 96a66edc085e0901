-------------------------------- MODULE Inbox --------------------------------
(***************************************************************************)
(* The receiving half of the encrypted messages, with both ends of one     *)
(* pair of devices: handle_row, drain and ack of e2e_engine.rs, the sealed *)
(* history and state it writes (e2e_store.rs, e2e_state.rs), the replay    *)
(* memory (e2e_peer.rs), the copies for a sibling device (send_copies) and *)
(* the worker that calls them (drain_network, read_e2e_row, send_copies of *)
(* e2e_runtime.rs).                                                        *)
(*                                                                         *)
(* The two ends are devices of two people, or two devices of one account.  *)
(* In the second case every row is a copy and the own signed list decides  *)
(* who is a sibling.  The trust checks of a peer are those of PeerTrust,   *)
(* and the fate of a typed text before it leaves is that of SendQueue.     *)
(*                                                                         *)
(* An Olm session is its two counters: the messages an end wrote in it and *)
(* the ones it read.  An end holds one session with the other end.         *)
(***************************************************************************)
EXTENDS Integers, Sequences, FiniteSets, SequencesExt, TLC

CONSTANTS
    End,            \* the two devices
    Text,           \* the texts
    Author,         \* [Text -> End]: the device that writes a text
    CopiedText,     \* the texts that are copied to a sibling
    Fallback,       \* the sessions that take the fallback key, by their number
    Relations,      \* subset of {"peer", "own"}: who the two ends may be
    MaxTries,       \* MAX_SENDS
    PageMax,        \* INBOX_PAGE_MAX
    ReplayWindow,   \* REPLAY_WINDOW
    JobMax,         \* OUTGOING_QUEUE_MAX, for the copies
    Lists,          \* the versions of the own list: 1 .. Lists
    MaxRows,        \* bound: rows that the relay makes
    MaxSessions,    \* bound: sessions that are opened
    MaxFaults,      \* bound: failed writes and calls, repeated rows
    MaxRestarts     \* bound: stops of the program and deleted conversations

ASSUME InboxConstants ==
    /\ \E d, e \in End : d # e /\ End = {d, e}
    /\ Author \in [Text -> End]
    /\ Relations \subseteq {"peer", "own"} /\ CopiedText \subseteq Text
    /\ Fallback \subseteq Nat
    /\ MaxTries \in Nat \ {0} /\ PageMax \in Nat \ {0}
    /\ ReplayWindow \in Nat \ {0} /\ JobMax \in Nat \ {0} /\ Lists \in Nat \ {0}
    /\ MaxRows \in Nat /\ MaxSessions \in Nat /\ MaxFaults \in Nat /\ MaxRestarts \in Nat

VARIABLES
    own,        \* the two ends are devices of one account
    \* The disk of an end.
    session,    \* the Olm session with the other end, or NoSession
    spent,      \* the sessions whose one-time key is gone from the account
    first,      \* ReplayState.first_messages: msgids, oldest first
    made,       \* ReplayState.sessions: session ids, oldest first
    history,    \* the rows of the conversation: the row id and the text
    list,       \* the version of the own signed list
    torn,       \* the history file ends in half a record
    \* The memory of an end.
    seen,       \* the rows that were handled
    tries,      \* stale_tries
    jobs,       \* copy_jobs: the texts that wait for their copy, with their tries
    call,       \* the call of the engine that is under way
    \* The relay.
    inbox,      \* the rows that are not acknowledged
    events,     \* the pushed rows that an end has not read yet
    published,  \* the version of the list that the server holds
    rows,       \* every row made so far
    opened,     \* the end that opened a session, for every session so far
    \* The history of the run.
    queued,     \* the texts whose copy was queued
    sent,       \* the texts that left for an end
    refused,    \* the copies refused for good because of the list
    reread,     \* the copies for which the list was read after a stale try
    deleted,    \* the user deleted the conversation
    cut,        \* the rows whose text an end wrote before the write of the state failed
    faults, restarts

disk == <<session, spent, first, made, history, torn>>
relay == <<inbox, events, rows>>
limits == <<faults, restarts, deleted, cut>>
vars == <<own, disk, list, seen, tries, jobs, call, relay, published, opened,
          queued, sent, refused, reread, limits>>

Other(d) == CHOOSE e \in End : e # d
NoSession == [id |-> 0, written |-> 0, read |-> {}, heard |-> FALSE]
Idle == [at |-> "idle", via |-> "none", rows |-> {}, acks |-> {}, stale |-> {},
         after |-> 0, full |-> FALSE, round |-> 1]

\* The list of a version names the ends that hold a certificate of it: the
\* first list is that of the first device alone.
Listed(d, version) == version > 1 \/ d = CHOOSE e \in End : TRUE

Init ==
    /\ own \in {r = "own" : r \in Relations}
    /\ session = [d \in End |-> NoSession] /\ spent = [d \in End |-> {}]
    /\ first = [d \in End |-> << >>] /\ made = [d \in End |-> << >>]
    /\ history = [d \in End |-> << >>] /\ torn = [d \in End |-> FALSE]
    /\ list = [d \in End |-> IF Listed(d, 1) THEN 1 ELSE 2]
    /\ published = 2
    /\ seen = [d \in End |-> {}] /\ tries = [d \in End |-> [r \in 1 .. MaxRows |-> 0]]
    /\ jobs = [d \in End |-> << >>] /\ call = [d \in End |-> Idle]
    /\ inbox = [d \in End |-> {}] /\ events = [d \in End |-> {}]
    /\ rows = << >> /\ opened = << >>
    /\ queued = {} /\ sent = [d \in End |-> {}] /\ refused = {} /\ reread = {}
    /\ deleted = [d \in End |-> FALSE] /\ cut = [d \in End |-> {}]
    /\ faults = 0 /\ restarts = 0

Fault == faults < MaxFaults /\ faults' = faults + 1
NoFault == UNCHANGED faults

\* A device reads the rows of a page without a wait between them, and the
\* other end shares nothing with it but the relay: their steps in between
\* would give the same states.
Quiet(d) == \A e \in End \ {d} : call[e].rows = {}

At(d, where) == call[d].at = where /\ ~torn[d] /\ Quiet(d)

-----------------------------------------------------------------------------
(* Sending: one Olm message in the session, which is saved before the call. *)

\* seal and copy_to: the session with its next message, or a new one.
Sealed(d) ==
    IF session[d] # NoSession
    THEN [session[d] EXCEPT !.written = @ + 1]
    ELSE [NoSession EXCEPT !.id = Len(opened) + 1, !.written = 1]

\* A new session takes a one-time key of the other end, or its fallback key,
\* which the account keeps.  A sibling's key is taken only when the server
\* shows the list that this end holds.
Opens(d) ==
    IF session[d] # NoSession
    THEN UNCHANGED opened
    ELSE /\ Len(opened) < MaxSessions /\ (own => list[d] = published)
         /\ opened' = Append(opened, d)

\* The row that the relay makes of a message; a pre-key message is one of a
\* session that has not received anything.
Row(d, s, t) ==
    [to |-> Other(d), sid |-> s.id, n |-> s.written, pre |-> ~s.heard, text |-> t,
     lv |-> list[d], msgid |-> Len(rows) + 1]

\* The relay takes the message and pushes it to the device, or the call fails.
Deliver(d, s, t, taken) ==
    IF taken
    THEN /\ Len(rows) < MaxRows
         /\ rows' = Append(rows, Row(d, s, t))
         /\ inbox' = [inbox EXCEPT ![Other(d)] = @ \cup {Len(rows) + 1}]
         /\ \E pushed \in BOOLEAN :
              events' = IF pushed THEN [events EXCEPT ![Other(d)] = @ \cup {Len(rows) + 1}]
                                  ELSE events
         /\ sent' = [sent EXCEPT ![Other(d)] = @ \cup {t}]
    ELSE UNCHANGED <<rows, inbox, events, sent>>

\* send_text of a peer text: seal, save the session, send.
SendText(d, t) ==
    /\ ~own /\ At(d, "idle") /\ Author[t] = d /\ t \notin sent[Other(d)]
    /\ Opens(d)
    /\ session' = [session EXCEPT ![d] = Sealed(d)]
    /\ \E taken \in BOOLEAN :
         /\ Deliver(d, Sealed(d), t, taken)
         /\ IF taken THEN NoFault ELSE Fault
    /\ UNCHANGED <<own, queued, spent, first, made, history, torn, list, seen, tries, jobs, call,
                   published, refused, reread, restarts, deleted, cut>>

\* The oldest job makes room for a new one.
WithRoom(queue) == IF Len(queue) >= JobMax THEN Tail(queue) ELSE queue

\* queue_copies, after the text was accepted by the relay of its peer. 
\* Without a sibling there is no job.
QueueCopies(d, t) ==
    /\ own /\ At(d, "idle") /\ Author[t] = d /\ t \in CopiedText \ queued
    /\ queued' = queued \cup {t}
    /\ Listed(Other(d), list[d])
    /\ jobs' = [jobs EXCEPT ![d] = Append(WithRoom(@), [text |-> t, tries |-> 0])]
    /\ call' = [call EXCEPT ![d] = [Idle EXCEPT !.at = "copies", !.after = 1]]
    /\ UNCHANGED <<own, disk, list, seen, tries, relay, published, opened, sent, refused,
                   reread, limits>>

\* The job that send_copies is at.
Job(d) == jobs[d][call[d].after]

\* The job is done; the next one takes its place.
JobDone(d) == [jobs EXCEPT ![d] = RemoveAt(@, call[d].after)]

\* The call of the job failed: it stays for one more run, then it is dropped.
JobFailed(d) ==
    IF Job(d).tries + 1 >= MaxTries
    THEN JobDone(d)
    ELSE [jobs EXCEPT ![d][call[d].after].tries = @ + 1]

NextJob(d) == [call EXCEPT ![d].after = @ + 1 - (Len(jobs[d]) - Len(jobs'[d]))]

\* copy_to: the copy goes out; its answer comes, or is lost on the way back,
\* or the call never reaches the relay.
CopyTo(d) ==
    /\ At(d, "copies") /\ call[d].after <= Len(jobs[d])
    /\ Opens(d)
    /\ session' = [session EXCEPT ![d] = Sealed(d)]
    /\ \E end \in {"ok", "answer lost", "failed"} :
         /\ Deliver(d, Sealed(d), Job(d).text, end # "failed")
         /\ IF end = "ok" THEN NoFault /\ jobs' = JobDone(d)
                          ELSE Fault /\ jobs' = JobFailed(d)
    /\ call' = NextJob(d)
    /\ UNCHANGED <<own, queued, spent, first, made, history, torn, list, seen, tries, published,
                   refused, reread, restarts, deleted, cut>>

\* claim_sibling_key shows another version of the list than the own one: the
\* run stops before the other jobs, the own list is read again and the jobs
\* run once more.
CopyNeedsSync(d) ==
    /\ At(d, "copies") /\ call[d].after <= Len(jobs[d])
    /\ session[d] = NoSession /\ list[d] # published
    /\ jobs' = JobFailed(d)
    /\ call' = [call EXCEPT ![d] = IF @.round = 1 THEN [@ EXCEPT !.after = 1, !.round = 2]
                                                  ELSE Idle]
    /\ \E read \in BOOLEAN :
         /\ list' = IF read THEN [list EXCEPT ![d] = published] ELSE list
         /\ IF read THEN NoFault ELSE Fault
    /\ UNCHANGED <<own, queued, disk, seen, tries, relay, published, opened, sent, refused, reread,
                   restarts, deleted, cut>>

\* The relay refuses the copy for good, no key is left, or the copy is past
\* its lifetime.
CopyDropped(d) ==
    /\ At(d, "copies") /\ call[d].after <= Len(jobs[d])
    /\ jobs' = JobDone(d)
    /\ UNCHANGED <<own, queued, disk, list, seen, tries, call, relay, published, opened, sent,
                   refused, reread, limits>>

CopiesEnd(d) ==
    /\ At(d, "copies") /\ call[d].after > Len(jobs[d])
    /\ call' = [call EXCEPT ![d] = Idle]
    /\ UNCHANGED <<own, queued, disk, list, seen, tries, jobs, relay, published, opened, sent,
                   refused, reread, limits>>

-----------------------------------------------------------------------------
(* Reading one row. *)

\* Mutant: the memory keeps one id too many.
RecordedOneMore(ids, id) ==
    IF Len(ids) > ReplayWindow THEN Append(Tail(ids), id) ELSE Append(ids, id)

\* record of e2e_peer.rs: the newest ReplayWindow ids.
Recorded(ids, id) ==
    IF Len(ids) >= ReplayWindow THEN Append(Tail(ids), id) ELSE Append(ids, id)

Heard(s, n) == [s EXCEPT !.read = @ \cup {n}, !.heard = TRUE]

\* decrypt_row of a pkmsg: a message of the session that exists is opened
\* with it; any other makes a session, which takes the one-time key from the
\* account.  A repeated msgid or session id is a replay.
OpenedPreKey(d, r) ==
    LET msgids == Recorded(first[d], r.msgid)
        same == session[d].id = r.sid
        keyLeft == r.sid \notin spent[d] \/ r.sid \in Fallback
    IN  IF r.msgid \in ToSet(first[d])
           \/ (same /\ r.n \in session[d].read)
           \/ (~same /\ (~keyLeft \/ r.sid \in ToSet(made[d])))
        THEN {}
        ELSE {[session |-> IF same THEN Heard(session[d], r.n)
                                   ELSE Heard([NoSession EXCEPT !.id = r.sid], r.n),
               spent |-> IF same THEN spent[d] ELSE spent[d] \cup {r.sid},
               made |-> IF same THEN made[d] ELSE Recorded(made[d], r.sid),
               first |-> msgids]}

\* decrypt_row of a msg: only the stored session reads it, and each once.
OpenedNormal(d, r) ==
    IF session[d].id # r.sid \/ r.n \in session[d].read THEN {}
    ELSE {[session |-> Heard(session[d], r.n), spent |-> spent[d], made |-> made[d],
           first |-> first[d]]}

\* decrypt_row: what a row gives, or nothing.  It changes no stored state.
DecryptRow(d, r) == IF r.pre THEN OpenedPreKey(d, r) ELSE OpenedNormal(d, r)

\* The id of the history row: that of the inbox row, or of the copied text.
HistoryId(i) == IF own THEN <<"own", rows[i].text>> ELSE <<"in", i>>

\* Mutant: a row is appended without a look at the history.
StoredNever(d, id) == FALSE

Stored(d, id) == \E k \in DOMAIN history[d] : history[d][k].id = id

\* stale_or_refuse: a copy waits for a newer own list, MaxTries - 1 times.
StaleOrRefuse(d, i, out) ==
    /\ tries' = [tries EXCEPT ![d][i] = @ + 1]
    /\ out = IF tries[d][i] + 1 < MaxTries THEN "StaleList" ELSE "Undecryptable"
    /\ refused' = IF out = "StaleList" THEN refused ELSE refused \cup {i}
    /\ NoFault /\ UNCHANGED <<session, spent, first, made, history, cut>>

\* set_inbound: the session, the account and the replay state in one write.
SetInbound(d, new) ==
    /\ session' = [session EXCEPT ![d] = new.session]
    /\ spent' = [spent EXCEPT ![d] = new.spent]
    /\ made' = [made EXCEPT ![d] = new.made]
    /\ first' = [first EXCEPT ![d] = new.first]

\* store_decrypted: the row is in the history before the state is saved.
StoreDecrypted(d, i, new, out) ==
    LET id == HistoryId(i)
        with == IF Stored(d, id) THEN history
                ELSE [history EXCEPT ![d] = Append(@, [id |-> id, text |-> rows[i].text])]
    IN  /\ UNCHANGED <<tries, refused>>
        /\ \/ /\ out = "Stored" /\ NoFault
              /\ history' = with /\ SetInbound(d, new)
              /\ UNCHANGED cut
           \/ /\ out = "StoreFailed" /\ Fault
              /\ \/ history' = with /\ cut' = [cut EXCEPT ![d] = @ \cup {i}]
                 \/ UNCHANGED <<history, cut>>
              /\ UNCHANGED <<session, spent, first, made>>

Unreadable(out) ==
    /\ out = "Undecryptable"
    /\ NoFault /\ UNCHANGED <<session, spent, first, made, history, tries, refused, cut>>

\* receive_message and receive_copy.  An unlisted sender, and one with a newer
\* list, may mean that the own list is behind.
ReceiveMessage(d, i, out) ==
    LET r == rows[i]
        plain == DecryptRow(d, r)
    IN  IF own /\ ~Listed(Other(d), list[d]) THEN StaleOrRefuse(d, i, out)
        ELSE IF plain = {} THEN Unreadable(out)
        ELSE IF own /\ r.lv > list[d] THEN StaleOrRefuse(d, i, out)
        ELSE \E new \in plain : StoreDecrypted(d, i, new, out)

\* Mutant: a row whose write failed is acknowledged.
AcknowledgedUnwritten(out) == out # "StaleList"

Acknowledged(out) == out \notin {"StoreFailed", "StaleList"}

\* handle_row: a handled row is not read twice.
HandleRow(d, i, out) ==
    IF i \in seen[d]
    THEN /\ out = "Duplicate" /\ NoFault
         /\ UNCHANGED <<session, spent, first, made, history, tries, refused, seen, cut>>
    ELSE /\ ReceiveMessage(d, i, out)
         /\ seen' = IF Acknowledged(out) THEN [seen EXCEPT ![d] = @ \cup {i}] ELSE seen

-----------------------------------------------------------------------------
(* The calls of the worker. *)

\* settle_engine, at the end of every call: the copies that still wait get
\* their next run.
Settled(d) ==
    IF jobs[d] = << >> THEN Idle ELSE [Idle EXCEPT !.at = "copies", !.after = 1]

\* A page has the oldest rows.
FirstPage(ids) == {i \in ids : Cardinality({j \in ids : j < i}) < PageMax}

\* Mutant: the rows that were handled already are left out.
PageUnseen(d, after) == FirstPage({i \in inbox[d] \ seen[d] : i > after})

\* The page of rows behind `after`.
Page(d, after) == FirstPage({i \in inbox[d] : i > after})

Fetched(d, c) ==
    LET page == Page(d, c.after)
    IN  IF page = {} THEN Settled(d)
        ELSE [c EXCEPT !.at = "rows", !.rows = page, !.acks = {}, !.stale = {},
                       !.after = CHOOSE i \in page : \A j \in page : j <= i,
                       !.full = Cardinality(page) = PageMax]

\* drain_network, when the session connects.
StartDrain(d) ==
    /\ At(d, "idle") /\ inbox[d] # {}
    /\ call' = [call EXCEPT ![d] = Fetched(d, [Idle EXCEPT !.via = "drain"])]
    /\ UNCHANGED <<own, queued, disk, list, seen, tries, jobs, relay, published, opened, sent,
                   refused, reread, limits>>

\* read_e2e_row: one pushed row.
StartEvent(d) ==
    /\ At(d, "idle")
    /\ \E i \in events[d] :
         /\ events' = [events EXCEPT ![d] = @ \ {i}]
         /\ call' = [call EXCEPT ![d] = [Idle EXCEPT !.at = "rows", !.via = "event",
                                                     !.rows = {i}, !.after = i]]
    /\ UNCHANGED <<own, queued, disk, list, seen, tries, jobs, inbox, rows, published, opened, sent,
                   refused, reread, limits>>

\* The rows of the call, one after the other, the oldest first.  A copy that waits for the list
\* ends the page.  An event of a handled row is not acknowledged again.
ReadRow(d) ==
    LET c == call[d]
    IN  /\ At(d, "rows")
        /\ \E i \in c.rows, out \in {"Stored", "StoreFailed", "StaleList", "Undecryptable", "Duplicate"} :
             /\ \A j \in c.rows : i <= j
             /\ HandleRow(d, i, out)
             /\ call' = [call EXCEPT ![d] =
                  [c EXCEPT !.rows = IF out = "StaleList" THEN {} ELSE @ \ {i},
                            !.stale = IF out = "StaleList" THEN {i} ELSE @,
                            !.acks = IF Acknowledged(out)
                                        /\ (out = "Duplicate" => c.via = "drain")
                                     THEN @ \cup {i} ELSE @]]
        /\ UNCHANGED <<own, queued, torn, list, jobs, relay, published, opened, sent, reread,
                       restarts, deleted>>

\* What follows the acknowledgement: the read of the list for a copy that
\* waits, the page behind a full one, or the end of the call.
AfterAck(d, c) ==
    IF c.stale # {} THEN [c EXCEPT !.at = "sync"]
    ELSE IF c.full THEN Fetched(d, c)
    ELSE Settled(d)

\* ack: the handled rows leave the inbox.
AckRows(d) ==
    LET c == call[d]
    IN  /\ At(d, "rows") /\ c.rows = {}
        /\ inbox' = [inbox EXCEPT ![d] = @ \ c.acks]
        /\ call' = [call EXCEPT ![d] = [AfterAck(d, c) EXCEPT !.acks = {}]]
        /\ UNCHANGED <<own, queued, disk, list, seen, tries, jobs, events, rows, published, opened,
                       sent, refused, reread, limits>>

\* The acknowledgement fails and ends the call.
AckFails(d) ==
    /\ At(d, "rows") /\ call[d].rows = {} /\ call[d].acks # {}
    /\ Fault
    /\ call' = [call EXCEPT ![d] = Settled(d)]
    /\ UNCHANGED <<own, queued, disk, list, seen, tries, jobs, relay, published, opened, sent,
                   refused, reread, restarts, deleted, cut>>

\* sync_own_list for the copy that waits; the rows are read once more.
SyncOwnList(d) ==
    LET c == call[d]
        again == [c EXCEPT !.round = 2, !.stale = {}, !.acks = {}]
    IN  /\ At(d, "sync")
        /\ list' = [list EXCEPT ![d] = published]
        /\ reread' = reread \cup c.stale
        /\ call' = [call EXCEPT ![d] =
             IF c.round = 2 THEN Settled(d)
             ELSE IF c.via = "event" THEN [again EXCEPT !.at = "rows", !.rows = {c.after}]
             ELSE Fetched(d, [again EXCEPT !.after = 0])]
        /\ UNCHANGED <<own, queued, disk, seen, tries, jobs, relay, published, opened, sent, refused,
                       limits>>

\* The list was not read: release_stale_try gives the try back.
SyncFails(d) ==
    /\ At(d, "sync")
    /\ Fault
    /\ tries' = [tries EXCEPT ![d] =
         [i \in DOMAIN @ |-> IF i \in call[d].stale THEN @[i] - 1 ELSE @[i]]]
    /\ call' = [call EXCEPT ![d] = Settled(d)]
    /\ UNCHANGED <<own, queued, disk, list, seen, jobs, relay, published, opened, sent, refused,
                   reread, restarts, deleted, cut>>

-----------------------------------------------------------------------------
(* What happens to an end, and what the relay and the account do. *)

Forgotten(d) ==
    /\ seen' = [seen EXCEPT ![d] = {}] /\ events' = [events EXCEPT ![d] = {}]
    /\ tries' = [tries EXCEPT ![d] = [i \in DOMAIN @ |-> 0]]
    /\ jobs' = [jobs EXCEPT ![d] = << >>] /\ call' = [call EXCEPT ![d] = Idle]
    /\ restarts < MaxRestarts /\ restarts' = restarts + 1

\* The program stops and starts again.
Restart(d) ==
    /\ ~torn[d] /\ Quiet(d)
    /\ Forgotten(d)
    /\ UNCHANGED <<own, queued, disk, list, inbox, rows, published, opened, sent, refused, reread,
                   faults, deleted, cut>>

\* The program stops inside append_record: the file ends in half a record and
\* is not opened again.
TornAppend(d) ==
    /\ At(d, "rows")
    /\ \E i \in call[d].rows :
         /\ \A j \in call[d].rows : i <= j
         /\ i \notin seen[d] /\ DecryptRow(d, rows[i]) # {} /\ ~Stored(d, HistoryId(i))
         /\ own => Listed(Other(d), list[d]) /\ rows[i].lv <= list[d]
    /\ torn' = [torn EXCEPT ![d] = TRUE]
    /\ Forgotten(d)
    /\ UNCHANGED <<own, queued, session, spent, first, made, history, list, inbox, rows, published,
                   opened, sent, refused, reread, faults, deleted, cut>>

\* The user deletes the rows of the conversation.
DeleteConversation(d) ==
    /\ At(d, "idle") /\ history[d] # << >>
    /\ history' = [history EXCEPT ![d] = << >>]
    /\ deleted' = [deleted EXCEPT ![d] = TRUE]
    /\ restarts < MaxRestarts /\ restarts' = restarts + 1
    /\ UNCHANGED <<own, queued, session, spent, first, made, torn, list, seen, tries, jobs, call,
                   relay, published, opened, sent, refused, reread, faults, cut>>

\* An end pairs one more device of the account and publishes the list.
PairAnother(d) ==
    /\ own /\ At(d, "idle") /\ list[d] = published /\ published < Lists
    /\ published' = published + 1
    /\ list' = [list EXCEPT ![d] = published + 1]
    /\ UNCHANGED <<own, queued, disk, seen, tries, jobs, call, relay, opened, sent, refused, reread,
                   limits>>

\* The relay delivers a message in a second row.
RelayRepeats ==
    /\ Fault /\ Len(rows) < MaxRows /\ \A d \in End : Quiet(d)
    /\ \E i \in DOMAIN rows :
         /\ rows' = Append(rows, rows[i])
         /\ inbox' = [inbox EXCEPT ![rows[i].to] = @ \cup {Len(rows) + 1}]
    /\ UNCHANGED <<own, queued, disk, list, seen, tries, jobs, call, events, published, opened, sent,
                   refused, reread, restarts, deleted, cut>>

Worker(d) ==
    \/ CopyTo(d) \/ CopyNeedsSync(d) \/ CopyDropped(d) \/ CopiesEnd(d)
    \/ StartDrain(d) \/ StartEvent(d) \/ ReadRow(d) \/ AckRows(d) \/ SyncOwnList(d)

Next ==
    \/ \E d \in End :
         \/ Worker(d)
         \/ \E t \in Text : SendText(d, t) \/ QueueCopies(d, t)
         \/ AckFails(d) \/ SyncFails(d)
         \/ Restart(d) \/ TornAppend(d) \/ DeleteConversation(d) \/ PairAnother(d)
    \/ RelayRepeats

Spec == Init /\ [][Next]_vars

\* The worker goes on with what it began, reads its events and drains on
\* every connect.
Fairness == \A d \in End : WF_vars(Worker(d))

FairSpec == Spec /\ Fairness

-----------------------------------------------------------------------------
(* Properties. *)

Rows == 1 .. MaxRows
SessionType ==
    [id : 0 .. MaxSessions, written : 0 .. MaxRows + MaxFaults,
     read : SUBSET (1 .. MaxRows + MaxFaults), heard : BOOLEAN]

\* Every field keeps its type, and what an end reads, acknowledges or tries
\* again is a row that the relay made for it.
TypeOK ==
    /\ own \in BOOLEAN
    /\ session \in [End -> SessionType]
    /\ \A d \in End :
         /\ spent[d] \subseteq DOMAIN opened /\ ToSet(made[d]) \subseteq DOMAIN opened
         /\ Len(made[d]) <= ReplayWindow /\ Len(first[d]) <= ReplayWindow
         /\ Len(jobs[d]) <= JobMax
         /\ inbox[d] \cup events[d] \cup seen[d] \cup call[d].rows
              \subseteq {i \in DOMAIN rows : rows[i].to = d}
         /\ call[d].acks \subseteq seen[d]
         /\ tries[d] \in [Rows -> 0 .. MaxTries]
         /\ list[d] \in 1 .. published

\* The texts that an end shows.
Shown == [d \in End |-> [k \in DOMAIN history[d] |-> history[d][k].text]]

\* The texts that the relay gave to an end in two rows, where the write of the
\* state failed behind the history row of one: the second row is read as new.
Excused ==
    [d \in End |-> {rows[i].text : i \in
        {i \in cut[d] : ~own /\ \E j \in DOMAIN rows \ {i} : rows[j] = rows[i]}}]

Promise == INSTANCE Delivery WITH sent <- sent, shown <- Shown, excused <- Excused

\* The device implements Delivery: failed writes between the history and the
\* state, lost acknowledgements, rows that the relay repeats, copies that were
\* sent twice and restarts never show a text twice, never show one that was
\* not sent and never take a row away (store_decrypted, handle_row, drain).
\* Only the two together, a text in two rows of the relay and a failed write of
\* the state, show a text again: the history knows a row by its inbox id.
DeliversOnce == Promise!Spec

\* The rows that an end took from the relay without showing their text.
Unshown(d) ==
    {i \in DOMAIN rows : rows[i].to = d /\ i \notin inbox[d]
                         /\ rows[i].text \notin ToSet(Shown[d])}

\* A text that the device acknowledged is on its disk, unless both ends opened
\* a session and the one that the text was written in is not the stored one
\* any more, the list refused the copy, or the user deleted it.  Failed writes,
\* failed acknowledgements and restarts alone lose nothing.
LostOnlyByCrossing ==
    \A d \in End : \A i \in Unshown(d) \ refused :
        \/ Cardinality(ToSet(opened)) = 2 /\ session[d].id # rows[i].sid
        \/ deleted[d]

\* A copy is refused because of the list only after the list was read again
\* (receive_copy: "Read it again before a final refusal").
ListReadBeforeRefusal == refused \subseteq reread

\* No row stays in the inbox for good: not one whose acknowledgement failed,
\* not one that a failed write left open, and not one behind a copy that waits
\* for the list (drain, drain_network).
InboxEmpties == \A d \in End : []<>(inbox[d] = {} \/ torn[d])

\* The types and the losses together.
InboxSound == TypeOK /\ LostOnlyByCrossing
=============================================================================
