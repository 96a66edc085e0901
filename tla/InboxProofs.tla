----------------------------- MODULE InboxProofs -----------------------------
(***************************************************************************)
(* Proofs about the receiving side for every number of texts, rows,        *)
(* sessions, faults and restarts, for a page and a replay memory of any    *)
(* length, whether the two ends are devices of two people or of one:       *)
(*                                                                         *)
(*   InboxDelivers     Inbox implements Delivery;                          *)
(*   InboxStaysSound   no text is lost: what an end took from the relay is *)
(*                     on its disk, unless both ends opened a session and  *)
(*                     the text was written in the one that gave way, the  *)
(*                     list refused the copy, or the user deleted the      *)
(*                     conversation.                                       *)
(***************************************************************************)
EXTENDS Inbox, SequenceTheorems, FiniteSetTheorems, TLAPS

-----------------------------------------------------------------------------
(* The inductive invariant. *)

RowType ==
    [to : End, sid : Nat, n : Nat, pre : BOOLEAN, text : Text, lv : Nat, msgid : Nat]

\* The rows that the relay made for an end.
RowsTo(d) == {i \in DOMAIN rows : rows[i].to = d}

\* A call has the fields of Idle.
IsCall(c) == DOMAIN c = DOMAIN Idle

\* A call of d reads rows of d; a run over the copies is at a place of the
\* queue; the call for a pushed row has no second page.
CallFits(d, c) ==
    /\ IsCall(c)
    /\ c.rows \subseteq RowsTo(d)
    /\ c.at = "copies" => c.via = "none" /\ c.after \in Nat \ {0}
    /\ c.via = "event" => ~c.full /\ c.after \in RowsTo(d)

CallsFit ==
    /\ call = [d \in End |-> call[d]]
    /\ \A d \in End : CallFits(d, call[d])

JobType == [text : Text, tries : Nat]

\* What waits at an end or for it.
WaitingOK ==
    /\ jobs \in [End -> Seq(JobType)]
    /\ inbox \in [End -> SUBSET Nat] /\ events \in [End -> SUBSET Nat]
    /\ list \in [End -> Nat] /\ published \in Nat
    /\ \A d \in End : inbox[d] \cup events[d] \subseteq RowsTo(d)

CallInv == WaitingOK /\ CallsFit

\* Only the devices of one account have copies to send.
NoCopies == ~own => \A d \in End : jobs[d] = << >>

HistoryRow == [id : ({"own"} \X Text) \cup ({"in"} \X Nat), text : Text]

OlmSession == [id : Nat, written : Nat, read : SUBSET Nat, heard : BOOLEAN]

StoreTypes ==
    /\ own \in BOOLEAN
    /\ session \in [End -> OlmSession] /\ opened \in Seq(End)
    /\ rows \in Seq(RowType) /\ history \in [End -> Seq(HistoryRow)]
    /\ sent \in [End -> SUBSET Text] /\ cut \in [End -> SUBSET Nat]
    /\ \A d \in End : cut[d] \subseteq RowsTo(d)

\* Every row was sent.
RowsSent == \A i \in DOMAIN rows : rows[i].text \in sent[rows[i].to]

\* A history row names the copied text, or the row that it was read from.
HistoryNames ==
    \A d \in End : \A k \in DOMAIN history[d] :
        LET h == history[d][k]
        IN  /\ h.text \in sent[d]
            /\ own => h.id = <<"own", h.text>>
            /\ ~own => \E i \in RowsTo(d) : h.id = <<"in", i>> /\ rows[i].text = h.text

\* A text between two people is one message, in as many rows as the relay made.
OneMessage ==
    ~own => \A i, j \in DOMAIN rows :
                rows[i].to = rows[j].to /\ rows[i].text = rows[j].text => rows[i] = rows[j]

\* An end opens at most one session, and a first message is one of the other
\* end's session.
OneSessionEach ==
    /\ \A s, u \in DOMAIN opened : opened[s] = opened[u] => s = u
    /\ \A s \in DOMAIN opened : session[opened[s]] # NoSession
    /\ \A d \in End : session[d] # NoSession =>
         /\ session[d].id \in DOMAIN opened
         /\ ~session[d].heard => opened[session[d].id] = d
    /\ \A i \in DOMAIN rows :
         /\ rows[i].sid \in DOMAIN opened
         /\ rows[i].pre => opened[rows[i].sid] = Other(rows[i].to)

\* The stored session of d refuses the message: it was read, or it belongs to
\* d's own session, which gave way to that of the other end.
Known(d, r) ==
    \/ session[d].id = r.sid /\ r.n \in session[d].read
    \/ /\ ~r.pre /\ session[d].id # r.sid /\ opened[r.sid] = d
       /\ session[d].id \in DOMAIN opened /\ opened[session[d].id] = Other(d)

\* What the history shows, the session refuses, but for the rows whose state
\* was not saved.
ShownIsKnown ==
    ~own => \A d \in End : \A i \in RowsTo(d) :
                (\E k \in DOMAIN history[d] : history[d][k].id = <<"in", i>>)
                    => i \in cut[d] \/ Known(d, rows[i])

StoreInv ==
    StoreTypes /\ RowsSent /\ HistoryNames /\ OneMessage /\ OneSessionEach /\ ShownIsKnown

Inv == CallInv /\ NoCopies /\ StoreInv

-----------------------------------------------------------------------------
(* The two ends, and the calls that the operators of Inbox make. *)

LEMMA TwoEnds ==
    ASSUME NEW d \in End
    PROVE  /\ Other(d) \in End /\ Other(d) # d
           /\ \A e \in End : e # d => e = Other(d)
  BY InboxConstants DEF Other

LEMMA Fields ==
    DOMAIN Idle = {"at", "via", "rows", "acks", "stale", "after", "full", "round"}
  BY DEF Idle

\* The idle call, and the one that settle_engine leaves, fit every end.
LEMMA SettledFits ==
    ASSUME NEW d \in End
    PROVE  CallFits(d, Idle) /\ CallFits(d, Settled(d))
<1>1. CallFits(d, Idle)
  BY Fields DEF CallFits, IsCall, Idle
<1>2. CallFits(d, [Idle EXCEPT !.at = "copies", !.after = 1])
  BY Fields DEF CallFits, IsCall, Idle
<1> QED
  BY <1>1, <1>2 DEF Settled

LEMMA PageOfInbox ==
    ASSUME WaitingOK, NEW d \in End, NEW after
    PROVE  Page(d, after) \subseteq RowsTo(d)
  BY DEF WaitingOK, Page, FirstPage

\* A page that drain fetches is one of the end's own rows.
LEMMA FetchedFits ==
    ASSUME WaitingOK, NEW d \in End, NEW c, IsCall(c), c.via # "event", c.at # "copies"
    PROVE  CallFits(d, Fetched(d, c))
<1> DEFINE page == Page(d, c.after)
           top == CHOOSE i \in page : \A j \in page : j <= i
           full == Cardinality(page) = PageMax
<1>1. page \subseteq RowsTo(d)
  BY PageOfInbox
<1>2. CASE page = {}
  BY <1>2, SettledFits DEF Fetched
<1>3. CASE page # {}
  <2>1. Fetched(d, c) = [c EXCEPT !.at = "rows", !.rows = page, !.acks = {}, !.stale = {},
                                  !.after = top, !.full = full]
    BY <1>3 DEF Fetched
  <2> HIDE DEF page, top, full
  <2> QED
    BY <2>1, <1>1, Fields DEF CallFits, IsCall
<1> QED
  BY <1>2, <1>3

\* What follows an acknowledgement fits the end.
LEMMA AfterAckFits ==
    ASSUME CallInv, NEW d \in End, call[d].at = "rows", call[d].rows = {}
    PROVE  CallFits(d, [AfterAck(d, call[d]) EXCEPT !.acks = {}])
<1> DEFINE c == call[d]
           then == AfterAck(d, c)
<1>1. CallFits(d, c)
  BY DEF CallInv, CallsFit
<1>2. CallFits(d, then)
  <2>1. CASE c.stale # {}
    <3>1. then = [c EXCEPT !.at = "sync"]
      BY <2>1 DEF AfterAck
    <3> QED
      BY <3>1, <1>1, Fields DEF CallFits, IsCall
  <2>2. CASE c.stale = {} /\ c.full
    <3>1. IsCall(c) /\ c.via # "event" /\ c.at # "copies" /\ WaitingOK
      BY <2>2, <1>1 DEF CallFits, CallInv
    <3>2. then = Fetched(d, c)
      BY <2>2 DEF AfterAck
    <3> QED
      BY <3>1, <3>2, FetchedFits
  <2>3. CASE c.stale = {} /\ ~c.full
    BY <2>3, SettledFits DEF AfterAck
  <2> QED
    BY <2>1, <2>2, <2>3
<1> HIDE DEF c, then
<1>3. CallFits(d, [then EXCEPT !.acks = {}])
  BY <1>2, Fields DEF CallFits, IsCall
<1> QED
  BY <1>3 DEF then, c

\* A step that changes the call of one end keeps the others, also while the
\* relay makes rows.
LEMMA CallSet ==
    ASSUME CallsFit, NEW d \in End, NEW x, CallFits(d, x),
           call' = [call EXCEPT ![d] = x],
           \A e \in End : RowsTo(e) \subseteq RowsTo(e)'
    PROVE  CallsFit'
<1>1. call' = [e \in End |-> call'[e]] /\ call'[d] = x
      /\ \A e \in End : e # d => call'[e] = call[e]
  BY DEF CallsFit
<1>2. ASSUME NEW e \in End PROVE CallFits(e, call[e])'
  <2>1. CallFits(e, call'[e])
    BY <1>1 DEF CallsFit
  <2> QED
    BY <2>1 DEF CallFits, IsCall
<1> QED
  BY <1>1, <1>2 DEF CallsFit

LEMMA CallKept ==
    ASSUME CallsFit, UNCHANGED call, \A e \in End : RowsTo(e) \subseteq RowsTo(e)'
    PROVE  CallsFit'
  BY DEF CallsFit, CallFits, IsCall

LEMMA RowsKept ==
    ASSUME UNCHANGED rows
    PROVE  \A e \in End : RowsTo(e)' = RowsTo(e)
  BY DEF RowsTo

-----------------------------------------------------------------------------
(* Every step keeps CallInv. *)

LEMMA SealedType ==
    ASSUME StoreTypes, NEW d \in End
    PROVE  Sealed(d) \in OlmSession
<1>1. session[d] \in OlmSession /\ Len(opened) + 1 \in Nat
  BY DEF StoreTypes
<1>2. CASE session[d] # NoSession
  <2>1. [session[d] EXCEPT !.written = @ + 1] \in OlmSession
    BY <1>1 DEF OlmSession
  <2> QED
    BY <1>2, <2>1 DEF Sealed
<1>3. CASE session[d] = NoSession
  <2>1. [NoSession EXCEPT !.id = Len(opened) + 1, !.written = 1] \in OlmSession
    BY <1>1 DEF OlmSession, NoSession
  <2> QED
    BY <1>3, <2>1 DEF Sealed
<1> QED
  BY <1>2, <1>3

LEMMA RowAppended ==
    ASSUME StoreTypes, NEW r \in RowType, rows' = Append(rows, r)
    PROVE  /\ rows' \in Seq(RowType) /\ Len(rows') = Len(rows) + 1
           /\ rows'[Len(rows) + 1] = r
           /\ \A i \in DOMAIN rows : i \in DOMAIN rows' /\ rows'[i] = rows[i]
           /\ DOMAIN rows' = DOMAIN rows \cup {Len(rows) + 1}
           /\ Len(rows) + 1 \notin DOMAIN rows
           /\ Len(rows) + 1 \in RowsTo(r.to)'
           /\ \A e \in End : RowsTo(e) \subseteq RowsTo(e)'
<1>1. rows \in Seq(RowType) /\ Len(rows) \in Nat /\ DOMAIN rows = 1 .. Len(rows)
  BY DEF StoreTypes
<1>2. rows' \in Seq(RowType) /\ Len(rows') = Len(rows) + 1 /\ rows'[Len(rows) + 1] = r
      /\ DOMAIN rows' = 1 .. Len(rows) + 1
  BY <1>1
<1>3. \A i \in DOMAIN rows : i \in DOMAIN rows' /\ rows'[i] = rows[i]
  BY <1>1, <1>2
<1>4. DOMAIN rows' = DOMAIN rows \cup {Len(rows) + 1} /\ Len(rows) + 1 \notin DOMAIN rows
  BY <1>1, <1>2
<1>5. Len(rows) + 1 \in RowsTo(r.to)' /\ \A e \in End : RowsTo(e) \subseteq RowsTo(e)'
  BY <1>2, <1>3, <1>4 DEF RowsTo
<1> QED
  BY <1>2, <1>3, <1>4, <1>5

\* The row that the relay makes of a message is one for the other end.
LEMMA Delivered ==
    ASSUME StoreTypes, WaitingOK, NEW d \in End, NEW s \in OlmSession, NEW t \in Text,
           NEW taken \in BOOLEAN, Deliver(d, s, t, taken)
    PROVE  /\ Row(d, s, t) \in RowType
           /\ \A e \in End : RowsTo(e) \subseteq RowsTo(e)'
           /\ inbox' \in [End -> SUBSET Nat] /\ events' \in [End -> SUBSET Nat]
           /\ \A e \in End : (inbox[e] \cup events[e])' \subseteq RowsTo(e)'
<1>1. Row(d, s, t) \in RowType /\ Row(d, s, t).to = Other(d) /\ Other(d) \in End
  BY TwoEnds DEF StoreTypes, WaitingOK, Row, RowType, OlmSession
<1>2. CASE taken
  <2>1. rows' = Append(rows, Row(d, s, t))
    BY <1>2 DEF Deliver
  <2>2. Len(rows) + 1 \in RowsTo(Other(d))' /\ Len(rows) + 1 \in Nat
        /\ \A e \in End : RowsTo(e) \subseteq RowsTo(e)'
    BY <2>1, <1>1, RowAppended DEF StoreTypes
  <2>3. inbox' = [inbox EXCEPT ![Other(d)] = @ \cup {Len(rows) + 1}]
        /\ (events' = events \/ events' = [events EXCEPT ![Other(d)] = @ \cup {Len(rows) + 1}])
    BY <1>2 DEF Deliver
  <2>4. inbox' \in [End -> SUBSET Nat] /\ events' \in [End -> SUBSET Nat]
    <3>1. Len(rows) + 1 \in Nat /\ inbox \in [End -> SUBSET Nat] /\ events \in [End -> SUBSET Nat]
      BY <2>2 DEF WaitingOK
    <3> DEFINE n == Len(rows) + 1
    <3>2. inbox' = [inbox EXCEPT ![Other(d)] = @ \cup {n}]
          /\ (events' = events \/ events' = [events EXCEPT ![Other(d)] = @ \cup {n}])
      BY <2>3
    <3> HIDE DEF n
    <3>3. n \in Nat
      BY <3>1 DEF n
    <3>4. inbox' \in [End -> SUBSET Nat]
      BY <3>1, <3>2, <3>3
    <3>5. events' \in [End -> SUBSET Nat]
      BY <3>1, <3>2, <3>3
    <3> QED
      BY <3>4, <3>5
  <2>5. ASSUME NEW e \in End PROVE (inbox[e] \cup events[e])' \subseteq RowsTo(e)'
    <3>1. inbox'[e] \cup events'[e] \subseteq inbox[e] \cup events[e]
                                       \cup (IF e = Other(d) THEN {Len(rows) + 1} ELSE {})
      BY <1>1, <2>3 DEF WaitingOK
    <3>2. inbox[e] \cup events[e] \subseteq RowsTo(e)'
      BY <2>2 DEF WaitingOK
    <3> QED
      BY <3>1, <3>2, <2>2
  <2> QED
    BY <1>1, <2>2, <2>4, <2>5
<1>3. CASE ~taken
  BY <1>1, <1>3, RowsKept DEF Deliver, WaitingOK
<1> QED
  BY <1>2, <1>3

\* A job of the queue that is done leaves it.
LEMMA JobsTyped ==
    ASSUME WaitingOK, NEW d \in End, call[d].after \in Nat \ {0},
           call[d].after <= Len(jobs[d])
    PROVE  /\ Job(d).text \in Text
           /\ JobDone(d) \in [End -> Seq(JobType)] /\ JobFailed(d) \in [End -> Seq(JobType)]
           /\ Len(JobDone(d)[d]) = Len(jobs[d]) - 1
           /\ Len(JobFailed(d)[d]) \in {Len(jobs[d]), Len(jobs[d]) - 1}
<1> DEFINE k == call[d].after
           q == jobs[d]
<1>1. q \in Seq(JobType) /\ k \in 1 .. Len(q) /\ q[k] \in JobType
  BY DEF WaitingOK
<1>2. RemoveAt(q, k) \in Seq(JobType) /\ Len(RemoveAt(q, k)) = Len(q) - 1
  <2>a. Len(q) \in Nat /\ k \in Nat /\ k >= 1 /\ k <= Len(q) /\ \A m \in 1 .. Len(q) : q[m] \in JobType
    BY <1>1
  <2> HIDE DEF k, q
  <2>1. SubSeq(q, 1, k - 1) \in Seq(JobType) /\ Len(SubSeq(q, 1, k - 1)) = k - 1
    <3>1. \A m \in 1 .. k - 1 : q[m] \in JobType
      BY <2>a
    <3>2. SubSeq(q, 1, k - 1) \in Seq(JobType)
          /\ Len(SubSeq(q, 1, k - 1)) = IF 1 <= k - 1 THEN k - 1 - 1 + 1 ELSE 0
      BY <2>a, <3>1, SubSeqProperties
    <3> QED
      BY <2>a, <3>2
  <2>2. SubSeq(q, k + 1, Len(q)) \in Seq(JobType) /\ Len(SubSeq(q, k + 1, Len(q))) = Len(q) - k
    <3>1. \A m \in k + 1 .. Len(q) : q[m] \in JobType
      BY <2>a
    <3>2. SubSeq(q, k + 1, Len(q)) \in Seq(JobType)
          /\ Len(SubSeq(q, k + 1, Len(q))) = IF k + 1 <= Len(q) THEN Len(q) - (k + 1) + 1 ELSE 0
      BY <2>a, <3>1, SubSeqProperties
    <3> QED
      BY <2>a, <3>2
  <2>3. SubSeq(q, 1, k - 1) \o SubSeq(q, k + 1, Len(q)) \in Seq(JobType)
        /\ Len(SubSeq(q, 1, k - 1) \o SubSeq(q, k + 1, Len(q))) = (k - 1) + (Len(q) - k)
    BY <2>1, <2>2, ConcatProperties
  <2>4. RemoveAt(q, k) = SubSeq(q, 1, k - 1) \o SubSeq(q, k + 1, Len(q))
    BY DEF RemoveAt
  <2>5. (k - 1) + (Len(q) - k) = Len(q) - 1
    BY <1>1
  <2> QED
    BY <2>3, <2>4, <2>5
<1>3. JobDone(d) \in [End -> Seq(JobType)] /\ Len(JobDone(d)[d]) = Len(q) - 1
  BY <1>2 DEF JobDone, WaitingOK
<1>4. CASE Job(d).tries + 1 >= MaxTries
  BY <1>4, <1>3, <1>1 DEF JobFailed, Job, JobType
<1>5. CASE ~(Job(d).tries + 1 >= MaxTries)
  <2>1. JobFailed(d) = [jobs EXCEPT ![d] = [q EXCEPT ![k] = [q[k] EXCEPT !.tries = @ + 1]]]
    BY <1>5 DEF JobFailed, Job
  <2>2. [q[k] EXCEPT !.tries = @ + 1] \in JobType
    <3>1. \A j \in JobType : [j EXCEPT !.tries = @ + 1] \in JobType
      BY DEF JobType
    <3> QED
      BY <1>1, <3>1
  <2>3. [q EXCEPT ![k] = [q[k] EXCEPT !.tries = @ + 1]] \in Seq(JobType)
        /\ Len([q EXCEPT ![k] = [q[k] EXCEPT !.tries = @ + 1]]) = Len(q)
    BY <1>1, <2>2
  <2> QED
    BY <1>1, <1>3, <2>1, <2>3 DEF WaitingOK, Job, JobType
<1> QED
  BY <1>4, <1>5

\* The run over the copies goes to the next job.
LEMMA NextJobFits ==
    ASSUME CallInv, NEW d \in End, call[d].at = "copies", call[d].after <= Len(jobs[d]),
           jobs' \in [End -> Seq(JobType)],
           Len(jobs'[d]) \in {Len(jobs[d]), Len(jobs[d]) - 1}
    PROVE  \E x : CallFits(d, x) /\ NextJob(d) = [call EXCEPT ![d] = x]
<1> DEFINE c == call[d]
           k == c.after + 1 - (Len(jobs[d]) - Len(jobs'[d]))
           x == [c EXCEPT !.after = k]
<1>1. CallFits(d, c) /\ c.after \in Nat \ {0} /\ Len(jobs[d]) \in Nat
  BY DEF CallInv, CallsFit, CallFits, WaitingOK
<1>2. k \in Nat \ {0}
  <2>1. \A a \in Nat \ {0}, m \in Nat : \A n \in {m, m - 1} : a + 1 - (m - n) \in Nat \ {0}
    OBVIOUS
  <2> QED
    BY <1>1, <2>1
<1>3. c.via # "event"
  BY <1>1 DEF CallFits
<1>4. NextJob(d) = [call EXCEPT ![d] = x]
  BY DEF NextJob, CallInv, CallsFit
<1> HIDE DEF k
<1>5. CallFits(d, x)
  BY <1>1, <1>2, <1>3, Fields DEF CallFits, IsCall
<1> QED
  BY <1>4, <1>5

LEMMA WaitingKept ==
    ASSUME WaitingOK, UNCHANGED <<jobs, inbox, events, list, published, rows>>
    PROVE  WaitingOK'
  BY DEF WaitingOK, RowsTo

\* A step of one end that makes no row keeps CallInv when its new call fits.
LEMMA OwnCall ==
    ASSUME CallInv, WaitingOK', UNCHANGED rows, NEW d \in End, NEW x, CallFits(d, x),
           call' = [call EXCEPT ![d] = x]
    PROVE  CallInv'
  BY CallSet, RowsKept DEF CallInv

\* The calls of the copies.
LEMMA CopiesKeepCall ==
    ASSUME CallInv, StoreTypes, NEW d \in End,
           CopyTo(d) \/ CopyNeedsSync(d) \/ CopyDropped(d) \/ CopiesEnd(d)
    PROVE  CallInv'
<1> DEFINE c == call[d]
<1>1. WaitingOK /\ CallsFit /\ CallFits(d, c) /\ c.at = "copies" /\ c.after \in Nat \ {0}
  BY DEF CallInv, CallsFit, CallFits, CopyTo, CopyNeedsSync, CopyDropped, CopiesEnd, At
<1>2. CASE CopyTo(d)
  <2>1. c.after <= Len(jobs[d]) /\ UNCHANGED <<list, published>>
    BY <1>2 DEF CopyTo
  <2>2. Job(d).text \in Text /\ Sealed(d) \in OlmSession
    BY <1>1, <2>1, JobsTyped, SealedType
  <2>3. PICK taken \in BOOLEAN : Deliver(d, Sealed(d), Job(d).text, taken)
    BY <1>2 DEF CopyTo
  <2>4. /\ \A e \in End : RowsTo(e) \subseteq RowsTo(e)'
        /\ inbox' \in [End -> SUBSET Nat] /\ events' \in [End -> SUBSET Nat]
        /\ \A e \in End : (inbox[e] \cup events[e])' \subseteq RowsTo(e)'
    BY <1>1, <2>2, <2>3, Delivered
  <2>5. jobs' = JobDone(d) \/ jobs' = JobFailed(d)
    BY <1>2 DEF CopyTo
  <2>6. jobs' \in [End -> Seq(JobType)] /\ Len(jobs'[d]) \in {Len(jobs[d]), Len(jobs[d]) - 1}
    BY <1>1, <2>1, <2>5, JobsTyped
  <2>7. PICK x : CallFits(d, x) /\ call' = [call EXCEPT ![d] = x]
    BY <1>1, <1>2, <2>1, <2>6, NextJobFits DEF CopyTo
  <2>8. CallsFit'
    BY <1>1, <2>4, <2>7, CallSet
  <2> QED
    BY <1>1, <2>1, <2>4, <2>6, <2>8 DEF CallInv, WaitingOK
<1>3. CASE CopyNeedsSync(d)
  <2> DEFINE x == IF c.round = 1 THEN [c EXCEPT !.after = 1, !.round = 2] ELSE Idle
  <2>1. c.after <= Len(jobs[d]) /\ UNCHANGED <<published, inbox, events, rows>>
        /\ jobs' = JobFailed(d)
    BY <1>3 DEF CopyNeedsSync, relay
  <2>2. jobs' \in [End -> Seq(JobType)]
    BY <1>1, <2>1, JobsTyped
  <2>3. list' \in [End -> Nat]
    BY <1>1, <1>3 DEF CopyNeedsSync, WaitingOK
  <2>4. WaitingOK'
    BY <1>1, <2>1, <2>2, <2>3 DEF WaitingOK, RowsTo
  <2>6. CallFits(d, [c EXCEPT !.after = 1, !.round = 2])
    BY <1>1, Fields DEF CallFits, IsCall
  <2>7. CallFits(d, x)
    BY <2>6, SettledFits
  <2>8. call' = [call EXCEPT ![d] = x]
    BY <1>3 DEF CopyNeedsSync
  <2> QED
    BY <2>1, <2>4, <2>7, <2>8, OwnCall
<1>4. CASE CopyDropped(d)
  <2>1. c.after <= Len(jobs[d]) /\ UNCHANGED <<list, published, inbox, events, rows, call>>
        /\ jobs' = JobDone(d)
    BY <1>4 DEF CopyDropped, relay
  <2>2. jobs' \in [End -> Seq(JobType)]
    BY <1>1, <2>1, JobsTyped
  <2> QED
    BY <1>1, <2>1, <2>2, CallKept, RowsKept DEF CallInv, WaitingOK
<1>5. CASE CopiesEnd(d)
  BY <1>1, <1>5, OwnCall, SettledFits, WaitingKept DEF CopiesEnd, relay
<1> QED
  BY <1>2, <1>3, <1>4, <1>5

Outcome == {"Stored", "StoreFailed", "StaleList", "Undecryptable", "Duplicate"}

\* The calls that read and acknowledge rows.
LEMMA ReadsKeepCall ==
    ASSUME CallInv, NEW d \in End,
           \/ StartDrain(d) \/ StartEvent(d) \/ ReadRow(d) \/ AckRows(d) \/ AckFails(d)
           \/ SyncOwnList(d) \/ SyncFails(d)
    PROVE  CallInv'
<1> DEFINE c == call[d]
<1>1. WaitingOK /\ CallsFit /\ CallFits(d, c)
  BY DEF CallInv, CallsFit
<1>2. UNCHANGED <<rows, jobs, published>>
  BY DEF StartDrain, StartEvent, ReadRow, AckRows, AckFails, SyncOwnList, SyncFails, relay
<1>3. CASE StartDrain(d)
  <2> DEFINE drain == [Idle EXCEPT !.via = "drain"]
  <2>1. IsCall(drain) /\ drain.via # "event" /\ drain.at # "copies"
    BY Fields DEF IsCall, Idle
  <2>2. CallFits(d, Fetched(d, drain))
    BY <1>1, <2>1, FetchedFits
  <2>3. call' = [call EXCEPT ![d] = Fetched(d, drain)] /\ UNCHANGED <<list, inbox, events>>
    BY <1>3 DEF StartDrain, relay
  <2> QED
    BY <1>1, <1>2, <2>2, <2>3, WaitingKept, OwnCall
<1>4. CASE StartEvent(d)
  <2>1. PICK i \in events[d] :
          /\ events' = [events EXCEPT ![d] = @ \ {i}]
          /\ call' = [call EXCEPT ![d] = [Idle EXCEPT !.at = "rows", !.via = "event",
                                                      !.rows = {i}, !.after = i]]
    BY <1>4 DEF StartEvent
  <2>2. UNCHANGED <<list, inbox>>
    BY <1>4 DEF StartEvent
  <2>3. i \in RowsTo(d)
    BY <1>1 DEF WaitingOK
  <2>4. CallFits(d, [Idle EXCEPT !.at = "rows", !.via = "event", !.rows = {i}, !.after = i])
    BY <2>3, Fields DEF CallFits, IsCall, Idle
  <2>5. WaitingOK'
    BY <1>1, <1>2, <2>1, <2>2 DEF WaitingOK, RowsTo
  <2> QED
    BY <1>2, <2>1, <2>4, <2>5, OwnCall
<1>5. CASE ReadRow(d)
  <2>a. PICK i \in c.rows : \E out :
          call' = [call EXCEPT ![d] =
            [c EXCEPT !.rows = IF out = "StaleList" THEN {} ELSE @ \ {i},
                      !.stale = IF out = "StaleList" THEN {i} ELSE @,
                      !.acks = IF Acknowledged(out) /\ (out = "Duplicate" => c.via = "drain")
                               THEN @ \cup {i} ELSE @]]
    BY <1>5 DEF ReadRow
  <2>1. PICK out :
          call' = [call EXCEPT ![d] =
            [c EXCEPT !.rows = IF out = "StaleList" THEN {} ELSE @ \ {i},
                      !.stale = IF out = "StaleList" THEN {i} ELSE @,
                      !.acks = IF Acknowledged(out) /\ (out = "Duplicate" => c.via = "drain")
                               THEN @ \cup {i} ELSE @]]
    BY <2>a
  <2> DEFINE left == IF out = "StaleList" THEN {} ELSE c.rows \ {i}
             stale == IF out = "StaleList" THEN {i} ELSE c.stale
             acks == IF Acknowledged(out) /\ (out = "Duplicate" => c.via = "drain")
                     THEN c.acks \cup {i} ELSE c.acks
             x == [c EXCEPT !.rows = left, !.stale = stale, !.acks = acks]
  <2>2. left \subseteq c.rows
    OBVIOUS
  <2>3. call' = [call EXCEPT ![d] = x]
    BY <2>1
  <2> HIDE DEF left, stale, acks
  <2>5. CallFits(d, x)
    BY <1>1, <2>2, Fields DEF CallFits, IsCall
  <2>6. UNCHANGED <<list, inbox, events>>
    BY <1>5 DEF ReadRow, relay
  <2> QED
    BY <1>1, <1>2, <2>3, <2>5, <2>6, WaitingKept, OwnCall
<1>6. CASE AckRows(d)
  <2>1. c.at = "rows" /\ c.rows = {} /\ UNCHANGED <<list, events>>
        /\ inbox' = [inbox EXCEPT ![d] = @ \ c.acks]
        /\ call' = [call EXCEPT ![d] = [AfterAck(d, c) EXCEPT !.acks = {}]]
    BY <1>6 DEF AckRows, At
  <2>2. WaitingOK'
    BY <1>1, <1>2, <2>1 DEF WaitingOK, RowsTo
  <2> QED
    BY <1>2, <2>1, <2>2, AfterAckFits, OwnCall
<1>7. CASE AckFails(d) \/ SyncFails(d)
  <2>1. UNCHANGED <<list, inbox, events>> /\ call' = [call EXCEPT ![d] = Settled(d)]
    BY <1>7 DEF AckFails, SyncFails, relay
  <2> QED
    BY <1>1, <1>2, <2>1, SettledFits, WaitingKept, OwnCall
<1>8. CASE SyncOwnList(d)
  <2> DEFINE again == [c EXCEPT !.round = 2, !.stale = {}, !.acks = {}]
             copy == [again EXCEPT !.at = "rows", !.rows = {c.after}]
             anew == [again EXCEPT !.after = 0]
  <2>1. list' = [list EXCEPT ![d] = published] /\ UNCHANGED <<inbox, events>>
    BY <1>8 DEF SyncOwnList, relay
  <2>2. WaitingOK'
    BY <1>1, <1>2, <2>1 DEF WaitingOK, RowsTo
  <2>3. c.at = "sync" /\ \/ call' = [call EXCEPT ![d] = Settled(d)]
                         \/ c.via = "event" /\ call' = [call EXCEPT ![d] = copy]
                         \/ c.via # "event" /\ call' = [call EXCEPT ![d] = Fetched(d, anew)]
    BY <1>8 DEF SyncOwnList, At
  <2>5. ASSUME c.via = "event" PROVE CallFits(d, copy)
    BY <1>1, <2>5, Fields DEF CallFits, IsCall
  <2>6. ASSUME c.via # "event" PROVE CallFits(d, Fetched(d, anew))
    <3>1. IsCall(anew) /\ anew.via # "event" /\ anew.at # "copies"
      BY <1>1, <2>3, <2>6, Fields DEF CallFits, IsCall
    <3> QED
      BY <1>1, <3>1, FetchedFits
  <2> QED
    BY <1>2, <2>2, <2>3, <2>5, <2>6, SettledFits, OwnCall
<1> QED
  BY <1>3, <1>4, <1>5, <1>6, <1>7, <1>8

\* The steps of the user, of the relay and of the program as a whole.
LEMMA OthersKeepCall ==
    ASSUME CallInv, StoreTypes,
           \/ \E d \in End :
                \/ \E t \in Text : SendText(d, t) \/ QueueCopies(d, t)
                \/ Restart(d) \/ TornAppend(d) \/ DeleteConversation(d) \/ PairAnother(d)
           \/ RelayRepeats
    PROVE  CallInv'
<1>1. WaitingOK /\ CallsFit
  BY DEF CallInv
<1>2. ASSUME NEW d \in End, NEW t \in Text, SendText(d, t) PROVE CallInv'
  <2>1. Sealed(d) \in OlmSession /\ UNCHANGED <<jobs, call, list, published>>
    BY <1>2, SealedType DEF SendText
  <2>2. PICK taken \in BOOLEAN : Deliver(d, Sealed(d), t, taken)
    BY <1>2 DEF SendText
  <2>3. /\ \A e \in End : RowsTo(e) \subseteq RowsTo(e)'
        /\ inbox' \in [End -> SUBSET Nat] /\ events' \in [End -> SUBSET Nat]
        /\ \A e \in End : (inbox[e] \cup events[e])' \subseteq RowsTo(e)'
    BY <1>1, <2>1, <2>2, Delivered
  <2> QED
    BY <1>1, <2>1, <2>3, CallKept DEF CallInv, WaitingOK
<1>3. ASSUME NEW d \in End, NEW t \in Text, QueueCopies(d, t) PROVE CallInv'
  <2> DEFINE q == WithRoom(jobs[d])
             x == [Idle EXCEPT !.at = "copies", !.after = 1]
  <2>1. jobs' = [jobs EXCEPT ![d] = Append(q, [text |-> t, tries |-> 0])]
        /\ UNCHANGED <<inbox, events, list, published, rows>>
        /\ call' = [call EXCEPT ![d] = x]
    BY <1>3, <1>1 DEF QueueCopies, relay, WaitingOK
  <2>2. q \in Seq(JobType)
    BY <1>1, InboxConstants DEF WithRoom, WaitingOK
  <2>3. [text |-> t, tries |-> 0] \in JobType
    BY DEF JobType
  <2>4. jobs' \in [End -> Seq(JobType)]
    <3> HIDE DEF q
    <3> QED BY <1>1, <2>1, <2>2, <2>3 DEF WaitingOK
  <2>5. WaitingOK'
    BY <1>1, <2>1, <2>4 DEF WaitingOK, RowsTo
  <2>6. CallFits(d, x)
    BY Fields DEF CallFits, IsCall, Idle
  <2> QED
    BY <2>1, <2>5, <2>6, OwnCall
<1>4. ASSUME NEW d \in End, Restart(d) \/ TornAppend(d) PROVE CallInv'
  <2>1. UNCHANGED <<rows, inbox, list, published>>
        /\ events' = [events EXCEPT ![d] = {}] /\ jobs' = [jobs EXCEPT ![d] = << >>]
        /\ call' = [call EXCEPT ![d] = Idle]
    BY <1>4 DEF Restart, TornAppend, Forgotten
  <2>2. WaitingOK'
    BY <1>1, <2>1 DEF WaitingOK, RowsTo
  <2> QED
    BY <2>1, <2>2, SettledFits, OwnCall
<1>5. ASSUME NEW d \in End, DeleteConversation(d) \/ PairAnother(d) PROVE CallInv'
  <2>1. UNCHANGED <<rows, inbox, events, jobs, call>>
        /\ list' \in [End -> Nat] /\ published' \in Nat
    <3>1. CASE DeleteConversation(d)
      BY <1>1, <3>1 DEF DeleteConversation, relay, WaitingOK
    <3>2. CASE PairAnother(d)
      <4>1. list' = [list EXCEPT ![d] = published + 1] /\ published' = published + 1
        BY <3>2 DEF PairAnother
      <4> QED
        BY <1>1, <3>2, <4>1 DEF PairAnother, relay, WaitingOK
    <3> QED
      BY <1>5, <3>1, <3>2
  <2> QED
    BY <1>1, <2>1, CallKept, RowsKept DEF CallInv, WaitingOK
<1>6. ASSUME RelayRepeats PROVE CallInv'
  <2>1. PICK i \in DOMAIN rows :
          /\ rows' = Append(rows, rows[i])
          /\ inbox' = [inbox EXCEPT ![rows[i].to] = @ \cup {Len(rows) + 1}]
    BY <1>6 DEF RelayRepeats
  <2>2. rows[i] \in RowType /\ rows[i].to \in End /\ Len(rows) \in Nat
    <3>1. rows \in Seq(RowType) /\ i \in DOMAIN rows
      BY DEF StoreTypes
    <3>2. rows[i] \in RowType /\ Len(rows) \in Nat
      BY <3>1
    <3> QED
      BY <3>2 DEF RowType
  <2>a. PICK r \in RowType : r = rows[i] /\ r.to \in End
    BY <2>2
  <2>3. Len(rows) + 1 \in RowsTo(r.to)' /\ \A e \in End : RowsTo(e) \subseteq RowsTo(e)'
    BY <2>1, <2>a, RowAppended
  <2>4. UNCHANGED <<jobs, call, events, list, published>>
    BY <1>6 DEF RelayRepeats
  <2>5. ASSUME NEW e \in End PROVE (inbox[e] \cup events[e])' \subseteq RowsTo(e)'
    <3>1. inbox'[e] \cup events'[e] \subseteq inbox[e] \cup events[e]
                                       \cup (IF e = r.to THEN {Len(rows) + 1} ELSE {})
      BY <1>1, <2>1, <2>2, <2>a, <2>4 DEF WaitingOK
    <3>2. inbox[e] \cup events[e] \subseteq RowsTo(e)'
      BY <1>1, <2>3 DEF WaitingOK
    <3> QED
      BY <3>1, <3>2, <2>3
  <2>6. WaitingOK'
    BY <1>1, <2>1, <2>2, <2>4, <2>5 DEF WaitingOK
  <2> QED
    BY <1>1, <2>3, <2>4, <2>6, CallKept DEF CallInv
<1> QED
  BY <1>2, <1>3, <1>4, <1>5, <1>6

\* Every step keeps CallInv.
LEMMA CallStep ==
    ASSUME CallInv, StoreTypes, [Next]_vars
    PROVE  CallInv'
<1>1. ASSUME UNCHANGED vars PROVE CallInv'
  BY <1>1, CallKept, WaitingKept, RowsKept DEF vars, relay, CallInv
<1> QED
  BY <1>1, CopiesKeepCall, ReadsKeepCall, OthersKeepCall DEF Next, Worker

-----------------------------------------------------------------------------
(* Every step keeps StoreInv. *)

\* The session of the next message, and the end that opened it.
LEMMA SealedSession ==
    ASSUME StoreTypes, OneSessionEach, NEW d \in End, Opens(d),
           session' = [session EXCEPT ![d] = Sealed(d)]
    PROVE  /\ opened' \in Seq(End)
           /\ \A u \in DOMAIN opened : u \in DOMAIN opened' /\ opened'[u] = opened[u]
           /\ \A u, v \in DOMAIN opened' : opened'[u] = opened'[v] => u = v
           /\ \A u \in DOMAIN opened' : session'[opened'[u]] # NoSession
           /\ Sealed(d) # NoSession /\ Sealed(d).id \in DOMAIN opened'
           /\ ~Sealed(d).heard => opened'[Sealed(d).id] = d
           /\ session[d] # NoSession => /\ Sealed(d).id = session[d].id
                                        /\ Sealed(d).read = session[d].read
<1>1. /\ session \in [End -> OlmSession] /\ session[d] \in OlmSession
      /\ opened \in Seq(End) /\ Len(opened) \in Nat /\ DOMAIN opened = 1 .. Len(opened)
  BY DEF StoreTypes
<1>2. session'[d] = Sealed(d) /\ \A e \in End : e # d => session'[e] = session[e]
  BY <1>1
<1>3. CASE session[d] # NoSession
  <2>1. Sealed(d) = [session[d] EXCEPT !.written = @ + 1] /\ opened' = opened
    BY <1>3 DEF Sealed, Opens
  <2>2. Sealed(d).id = session[d].id /\ Sealed(d).read = session[d].read
        /\ Sealed(d).heard = session[d].heard
    BY <2>1, <1>1 DEF OlmSession
  <2>3. session[d].id \in DOMAIN opened /\ (~session[d].heard => opened[session[d].id] = d)
    BY <1>3 DEF OneSessionEach
  <2>4. Sealed(d) # NoSession
    BY <1>1, <2>2, <2>3 DEF NoSession
  <2>5. \A u \in DOMAIN opened' : session'[opened'[u]] # NoSession
    BY <1>1, <1>2, <2>1, <2>4 DEF OneSessionEach
  <2> QED
    BY <1>1, <2>1, <2>2, <2>3, <2>4, <2>5 DEF OneSessionEach
<1>4. CASE session[d] = NoSession
  <2>1. Sealed(d) = [NoSession EXCEPT !.id = Len(opened) + 1, !.written = 1]
        /\ opened' = Append(opened, d)
    BY <1>4 DEF Sealed, Opens
  <2>2. Sealed(d).id = Len(opened) + 1
    BY <2>1 DEF NoSession
  <2>3. /\ opened' \in Seq(End) /\ DOMAIN opened' = 1 .. Len(opened) + 1
        /\ opened'[Len(opened) + 1] = d
        /\ \A u \in DOMAIN opened : u \in DOMAIN opened' /\ opened'[u] = opened[u]
    BY <1>1, <2>1
  <2>4. \A u \in DOMAIN opened : opened[u] # d
    BY <1>4 DEF OneSessionEach
  <2>5. \A u \in DOMAIN opened' : u \in DOMAIN opened \/ u = Len(opened) + 1
    BY <1>1, <2>3
  <2>6. Sealed(d) # NoSession
    BY <1>1, <2>2 DEF NoSession
  <2>7. \A u \in DOMAIN opened' : session'[opened'[u]] # NoSession
    BY <1>1, <1>2, <2>3, <2>4, <2>5, <2>6 DEF OneSessionEach
  <2>8. \A u, v \in DOMAIN opened' : opened'[u] = opened'[v] => u = v
    BY <2>3, <2>4, <2>5 DEF OneSessionEach
  <2> QED
    BY <1>1, <1>4, <2>2, <2>3, <2>6, <2>7, <2>8
<1> QED
  BY <1>3, <1>4

\* A message that is sealed, and may reach the relay, keeps StoreInv.
LEMMA SendKeepsStore ==
    ASSUME StoreInv, WaitingOK, NEW d \in End, NEW t \in Text, NEW taken \in BOOLEAN,
           Opens(d), session' = [session EXCEPT ![d] = Sealed(d)],
           Deliver(d, Sealed(d), t, taken), ~own => t \notin sent[Other(d)],
           UNCHANGED <<own, history, cut>>
    PROVE  StoreInv'
<1> DEFINE s == Sealed(d)
           r == Row(d, s, t)
           new == Len(rows) + 1
<1>1. StoreTypes /\ OneSessionEach /\ Other(d) \in End
  BY TwoEnds DEF StoreInv
<1>2. s \in OlmSession
  BY <1>1, SealedType
<1>3. /\ opened' \in Seq(End)
      /\ \A u \in DOMAIN opened : u \in DOMAIN opened' /\ opened'[u] = opened[u]
      /\ \A u, v \in DOMAIN opened' : opened'[u] = opened'[v] => u = v
      /\ \A u \in DOMAIN opened' : session'[opened'[u]] # NoSession
      /\ s # NoSession /\ s.id \in DOMAIN opened'
      /\ ~s.heard => opened'[s.id] = d
      /\ session[d] # NoSession => s.id = session[d].id /\ s.read = session[d].read
  BY <1>1, SealedSession
<1>4. session' \in [End -> OlmSession] /\ session'[d] = s
      /\ \A e \in End : e # d => session'[e] = session[e]
  BY <1>1, <1>2 DEF StoreTypes
<1>5. r \in RowType /\ \A e \in End : RowsTo(e) \subseteq RowsTo(e)'
  BY <1>1, <1>2, Delivered
<1>6. r.to = Other(d) /\ r.text = t /\ r.sid = s.id /\ r.pre = ~s.heard
  BY DEF Row
<1>7. /\ rows' \in Seq(RowType)
      /\ \A i \in DOMAIN rows : i \in DOMAIN rows' /\ rows'[i] = rows[i]
      /\ \A i \in DOMAIN rows' : i \in DOMAIN rows \/ (taken /\ i = new)
      /\ taken => rows'[new] = r /\ new \notin DOMAIN rows
  <2>1. CASE taken
    <3>1. rows' = Append(rows, r)
      BY <2>1 DEF Deliver
    <3> HIDE DEF r
    <3> QED
      BY <2>1, <3>1, <1>1, <1>5, RowAppended
  <2>2. CASE ~taken
    BY <2>2, <1>1 DEF Deliver, StoreTypes
  <2> QED
    BY <2>1, <2>2
<1>8. /\ sent' \in [End -> SUBSET Text]
      /\ \A e \in End : sent[e] \subseteq sent'[e]
      /\ taken => t \in sent'[Other(d)]
  <2>1. CASE taken
    <3>1. sent' = [sent EXCEPT ![Other(d)] = @ \cup {t}]
      BY <2>1 DEF Deliver
    <3> QED
      BY <1>1, <3>1 DEF StoreTypes
  <2>2. CASE ~taken
    BY <1>1, <2>2 DEF Deliver, StoreTypes
  <2> QED
    BY <2>1, <2>2
<1> HIDE DEF s, r, new
<1>9. StoreTypes'
  BY <1>1, <1>3, <1>4, <1>5, <1>7, <1>8 DEF StoreTypes
<1>10. \A i \in DOMAIN rows : rows[i] \in RowType /\ rows[i].to \in End
  <2>1. \A i \in DOMAIN rows : rows[i] \in RowType
    BY <1>1 DEF StoreTypes
  <2> QED
    BY <2>1 DEF RowType
<1>11. RowsSent'
  BY <1>1, <1>6, <1>7, <1>8, <1>10 DEF RowsSent, StoreInv
<1>12. HistoryNames'
  <2> SUFFICES ASSUME NEW e \in End, NEW k \in DOMAIN history[e]
               PROVE  LET h == history[e][k]
                      IN  /\ h.text \in sent'[e]
                          /\ own => h.id = <<"own", h.text>>
                          /\ ~own => \E i \in RowsTo(e)' : h.id = <<"in", i>>
                                                           /\ rows'[i].text = h.text
    BY DEF HistoryNames
  <2>1. HistoryNames
    BY DEF StoreInv
  <2>2. \A i \in RowsTo(e) : i \in RowsTo(e)' /\ rows'[i] = rows[i]
    BY <1>5, <1>7 DEF RowsTo
  <2> QED
    BY <2>1, <2>2, <1>8 DEF HistoryNames
<1>13. OneMessage'
  <2> SUFFICES ASSUME ~own, NEW i \in DOMAIN rows', NEW j \in DOMAIN rows',
                      rows'[i].to = rows'[j].to, rows'[i].text = rows'[j].text
               PROVE  rows'[i] = rows'[j]
    BY DEF OneMessage
  <2>1. \A m \in DOMAIN rows : taken => ~(rows[m].to = r.to /\ rows[m].text = r.text)
    BY <1>6 DEF StoreInv, RowsSent
  <2> QED
    BY <2>1, <1>7 DEF OneMessage, StoreInv
<1>14. OneSessionEach'
  <2>1. \A e \in End : session'[e] # NoSession =>
          /\ session'[e].id \in DOMAIN opened'
          /\ ~session'[e].heard => opened'[session'[e].id] = e
    BY <1>1, <1>3, <1>4 DEF OneSessionEach
  <2>2. ASSUME NEW i \in DOMAIN rows'
        PROVE  /\ rows'[i].sid \in DOMAIN opened'
               /\ rows'[i].pre => opened'[rows'[i].sid] = Other(rows'[i].to)
    <3>1. CASE i \in DOMAIN rows
      BY <3>1, <1>1, <1>3, <1>7 DEF OneSessionEach
    <3>2. CASE taken /\ i = new
      <4>1. Other(Other(d)) = d
        BY TwoEnds
      <4>2. rows'[i] = r
        BY <3>2, <1>7
      <4>3. r.pre => opened'[s.id] = d
        BY <1>3, <1>6
      <4>4. Other(rows'[i].to) = d
        BY <4>1, <4>2, <1>6
      <4> QED
        BY <4>2, <4>3, <4>4, <1>3, <1>6
    <3> QED
      BY <3>1, <3>2, <1>7
  <2> QED
    BY <2>1, <2>2, <1>3 DEF OneSessionEach
<1>15. ShownIsKnown'
  <2> SUFFICES ASSUME ~own, NEW e \in End, NEW i \in RowsTo(e)', NEW k \in DOMAIN history[e],
                      history[e][k].id = <<"in", i>>, i \notin cut[e]
               PROVE  Known(e, rows[i])'
    BY DEF ShownIsKnown
  <2>1. PICK j \in RowsTo(e) : history[e][k].id = <<"in", j>>
    BY DEF StoreInv, HistoryNames
  <2>2. i = j /\ i \in RowsTo(e) /\ i \in DOMAIN rows
    BY <2>1 DEF RowsTo
  <2>3. Known(e, rows[i])
    BY <2>2 DEF StoreInv, ShownIsKnown
  <2>4. rows'[i] = rows[i] /\ rows[i].sid \in DOMAIN opened
    BY <2>2, <1>1, <1>7 DEF OneSessionEach
  <2>5. CASE e # d
    BY <2>3, <2>4, <2>5, <1>3, <1>4 DEF Known
  <2>6. CASE e = d
    <3>1. session[d] # NoSession
      <4>1. DOMAIN opened \subseteq Nat \ {0}
        BY <1>1 DEF StoreTypes
      <4> QED
        BY <2>3, <2>4, <2>6, <4>1 DEF Known, NoSession
    <3> QED
      BY <2>3, <2>4, <2>6, <3>1, <1>3, <1>4 DEF Known
  <2> QED
    BY <2>5, <2>6
<1> QED
  BY <1>9, <1>11, <1>12, <1>13, <1>14, <1>15 DEF StoreInv

\* What a readable row gives: the session did not know the message before and
\* has read it after.
LEMMA Decrypted ==
    ASSUME StoreTypes, OneSessionEach, NEW d \in End, NEW i \in RowsTo(d),
           NEW new \in DecryptRow(d, rows[i])
    PROVE  /\ ~Known(d, rows[i])
           /\ new.session \in OlmSession /\ new.session.heard
           /\ new.session.id = rows[i].sid /\ rows[i].n \in new.session.read
           /\ session[d].id = rows[i].sid => session[d].read \subseteq new.session.read
           /\ session[d].id # rows[i].sid => rows[i].pre
<1> DEFINE r == rows[i]
           own_ == session[d]
<1>1. i \in DOMAIN rows /\ r \in RowType /\ own_ \in OlmSession
  BY DEF StoreTypes, RowsTo
<1>2. ASSUME NEW s \in OlmSession
      PROVE  /\ Heard(s, r.n) \in OlmSession /\ Heard(s, r.n).heard
             /\ Heard(s, r.n).id = s.id /\ r.n \in Heard(s, r.n).read
             /\ s.read \subseteq Heard(s, r.n).read
  BY <1>1 DEF Heard, OlmSession, RowType
<1>3. CASE r.pre
  <2> DEFINE same == own_.id = r.sid
  <2>1. /\ new.session = IF same THEN Heard(own_, r.n)
                         ELSE Heard([NoSession EXCEPT !.id = r.sid], r.n)
        /\ ~(same /\ r.n \in own_.read)
    BY <1>3 DEF DecryptRow, OpenedPreKey
  <2>2. [NoSession EXCEPT !.id = r.sid] \in OlmSession /\ [NoSession EXCEPT !.id = r.sid].id = r.sid
    BY <1>1 DEF NoSession, OlmSession, RowType
  <2>3. ~Known(d, r)
    BY <1>3, <2>1 DEF Known
  <2>4. CASE same
    BY <1>1, <1>2, <1>3, <2>1, <2>3, <2>4
  <2>5. CASE ~same
    BY <1>2, <1>3, <2>1, <2>2, <2>3, <2>5
  <2> QED
    BY <2>4, <2>5
<1>4. CASE ~r.pre
  <2>1. /\ new.session = Heard(own_, r.n) /\ own_.id = r.sid /\ r.n \notin own_.read
    BY <1>4 DEF DecryptRow, OpenedNormal
  <2> QED
    BY <1>1, <1>2, <2>1 DEF Known
<1> QED
  BY <1>3, <1>4

Entry(i) == [id |-> HistoryId(i), text |-> rows[i].text]

\* The history with the row i of d: as it is when the row is there already.
With(d, i) ==
    IF Stored(d, HistoryId(i)) THEN history
    ELSE [history EXCEPT ![d] = Append(@, Entry(i))]

\* What a row does to the history and to the state.
LEMMA HandledRow ==
    ASSUME NEW d \in End, NEW i, NEW out, HandleRow(d, i, out)
    PROVE  \/ UNCHANGED <<session, history, cut>>
           \/ \E new \in DecryptRow(d, rows[i]) :
                /\ history' = With(d, i)
                /\ \/ session' = [session EXCEPT ![d] = new.session] /\ UNCHANGED cut
                   \/ UNCHANGED session /\ cut' = [cut EXCEPT ![d] = @ \cup {i}]
<1>1. CASE i \in seen[d]
  BY <1>1 DEF HandleRow
<1>2. CASE i \notin seen[d]
  <2>1. ReceiveMessage(d, i, out)
    BY <1>2 DEF HandleRow
  <2>2. ASSUME StaleOrRefuse(d, i, out) \/ Unreadable(out)
        PROVE  UNCHANGED <<session, history, cut>>
    BY <2>2 DEF StaleOrRefuse, Unreadable
  <2>3. ASSUME NEW new \in DecryptRow(d, rows[i]), StoreDecrypted(d, i, new, out)
        PROVE  \/ UNCHANGED <<session, history, cut>>
               \/ /\ history' = With(d, i)
                  /\ \/ session' = [session EXCEPT ![d] = new.session] /\ UNCHANGED cut
                     \/ UNCHANGED session /\ cut' = [cut EXCEPT ![d] = @ \cup {i}]
    BY <2>3 DEF StoreDecrypted, SetInbound, With, Entry
  <2> QED
    BY <2>1, <2>2, <2>3 DEF ReceiveMessage
<1> QED
  BY <1>1, <1>2

\* A history row for the inbox row i has the type and the text of that row.
LEMMA EntryTyped ==
    ASSUME StoreTypes, RowsSent, NEW d \in End, NEW i \in RowsTo(d)
    PROVE  /\ Entry(i) \in HistoryRow /\ Entry(i).id = HistoryId(i)
           /\ Entry(i).text = rows[i].text /\ rows[i].text \in Text /\ rows[i].text \in sent[d]
<1>1. i \in DOMAIN rows /\ rows[i] \in RowType /\ rows[i].to = d /\ i \in Nat
  BY DEF StoreTypes, RowsTo
<1>2. rows[i].text \in Text /\ rows[i].text \in sent[d]
  BY <1>1 DEF RowType, RowsSent
<1>3. HistoryId(i) \in ({"own"} \X Text) \cup ({"in"} \X Nat)
  BY <1>1, <1>2 DEF HistoryId
<1> QED
  BY <1>2, <1>3 DEF Entry, HistoryRow

LEMMA WithRow ==
    ASSUME StoreTypes, RowsSent, NEW d \in End, NEW i \in RowsTo(d), history' = With(d, i)
    PROVE  /\ history' \in [End -> Seq(HistoryRow)]
           /\ \A e \in End : e # d => history'[e] = history[e]
           /\ \A k \in DOMAIN history'[d] :
                \/ k \in DOMAIN history[d] /\ history'[d][k] = history[d][k]
                \/ history'[d][k] = Entry(i)
<1>1. history \in [End -> Seq(HistoryRow)] /\ Entry(i) \in HistoryRow
  BY EntryTyped DEF StoreTypes
<1>2. CASE Stored(d, HistoryId(i))
  BY <1>1, <1>2 DEF With
<1>3. CASE ~Stored(d, HistoryId(i))
  <2> DEFINE q == history[d]
             x == Entry(i)
  <2>1. history' = [history EXCEPT ![d] = Append(q, x)]
    BY <1>3 DEF With
  <2>2. q \in Seq(HistoryRow) /\ x \in HistoryRow
    BY <1>1
  <2> HIDE DEF q, x
  <2>3. /\ Append(q, x) \in Seq(HistoryRow)
        /\ \A k \in DOMAIN Append(q, x) : \/ k \in DOMAIN q /\ Append(q, x)[k] = q[k]
                                          \/ Append(q, x)[k] = x
    BY <2>2
  <2> QED
    BY <1>1, <2>1, <2>3 DEF q, x
<1> QED
  BY <1>2, <1>3

\* A row that is read keeps StoreInv.
LEMMA ReadKeepsStore ==
    ASSUME StoreInv, NEW d \in End, NEW i \in RowsTo(d), NEW new \in DecryptRow(d, rows[i]),
           history' = With(d, i),
           \/ session' = [session EXCEPT ![d] = new.session] /\ UNCHANGED cut
           \/ UNCHANGED session /\ cut' = [cut EXCEPT ![d] = @ \cup {i}],
           UNCHANGED <<own, rows, opened, sent>>
    PROVE  StoreInv'
<1> DEFINE r == rows[i]
<1>1. StoreTypes /\ RowsSent /\ HistoryNames /\ OneSessionEach /\ i \in DOMAIN rows /\ r.to = d
  BY DEF StoreInv, RowsTo
<1>2. /\ ~Known(d, r) /\ new.session \in OlmSession /\ new.session.heard
      /\ new.session.id = r.sid /\ r.n \in new.session.read
      /\ session[d].id = r.sid => session[d].read \subseteq new.session.read
      /\ session[d].id # r.sid => r.pre
  BY <1>1, Decrypted
<1>3. /\ history' \in [End -> Seq(HistoryRow)]
      /\ \A e \in End : e # d => history'[e] = history[e]
      /\ \A k \in DOMAIN history'[d] :
           \/ k \in DOMAIN history[d] /\ history'[d][k] = history[d][k]
           \/ history'[d][k] = Entry(i)
  BY <1>1, WithRow
<1>4. Entry(i).id = HistoryId(i) /\ Entry(i).text = r.text /\ r.text \in sent[d]
  BY <1>1, EntryTyped
<1>5. /\ session' \in [End -> OlmSession] /\ cut' \in [End -> SUBSET Nat]
      /\ \A e \in End : e # d => session'[e] = session[e] /\ cut'[e] = cut[e]
      /\ \/ session'[d] = new.session /\ cut'[d] = cut[d]
         \/ session'[d] = session[d] /\ cut'[d] = cut[d] \cup {i}
  <2>1. i \in Nat /\ session \in [End -> OlmSession] /\ cut \in [End -> SUBSET Nat]
    BY <1>1 DEF StoreTypes
  <2>2. CASE session' = [session EXCEPT ![d] = new.session] /\ UNCHANGED cut
    BY <1>2, <2>1, <2>2
  <2>3. CASE UNCHANGED session /\ cut' = [cut EXCEPT ![d] = @ \cup {i}]
    BY <2>1, <2>3
  <2> QED
    BY <2>2, <2>3
<1>6. \A e \in End : RowsTo(e)' = RowsTo(e)
  BY RowsKept
<1>7. r.sid \in DOMAIN opened /\ r.sid # 0 /\ (r.pre => opened[r.sid] = Other(d))
  BY <1>1 DEF OneSessionEach, StoreTypes
<1>8. StoreTypes'
  <2>1. \A e \in End : cut'[e] \subseteq RowsTo(e)'
    BY <1>1, <1>5, <1>6 DEF StoreTypes
  <2> QED
    BY <1>1, <1>3, <1>5, <2>1 DEF StoreTypes
<1>9. RowsSent' /\ OneMessage'
  BY DEF RowsSent, OneMessage, StoreInv
<1>10. HistoryNames'
  <2> SUFFICES ASSUME NEW e \in End, NEW k \in DOMAIN history'[e]
               PROVE  LET h == history'[e][k]
                      IN  /\ h.text \in sent[e]
                          /\ own => h.id = <<"own", h.text>>
                          /\ ~own => \E j \in RowsTo(e) : h.id = <<"in", j>>
                                                          /\ rows[j].text = h.text
    BY <1>6 DEF HistoryNames
  <2>1. CASE k \in DOMAIN history[e] /\ history'[e][k] = history[e][k]
    BY <1>1, <2>1 DEF HistoryNames
  <2>2. CASE e = d /\ history'[d][k] = Entry(i)
    BY <1>4, <2>2 DEF HistoryId
  <2> QED
    BY <1>3, <2>1, <2>2
<1>11. OneSessionEach'
  <2>1. new.session # NoSession
    BY <1>2, <1>7 DEF NoSession
  <2>2. ASSUME NEW e \in End
        PROVE  /\ session[e] # NoSession => session'[e] # NoSession
               /\ session'[e] # NoSession =>
                    /\ session'[e].id \in DOMAIN opened
                    /\ ~session'[e].heard => opened[session'[e].id] = e
    <3>1. CASE session'[e] = session[e]
      BY <1>1, <3>1 DEF OneSessionEach
    <3>2. CASE session'[e] = new.session
      BY <1>2, <1>7, <2>1, <3>2
    <3> QED
      BY <1>5, <3>1, <3>2
  <2>3. \A u \in DOMAIN opened : opened[u] \in End
    BY <1>1 DEF StoreTypes
  <2> QED
    BY <1>1, <2>2, <2>3 DEF OneSessionEach
<1>12. ShownIsKnown'
  <2> SUFFICES ASSUME ~own, NEW e \in End, NEW j \in RowsTo(e), NEW k \in DOMAIN history'[e],
                      history'[e][k].id = <<"in", j>>, j \notin cut'[e]
               PROVE  Known(e, rows[j])'
    BY <1>6 DEF ShownIsKnown
  <2>1. CASE e # d
    <3>1. session'[e] = session[e] /\ cut'[e] = cut[e] /\ history'[e] = history[e]
      BY <1>3, <1>5, <2>1
    <3>2. Known(e, rows[j])
      BY <3>1 DEF StoreInv, ShownIsKnown
    <3>3. UNCHANGED <<rows, opened>>
      OBVIOUS
    <3> QED
      BY <3>1, <3>2, <3>3 DEF Known
  <2>2. CASE e = d /\ history'[d][k] = Entry(i)
    <3>1. HistoryId(i) = <<"in", i>>
      BY DEF HistoryId
    <3>2. j = i
      BY <1>4, <2>2, <3>1
    <3>3. session'[d] = new.session
      BY <1>5, <2>2, <3>2
    <3> QED
      BY <1>2, <2>2, <3>2, <3>3 DEF Known
  <2>3. CASE e = d /\ k \in DOMAIN history[d] /\ history'[d][k] = history[d][k]
    <3>1. Known(d, rows[j]) /\ j \in DOMAIN rows /\ rows[j].to = d
      BY <1>5, <2>3 DEF StoreInv, ShownIsKnown, RowsTo
    <3>2. CASE session'[d] = session[d]
      BY <2>3, <3>1, <3>2 DEF Known
    <3>3. CASE session'[d] = new.session /\ session[d].id = r.sid
      BY <2>3, <3>1, <3>3, <1>2 DEF Known
    <3>4. CASE session'[d] = new.session /\ session[d].id # r.sid
      <4>1. opened[r.sid] = Other(d)
        BY <3>4, <1>2, <1>7
      <4>2. CASE session[d].id = rows[j].sid /\ rows[j].n \in session[d].read
        <5>a. rows[j].sid \in DOMAIN opened /\ rows[j].sid # r.sid
          BY <3>1, <3>4, <4>2, <1>1 DEF OneSessionEach
        <5>b. opened[rows[j].sid] \in End
          BY <5>a, <1>1 DEF StoreTypes
        <5>1. rows[j].sid \in DOMAIN opened /\ opened[rows[j].sid] \in End
              /\ opened[rows[j].sid] # Other(d)
          BY <5>a, <5>b, <4>1, <1>1, <1>7 DEF OneSessionEach
        <5>2. opened[rows[j].sid] = d
          BY <5>1, TwoEnds
        <5>3. ~rows[j].pre
          BY <3>1, <5>1, <1>1 DEF OneSessionEach
        <5> QED
          BY <2>3, <3>4, <4>1, <4>2, <5>2, <5>3, <1>2, <1>7 DEF Known
      <4>3. CASE session[d].id \in DOMAIN opened /\ opened[session[d].id] = Other(d)
        BY <3>4, <4>1, <4>3, <1>1, <1>7 DEF OneSessionEach
      <4> QED
        BY <3>1, <4>2, <4>3 DEF Known
    <3> QED
      BY <3>2, <3>3, <3>4, <1>5
  <2> QED
    BY <1>3, <2>1, <2>2, <2>3
<1> QED
  BY <1>8, <1>9, <1>10, <1>11, <1>12 DEF StoreInv

LEMMA StoreKept ==
    ASSUME StoreInv, UNCHANGED <<own, session, history, rows, opened, sent, cut>>
    PROVE  StoreInv'
<1>1. StoreTypes' /\ RowsSent' /\ OneMessage'
  BY DEF StoreInv, StoreTypes, RowsSent, OneMessage, RowsTo
<1>2. OneSessionEach'
  BY DEF StoreInv, OneSessionEach
<1>3. HistoryNames'
  BY DEF StoreInv, HistoryNames, RowsTo
<1>4. ShownIsKnown'
  BY DEF StoreInv, ShownIsKnown, RowsTo, Known
<1> QED
  BY <1>1, <1>2, <1>3, <1>4 DEF StoreInv

\* Copies are queued and sent on the devices of one account only.
LEMMA CopiesAreOwn ==
    ASSUME CallInv, NoCopies, NEW d \in End, call[d].at = "copies", call[d].after <= Len(jobs[d])
    PROVE  own
<1>1. call[d].after \in Nat \ {0}
  BY DEF CallInv, CallsFit, CallFits
<1> QED
  BY <1>1 DEF NoCopies

LEMMA NoCopiesStep ==
    ASSUME CallInv, NoCopies, [Next]_vars
    PROVE  NoCopies'
<1>1. UNCHANGED own
  <2>1. ASSUME NEW d \in End, Worker(d) PROVE UNCHANGED own
    BY <2>1 DEF Worker, CopyTo, CopyNeedsSync, CopyDropped, CopiesEnd, StartDrain, StartEvent,
                ReadRow, AckRows, SyncOwnList
  <2>2. ASSUME NEW d \in End, NEW t, SendText(d, t) \/ QueueCopies(d, t) PROVE UNCHANGED own
    BY <2>2 DEF SendText, QueueCopies
  <2>3. ASSUME NEW d \in End,
               \/ AckFails(d) \/ SyncFails(d) \/ Restart(d) \/ TornAppend(d)
               \/ DeleteConversation(d) \/ PairAnother(d)
        PROVE  UNCHANGED own
    BY <2>3 DEF AckFails, SyncFails, Restart, TornAppend, DeleteConversation, PairAnother
  <2>4. ASSUME RelayRepeats \/ UNCHANGED vars PROVE UNCHANGED own
    BY <2>4 DEF RelayRepeats, vars
  <2> QED
    BY <2>1, <2>2, <2>3, <2>4 DEF Next
<1>2. ASSUME NEW d \in End, NEW t, QueueCopies(d, t) PROVE NoCopies'
  BY <1>1, <1>2 DEF QueueCopies, NoCopies
<1>3. ASSUME NEW d \in End, CopyTo(d) \/ CopyNeedsSync(d) \/ CopyDropped(d) PROVE NoCopies'
  <2>1. own
    BY <1>3, CopiesAreOwn DEF CopyTo, CopyNeedsSync, CopyDropped, At
  <2> QED
    BY <1>1, <2>1 DEF NoCopies
<1>4. ASSUME NEW d \in End, Forgotten(d) PROVE NoCopies'
  <2>1. jobs \in [End -> Seq(JobType)] /\ jobs' = [jobs EXCEPT ![d] = << >>]
    BY <1>4 DEF Forgotten, CallInv, WaitingOK
  <2> QED
    BY <1>1, <2>1 DEF NoCopies
<1>5. ASSUME UNCHANGED jobs PROVE NoCopies'
  BY <1>1, <1>5 DEF NoCopies
<1>6. ASSUME NEW d \in End,
             \/ CopiesEnd(d) \/ StartDrain(d) \/ StartEvent(d) \/ ReadRow(d) \/ AckRows(d)
             \/ SyncOwnList(d) \/ DeleteConversation(d) \/ PairAnother(d)
      PROVE  UNCHANGED jobs
  BY <1>6 DEF CopiesEnd, StartDrain, StartEvent, ReadRow, AckRows, SyncOwnList,
              DeleteConversation, PairAnother
<1>7. ASSUME NEW d \in End, \/ AckFails(d) \/ SyncFails(d) \/ \E t \in Text : SendText(d, t)
      PROVE  UNCHANGED jobs
  BY <1>7 DEF AckFails, SyncFails, SendText
<1>8. ASSUME NEW d \in End, Restart(d) \/ TornAppend(d) PROVE Forgotten(d)
  BY <1>8 DEF Restart, TornAppend
<1>9. ASSUME RelayRepeats \/ UNCHANGED vars PROVE UNCHANGED jobs
  BY <1>9 DEF RelayRepeats, vars
<1> QED
  BY <1>2, <1>3, <1>4, <1>5, <1>6, <1>7, <1>8, <1>9 DEF Next, Worker

\* The user deletes the rows of a conversation.
LEMMA DeleteKeepsStore ==
    ASSUME StoreInv, NEW d \in End, DeleteConversation(d)
    PROVE  StoreInv'
<1>1. history \in [End -> Seq(HistoryRow)] /\ history' = [history EXCEPT ![d] = << >>]
      /\ UNCHANGED <<own, session, rows, opened, sent, cut>>
  BY DEF DeleteConversation, relay, StoreInv, StoreTypes
<1>2. history' \in [End -> Seq(HistoryRow)] /\ DOMAIN history'[d] = {}
      /\ \A e \in End : e # d => history'[e] = history[e]
  BY <1>1
<1>3. StoreTypes' /\ RowsSent' /\ OneMessage' /\ OneSessionEach'
  <2>1. StoreTypes'
    BY <1>1, <1>2 DEF StoreInv, StoreTypes, RowsTo
  <2>2. RowsSent' /\ OneMessage'
    BY <1>1 DEF StoreInv, RowsSent, OneMessage
  <2>3. OneSessionEach'
    BY <1>1 DEF StoreInv, OneSessionEach
  <2> QED
    BY <2>1, <2>2, <2>3
<1>4. \A e \in End : \A k \in DOMAIN history'[e] :
        k \in DOMAIN history[e] /\ history'[e][k] = history[e][k]
  BY <1>2
<1>5. HistoryNames'
  BY <1>1, <1>4 DEF StoreInv, HistoryNames, RowsTo
<1>6. ShownIsKnown'
  <2> SUFFICES ASSUME ~own, NEW e \in End, NEW i \in RowsTo(e), NEW k \in DOMAIN history'[e],
                      history'[e][k].id = <<"in", i>>, i \notin cut[e]
               PROVE  Known(e, rows[i])'
    BY <1>1 DEF ShownIsKnown, RowsTo
  <2>1. Known(e, rows[i])
    BY <1>4 DEF StoreInv, ShownIsKnown
  <2> QED
    BY <1>1, <2>1 DEF Known
<1> QED
  BY <1>3, <1>5, <1>6 DEF StoreInv

\* The relay delivers a row again.
LEMMA RepeatKeepsStore ==
    ASSUME StoreInv, RelayRepeats
    PROVE  StoreInv'
<1>1. PICK i \in DOMAIN rows : rows' = Append(rows, rows[i])
  BY DEF RelayRepeats
<1>2. UNCHANGED <<own, session, history, opened, sent, cut>>
  BY DEF RelayRepeats, disk
<1>3. PICK r \in RowType : r = rows[i]
  BY DEF StoreInv, StoreTypes
<1>4. /\ rows' \in Seq(RowType)
      /\ \A j \in DOMAIN rows : j \in DOMAIN rows' /\ rows'[j] = rows[j]
      /\ \A j \in DOMAIN rows' : \E k \in DOMAIN rows : rows'[j] = rows[k]
      /\ \A e \in End : RowsTo(e) \subseteq RowsTo(e)'
  BY <1>1, <1>3, RowAppended DEF StoreInv
<1>5. StoreTypes'
  BY <1>2, <1>4 DEF StoreInv, StoreTypes
<1>6. RowsSent' /\ OneMessage'
  <2>1. RowsSent'
    BY <1>2, <1>4 DEF StoreInv, RowsSent
  <2>2. ASSUME ~own, NEW j \in DOMAIN rows', NEW k \in DOMAIN rows',
               rows'[j].to = rows'[k].to, rows'[j].text = rows'[k].text
        PROVE  rows'[j] = rows'[k]
    <3>1. PICK m \in DOMAIN rows : rows'[j] = rows[m]
      BY <1>4
    <3>2. PICK o \in DOMAIN rows : rows'[k] = rows[o]
      BY <1>4
    <3> QED
      BY <2>2, <3>1, <3>2 DEF StoreInv, OneMessage
  <2>3. OneMessage'
    BY <1>2, <2>2 DEF OneMessage
  <2> QED
    BY <2>1, <2>3
<1>7. OneSessionEach'
  <2>1. /\ \A s, u \in DOMAIN opened' : opened'[s] = opened'[u] => s = u
        /\ \A s \in DOMAIN opened' : session'[opened'[s]] # NoSession
        /\ \A d \in End : session'[d] # NoSession =>
             /\ session'[d].id \in DOMAIN opened'
             /\ ~session'[d].heard => opened'[session'[d].id] = d
    BY <1>2 DEF StoreInv, OneSessionEach
  <2>2. ASSUME NEW j \in DOMAIN rows'
        PROVE  /\ rows'[j].sid \in DOMAIN opened'
               /\ rows'[j].pre => opened'[rows'[j].sid] = Other(rows'[j].to)
    <3>1. PICK k \in DOMAIN rows : rows'[j] = rows[k]
      BY <1>4
    <3> QED
      BY <1>2, <3>1 DEF StoreInv, OneSessionEach
  <2> QED
    BY <2>1, <2>2 DEF OneSessionEach
<1>8. \A e \in End : \A j \in RowsTo(e) : j \in RowsTo(e)' /\ rows'[j] = rows[j]
  BY <1>4 DEF RowsTo
<1>9. HistoryNames'
  <2> SUFFICES ASSUME NEW e \in End, NEW k \in DOMAIN history[e]
               PROVE  LET h == history[e][k]
                      IN  /\ h.text \in sent[e]
                          /\ own => h.id = <<"own", h.text>>
                          /\ ~own => \E j \in RowsTo(e)' : h.id = <<"in", j>>
                                                           /\ rows'[j].text = h.text
    BY <1>2 DEF HistoryNames
  <2> QED
    BY <1>8 DEF StoreInv, HistoryNames
<1>10. ShownIsKnown'
  <2> SUFFICES ASSUME ~own, NEW e \in End, NEW j \in RowsTo(e)', NEW k \in DOMAIN history[e],
                      history[e][k].id = <<"in", j>>, j \notin cut[e]
               PROVE  Known(e, rows[j])'
    BY <1>2 DEF ShownIsKnown
  <2>1. PICK m \in RowsTo(e) : history[e][k].id = <<"in", m>>
    BY DEF StoreInv, HistoryNames
  <2>2. j = m /\ j \in RowsTo(e) /\ Known(e, rows[j])
    BY <2>1 DEF StoreInv, ShownIsKnown
  <2> QED
    BY <1>2, <1>8, <2>2 DEF Known
<1> QED
  BY <1>5, <1>6, <1>7, <1>9, <1>10 DEF StoreInv

\* A step of d that reads the row i, as far as the history and the state go.
LEMMA RowRead ==
    ASSUME CallInv, NEW d \in End, ReadRow(d)
    PROVE  /\ UNCHANGED <<own, rows, opened, sent>>
           /\ \/ UNCHANGED <<session, history, cut>>
              \/ \E i \in RowsTo(d) : \E new \in DecryptRow(d, rows[i]) :
                   /\ history' = With(d, i)
                   /\ \/ session' = [session EXCEPT ![d] = new.session] /\ UNCHANGED cut
                      \/ UNCHANGED session /\ cut' = [cut EXCEPT ![d] = @ \cup {i}]
<1>1. PICK i \in call[d].rows, out \in Outcome : HandleRow(d, i, out)
  BY DEF ReadRow, Outcome
<1>2. i \in RowsTo(d)
  BY DEF CallInv, CallsFit, CallFits
<1>3. UNCHANGED <<own, rows, opened, sent>>
  BY DEF ReadRow, relay
<1> QED
  BY <1>1, <1>2, <1>3, HandledRow

\* Every step keeps StoreInv.
LEMMA StoreStep ==
    ASSUME Inv, [Next]_vars
    PROVE  StoreInv'
<1>1. CallInv /\ WaitingOK /\ NoCopies /\ StoreInv
  BY DEF Inv, CallInv
<1>2. ASSUME NEW d \in End, NEW t \in Text, SendText(d, t) PROVE StoreInv'
  <2>1. PICK taken \in BOOLEAN : Deliver(d, Sealed(d), t, taken)
    BY <1>2 DEF SendText
  <2>2. t \notin sent[Other(d)] /\ Opens(d) /\ session' = [session EXCEPT ![d] = Sealed(d)]
        /\ UNCHANGED <<own, history, cut>>
    BY <1>2 DEF SendText
  <2> QED
    BY <1>1, <2>1, <2>2, SendKeepsStore
<1>3. ASSUME NEW d \in End, CopyTo(d) PROVE StoreInv'
  <2>1. call[d].at = "copies" /\ call[d].after <= Len(jobs[d])
    BY <1>3 DEF CopyTo, At
  <2>2. call[d].after \in Nat \ {0}
    BY <1>1, <2>1 DEF CallInv, CallsFit, CallFits
  <2>3. own /\ Job(d).text \in Text
    BY <1>1, <2>1, <2>2, CopiesAreOwn, JobsTyped
  <2>4. PICK taken \in BOOLEAN : Deliver(d, Sealed(d), Job(d).text, taken)
    BY <1>3 DEF CopyTo
  <2>5. Opens(d) /\ session' = [session EXCEPT ![d] = Sealed(d)] /\ UNCHANGED <<own, history, cut>>
    BY <1>3 DEF CopyTo
  <2> QED
    BY <1>1, <2>3, <2>4, <2>5, SendKeepsStore
<1>4. ASSUME NEW d \in End, ReadRow(d) PROVE StoreInv'
  <2>1. CASE UNCHANGED <<session, history, cut>>
    BY <1>1, <1>4, <2>1, RowRead, StoreKept
  <2>2. CASE ~UNCHANGED <<session, history, cut>>
    BY <1>1, <1>4, <2>2, RowRead, ReadKeepsStore
  <2> QED
    BY <2>1, <2>2
<1>5. ASSUME NEW d \in End, DeleteConversation(d) PROVE StoreInv'
  BY <1>1, <1>5, DeleteKeepsStore
<1>6. ASSUME RelayRepeats PROVE StoreInv'
  BY <1>1, <1>6, RepeatKeepsStore
<1>7. ASSUME UNCHANGED <<own, session, history, rows, opened, sent, cut>> PROVE StoreInv'
  BY <1>1, <1>7, StoreKept
<1>8. ASSUME NEW d \in End,
             \/ \E t \in Text : QueueCopies(d, t)
             \/ CopyNeedsSync(d) \/ CopyDropped(d) \/ CopiesEnd(d)
      PROVE  UNCHANGED <<own, session, history, rows, opened, sent, cut>>
  BY <1>8 DEF disk, relay, limits, QueueCopies, CopyNeedsSync, CopyDropped, CopiesEnd
<1>9. ASSUME NEW d \in End,
             \/ StartDrain(d) \/ StartEvent(d) \/ AckRows(d) \/ SyncOwnList(d)
      PROVE  UNCHANGED <<own, session, history, rows, opened, sent, cut>>
  BY <1>9 DEF disk, relay, limits, StartDrain, StartEvent, AckRows, SyncOwnList
<1>10. ASSUME NEW d \in End,
              \/ AckFails(d) \/ SyncFails(d) \/ Restart(d) \/ TornAppend(d) \/ PairAnother(d)
       PROVE  UNCHANGED <<own, session, history, rows, opened, sent, cut>>
  BY <1>10 DEF disk, relay, limits, AckFails, SyncFails, Restart, TornAppend, PairAnother
<1>11. ASSUME UNCHANGED vars
       PROVE  UNCHANGED <<own, session, history, rows, opened, sent, cut>>
  BY <1>11 DEF vars, disk, relay, limits
<1> QED
  BY <1>2, <1>3, <1>4, <1>5, <1>6, <1>7, <1>8, <1>9, <1>10, <1>11 DEF Next, Worker

\* Inv is true at first.
LEMMA InvInit == Init => Inv
<1> SUFFICES ASSUME Init PROVE Inv
  OBVIOUS
<1>1. CallInv
  <2>1. WaitingOK
    BY InboxConstants DEF Init, WaitingOK
  <2>2. call = [d \in End |-> call[d]] /\ \A d \in End : call[d] = Idle
    BY DEF Init
  <2> QED
    BY <2>1, <2>2, SettledFits DEF CallInv, CallsFit
<1>2. NoCopies
  BY DEF Init, NoCopies
<1>3. StoreTypes
  <2>1. NoSession \in OlmSession
    BY DEF NoSession, OlmSession
  <2>2. own \in BOOLEAN
    BY Zenon DEF Init
  <2>3. session \in [End -> OlmSession] /\ history \in [End -> Seq(HistoryRow)]
        /\ rows \in Seq(RowType) /\ opened \in Seq(End)
    BY <2>1 DEF Init
  <2>4. sent \in [End -> SUBSET Text] /\ cut \in [End -> SUBSET Nat]
        /\ \A d \in End : cut[d] \subseteq RowsTo(d)
    BY DEF Init
  <2> QED
    BY <2>2, <2>3, <2>4 DEF StoreTypes
<1>4. DOMAIN rows = {} /\ DOMAIN opened = {} /\ (\A d \in End : DOMAIN history[d] = {})
      /\ \A d \in End : session[d] = NoSession
  BY DEF Init
<1>5. RowsSent /\ HistoryNames /\ OneMessage /\ OneSessionEach /\ ShownIsKnown
  BY <1>4 DEF RowsSent, HistoryNames, OneMessage, OneSessionEach, ShownIsKnown
<1> QED
  BY <1>1, <1>2, <1>3, <1>5 DEF Inv, StoreInv

LEMMA InvStep ==
    ASSUME Inv, [Next]_vars
    PROVE  Inv'
  BY CallStep, NoCopiesStep, StoreStep DEF Inv, StoreInv

-----------------------------------------------------------------------------
(* Every step is a step of Delivery, or changes nothing that it sees. *)

\* A history with one more row shows one more text.
LEMMA ShownAppend ==
    ASSUME history \in [End -> Seq(HistoryRow)], NEW d \in End, NEW x \in HistoryRow,
           history' = [history EXCEPT ![d] = Append(@, x)]
    PROVE  Shown' = [Shown EXCEPT ![d] = Append(@, x.text)]
<1> DEFINE q == history[d]
           texts == [k \in DOMAIN q |-> q[k].text]
           longer == [k \in DOMAIN Append(q, x) |-> Append(q, x)[k].text]
<1>1. q \in Seq(HistoryRow) /\ Len(q) \in Nat /\ DOMAIN q = 1 .. Len(q)
  OBVIOUS
<1>2. \A k \in DOMAIN q : q[k].text \in Text
  <2>1. \A k \in DOMAIN q : q[k] \in HistoryRow
    <3> HIDE DEF q
    <3> QED BY <1>1
  <2>2. \A h \in HistoryRow : h.text \in Text
    BY DEF HistoryRow
  <2> HIDE DEF q
  <2> QED
    BY <2>1, <2>2
<1>3. texts \in Seq(Text) /\ Len(texts) = Len(q) /\ x.text \in Text
  BY <1>1, <1>2 DEF HistoryRow
<1>4. /\ DOMAIN Append(q, x) = 1 .. Len(q) + 1
      /\ \A k \in DOMAIN q : Append(q, x)[k] = q[k]
      /\ Append(q, x)[Len(q) + 1] = x
  BY <1>1
<1>5. longer = Append(texts, x.text)
  <2> HIDE DEF q
  <2>1. Append(texts, x.text) \in Seq(Text) /\ Len(Append(texts, x.text)) = Len(q) + 1
        /\ DOMAIN Append(texts, x.text) = 1 .. Len(q) + 1
        /\ Append(texts, x.text)[Len(q) + 1] = x.text
        /\ \A k \in DOMAIN q : Append(texts, x.text)[k] = texts[k]
    <3> HIDE DEF texts
    <3> QED BY <1>1, <1>3
  <2>2. \A k \in 1 .. Len(q) + 1 : k \in DOMAIN q \/ k = Len(q) + 1
    BY <1>1
  <2>3. \A k \in 1 .. Len(q) + 1 : longer[k] = Append(texts, x.text)[k]
    BY <1>4, <2>1, <2>2
  <2>4. Append(texts, x.text) = [k \in 1 .. Len(q) + 1 |-> Append(texts, x.text)[k]]
    BY <2>1
  <2> QED
    BY <1>4, <2>3, <2>4
<1>6. history'[d] = Append(q, x) /\ \A e \in End : e # d => history'[e] = history[e]
  OBVIOUS
<1>7. Shown' = [e \in End |-> [k \in DOMAIN history'[e] |-> history'[e][k].text]]
  BY DEF Shown
<1>8. Shown'[d] = longer /\ Shown[d] = texts
  BY <1>6, <1>7 DEF Shown
<1>9. \A e \in End : e # d => Shown'[e] = Shown[e]
  BY <1>6, <1>7 DEF Shown
<1>10. Shown' = [e \in End |-> Shown'[e]] /\ Shown = [e \in End |-> Shown[e]]
  BY <1>7 DEF Shown
<1> HIDE DEF longer, texts
<1> QED
  BY <1>5, <1>8, <1>9, <1>10

\* The texts that an end shows are those of its history.
LEMMA ShowsHistory ==
    ASSUME NEW d \in End, NEW t, t \in Promise!Shows(d)
    PROVE  \E k \in DOMAIN history[d] : history[d][k].text = t
  BY DEF Promise!Shows, Shown

\* A row whose state was not written excuses at most its own text.
LEMMA ExcusedByRow ==
    ASSUME StoreTypes, NEW d \in End, NEW i \in RowsTo(d), UNCHANGED <<own, rows>>,
           cut' = [cut EXCEPT ![d] = @ \cup {i}]
    PROVE  UNCHANGED Excused \/ Promise!Excused(d, rows[i].text)
<1> DEFINE twice(j) == ~own /\ \E m \in DOMAIN rows \ {j} : rows[m] = rows[j]
           t == rows[i].text
<1>1. Excused = [e \in End |-> {rows[j].text : j \in {j \in cut[e] : twice(j)}}]
      /\ Excused' = [e \in End |-> {rows[j].text : j \in {j \in cut'[e] : twice(j)}}]
  BY DEF Excused
<1>2. cut'[d] = cut[d] \cup {i} /\ \A e \in End : e # d => cut'[e] = cut[e]
  BY DEF StoreTypes
<1> HIDE DEF twice
<1>3. CASE twice(i)
  <2>1. Excused'[d] = Excused[d] \cup {t} /\ \A e \in End : e # d => Excused'[e] = Excused[e]
    BY <1>1, <1>2, <1>3
  <2>2. Excused' = [Excused EXCEPT ![d] = @ \cup {t}]
    BY <1>1, <2>1
  <2> QED
    BY <2>2 DEF Promise!Excused
<1>4. CASE ~twice(i)
  <2>1. \A e \in End : Excused'[e] = Excused[e]
    BY <1>1, <1>2, <1>4
  <2> QED
    BY <1>1, <2>1
<1> QED
  BY <1>3, <1>4

LEMMA ExcusedKept ==
    ASSUME UNCHANGED <<own, rows, cut>>
    PROVE  UNCHANGED Excused
  BY DEF Excused

LEMMA ShownKept ==
    ASSUME UNCHANGED history
    PROVE  UNCHANGED Shown
  BY DEF Shown

\* Only rows whose state was not written excuse a text.
LEMMA ExcusedRow ==
    ASSUME ~own, NEW d \in End, NEW j \in cut[d], NEW i \in DOMAIN rows \ {j}, rows[i] = rows[j]
    PROVE  rows[j].text \in Excused[d]
  BY DEF Excused

\* A row that is read and is not in the history shows a text that was sent and
\* is not shown, or one that is excused.
LEMMA NewText ==
    ASSUME StoreInv, NEW d \in End, NEW i \in RowsTo(d), NEW new \in DecryptRow(d, rows[i]),
           ~Stored(d, HistoryId(i))
    PROVE  rows[i].text \in Promise!Shows(d) => rows[i].text \in Excused[d]
<1> SUFFICES ASSUME rows[i].text \in Promise!Shows(d) PROVE rows[i].text \in Excused[d]
  OBVIOUS
<1>1. PICK k \in DOMAIN history[d] : history[d][k].text = rows[i].text
  BY ShowsHistory
<1>2. ~own
  <2>1. CASE own
    <3>1. history[d][k].id = HistoryId(i)
      BY <1>1, <2>1 DEF StoreInv, HistoryNames, HistoryId
    <3> QED
      BY <3>1 DEF Stored
  <2> QED
    BY <2>1
<1>3. PICK j \in RowsTo(d) : history[d][k].id = <<"in", j>> /\ rows[j].text = rows[i].text
  BY <1>1, <1>2 DEF StoreInv, HistoryNames
<1>4. j # i
  BY <1>2, <1>3 DEF Stored, HistoryId
<1>5. rows[j] = rows[i] /\ i \in DOMAIN rows /\ j \in DOMAIN rows
  BY <1>2, <1>3 DEF StoreInv, OneMessage, RowsTo
<1>6. ~Known(d, rows[i])
  BY Decrypted DEF StoreInv
<1>7. j \in cut[d]
  BY <1>2, <1>3, <1>5, <1>6 DEF StoreInv, ShownIsKnown
<1> QED
  BY <1>2, <1>4, <1>5, <1>7, ExcusedRow

\* Reading a row shows its text, or excuses it, or neither.
LEMMA ReadDelivers ==
    ASSUME Inv, NEW d \in End, ReadRow(d)
    PROVE  [Promise!Next]_(Promise!vars)
<1>1. CallInv /\ StoreInv /\ StoreTypes /\ RowsSent /\ UNCHANGED <<own, rows, opened, sent>>
  BY RowRead DEF Inv, StoreInv
<1>2. CASE UNCHANGED <<session, history, cut>>
  BY <1>1, <1>2, ExcusedKept, ShownKept DEF Promise!vars
<1>3. CASE ~UNCHANGED <<session, history, cut>>
  <2>1. PICK i \in RowsTo(d) : \E new \in DecryptRow(d, rows[i]) :
          history' = With(d, i) /\ (UNCHANGED cut \/ cut' = [cut EXCEPT ![d] = @ \cup {i}])
    BY <1>1, <1>3, RowRead
  <2>2. PICK new \in DecryptRow(d, rows[i]) : history' = With(d, i)
    BY <2>1
  <2> DEFINE t == rows[i].text
  <2>3. Entry(i) \in HistoryRow /\ Entry(i).text = t /\ t \in Text /\ t \in sent[d]
    BY <1>1, EntryTyped
  <2>4. UNCHANGED Excused \/ Promise!Excused(d, t)
    BY <1>1, <2>1, ExcusedKept, ExcusedByRow
  <2>5. CASE Stored(d, HistoryId(i))
    <3>1. UNCHANGED Shown
      BY <2>2, <2>5, ShownKept DEF With
    <3>2. UNCHANGED Promise!vars \/ Promise!Repeat(d, t)
      BY <1>1, <2>3, <2>4, <3>1 DEF Promise!vars, Promise!Repeat
    <3> QED
      BY <2>3, <3>2 DEF Promise!Next
  <2>6. CASE ~Stored(d, HistoryId(i))
    <3>1. history' = [history EXCEPT ![d] = Append(@, Entry(i))]
      BY <2>2, <2>6 DEF With
    <3>2. Shown' = [Shown EXCEPT ![d] = Append(@, t)]
      BY <1>1, <2>3, <3>1, ShownAppend DEF StoreTypes
    <3>3. t \in Promise!Shows(d) => t \in Excused[d]
      BY <1>1, <2>6, NewText
    <3>4. Promise!Show(d, t)
      BY <1>1, <2>3, <2>4, <3>2, <3>3 DEF Promise!Show
    <3> QED
      BY <2>3, <3>4 DEF Promise!Next
  <2> QED
    BY <2>5, <2>6
<1> QED
  BY <1>2, <1>3

\* A message that leaves is sent to the other end, and excuses nothing.
LEMMA SendDelivers ==
    ASSUME StoreInv, WaitingOK, NEW d \in End, NEW t \in Text, NEW taken \in BOOLEAN,
           Deliver(d, Sealed(d), t, taken), ~own => t \notin sent[Other(d)],
           UNCHANGED <<own, history, cut>>
    PROVE  [Promise!Next]_(Promise!vars)
<1> DEFINE r == Row(d, Sealed(d), t)
<1>1. StoreTypes /\ Other(d) \in End /\ Sealed(d) \in OlmSession
  BY TwoEnds, SealedType DEF StoreInv
<1>2. UNCHANGED Shown
  BY ShownKept
<1>3. CASE ~taken
  BY <1>2, <1>3, ExcusedKept DEF Deliver, Promise!vars
<1>4. CASE taken
  <2>1. sent' = [sent EXCEPT ![Other(d)] = @ \cup {t}] /\ rows' = Append(rows, r)
    BY <1>4 DEF Deliver
  <2>2. r \in RowType /\ r.to = Other(d) /\ r.text = t
    BY <1>1, Delivered DEF StoreInv, Row
  <2> HIDE DEF r
  <2>3. /\ \A i \in DOMAIN rows : i \in DOMAIN rows' /\ rows'[i] = rows[i]
        /\ DOMAIN rows' = DOMAIN rows \cup {Len(rows) + 1}
        /\ rows'[Len(rows) + 1] = r
    BY <1>1, <2>1, <2>2, RowAppended
  <2>4. ~own => \A i \in DOMAIN rows : rows[i] # r
    BY <2>2 DEF StoreInv, RowsSent
  <2>5. ASSUME NEW e \in End PROVE Excused'[e] = Excused[e]
    <3>1. \A i \in cut[e] : i \in DOMAIN rows
      BY <1>1 DEF StoreTypes, RowsTo
    <3>2. ~own => \A i \in cut[e] : (\E j \in DOMAIN rows' \ {i} : rows'[j] = rows'[i])
                                      <=> \E j \in DOMAIN rows \ {i} : rows[j] = rows[i]
      BY <2>3, <2>4, <3>1
    <3> QED
      BY <2>3, <3>1, <3>2 DEF Excused
  <2>6. UNCHANGED Excused
    BY <2>5 DEF Excused
  <2>7. Promise!Send(Other(d), t)
    BY <1>2, <2>1, <2>6 DEF Promise!Send
  <2> QED
    BY <1>1, <2>7 DEF Promise!Next
<1> QED
  BY <1>3, <1>4

\* A row that the relay repeats excuses at most its own text.
LEMMA RepeatDelivers ==
    ASSUME StoreInv, RelayRepeats
    PROVE  [Promise!Next]_(Promise!vars)
<1>1. PICK i \in DOMAIN rows : rows' = Append(rows, rows[i])
  BY DEF RelayRepeats
<1>2. UNCHANGED <<own, history, cut, sent>> /\ StoreTypes
  BY DEF RelayRepeats, disk, StoreInv
<1>3. PICK r \in RowType : r = rows[i] /\ r.to \in End /\ r.text \in Text
  <2>1. rows[i] \in RowType
    BY <1>2 DEF StoreTypes
  <2> QED
    BY <2>1 DEF RowType
<1>4. /\ \A j \in DOMAIN rows : j \in DOMAIN rows' /\ rows'[j] = rows[j]
      /\ DOMAIN rows' = DOMAIN rows \cup {Len(rows) + 1}
      /\ rows'[Len(rows) + 1] = r /\ Len(rows) + 1 \notin DOMAIN rows
  BY <1>1, <1>2, <1>3, RowAppended
<1> DEFINE d == r.to
           t == r.text
           twice(j) == ~own /\ \E m \in DOMAIN rows \ {j} : rows[m] = rows[j]
           again(j) == twice(j) \/ (~own /\ rows[j] = r)
<1>5. \A e \in End : \A j \in cut[e] : j \in DOMAIN rows /\ rows[j].to = e
  BY <1>2 DEF StoreTypes, RowsTo
<1>6. \A e \in End : \A j \in cut[e] :
        (~own /\ \E m \in DOMAIN rows' \ {j} : rows'[m] = rows'[j]) <=> again(j)
  BY <1>4, <1>5
<1>7. Excused = [e \in End |-> {rows[j].text : j \in {j \in cut[e] : twice(j)}}]
  BY DEF Excused
<1>8. Excused' = [e \in End |-> {rows[j].text : j \in {j \in cut[e] : again(j)}}]
  <2>1. Excused' = [e \in End |-> {rows'[j].text : j \in
          {j \in cut[e] : ~own /\ \E m \in DOMAIN rows' \ {j} : rows'[m] = rows'[j]}}]
    BY <1>2 DEF Excused
  <2>2. ASSUME NEW e \in End
        PROVE  {rows'[j].text : j \in
                  {j \in cut[e] : ~own /\ \E m \in DOMAIN rows' \ {j} : rows'[m] = rows'[j]}}
               = {rows[j].text : j \in {j \in cut[e] : again(j)}}
    <3>1. \A j \in cut[e] : rows'[j].text = rows[j].text
      BY <1>4, <1>5
    <3> HIDE DEF again
    <3> QED
      BY <1>6, <3>1
  <2> QED
    BY <2>1, <2>2
<1>9. UNCHANGED Shown
  BY <1>2, ShownKept
<1>a. \A e \in End : Excused[e] = {rows[j].text : j \in {j \in cut[e] : twice(j)}}
      /\ Excused'[e] = {rows[j].text : j \in {j \in cut[e] : again(j)}}
  BY <1>7, <1>8
<1>b. \A j : again(j) <=> twice(j) \/ (~own /\ rows[j] = r)
  OBVIOUS
<1>c. \A e \in End : e # d => \A j \in cut[e] : rows[j] # r
  BY <1>5
<1> HIDE DEF twice, again
<1>10. CASE \E j \in cut[d] : ~own /\ rows[j] = r
  <2>1. Excused'[d] = Excused[d] \cup {t}
    <3>1. \A j \in cut[d] : again(j) => twice(j) \/ rows[j].text = t
      BY <1>b
    <3>2. \E j \in cut[d] : again(j) /\ rows[j].text = t
      BY <1>b, <1>10
    <3>3. \A j \in cut[d] : twice(j) => again(j)
      BY <1>b
    <3>4. Excused[d] = {rows[j].text : j \in {j \in cut[d] : twice(j)}}
          /\ Excused'[d] = {rows[j].text : j \in {j \in cut[d] : again(j)}}
      BY <1>3, <1>a
    <3> HIDE DEF t
    <3> QED
      BY <3>1, <3>2, <3>3, <3>4
  <2>2. \A e \in End : e # d => Excused'[e] = Excused[e]
    BY <1>a, <1>b, <1>c
  <2>3. Promise!Excused(d, t)
    <3>1. Excused' = [e \in End |-> Excused'[e]] /\ Excused = [e \in End |-> Excused[e]]
      BY <1>7, <1>8, <1>a
    <3>2. d \in End
      BY <1>3
    <3> HIDE DEF d, t
    <3>3. Excused' = [Excused EXCEPT ![d] = @ \cup {t}]
      BY <2>1, <2>2, <3>1, <3>2
    <3> QED
      BY <3>3 DEF Promise!Excused
  <2>4. t \in sent[d]
    BY <1>3 DEF StoreInv, RowsSent
  <2>5. Promise!Repeat(d, t)
    BY <1>2, <1>9, <2>3, <2>4 DEF Promise!Repeat
  <2> QED
    BY <1>3, <2>5 DEF Promise!Next
<1>11. CASE ~\E j \in cut[d] : ~own /\ rows[j] = r
  <2>1. \A e \in End : Excused'[e] = Excused[e]
    <3> SUFFICES ASSUME NEW e \in End PROVE \A j \in cut[e] : again(j) <=> twice(j)
      BY <1>a
    <3> QED
      BY <1>b, <1>c, <1>11
  <2>2. UNCHANGED Excused
    BY <1>7, <1>8, <2>1
  <2> QED
    BY <1>2, <1>9, <2>2 DEF Promise!vars
<1> QED
  BY <1>10, <1>11

LEMMA StepDelivers ==
    ASSUME Inv, [Next]_vars
    PROVE  [Promise!Next]_(Promise!vars)
<1>1. CallInv /\ WaitingOK /\ NoCopies /\ StoreInv
  BY DEF Inv, CallInv
<1>2. ASSUME NEW d \in End, NEW t \in Text, SendText(d, t) PROVE [Promise!Next]_(Promise!vars)
  <2>1. PICK taken \in BOOLEAN : Deliver(d, Sealed(d), t, taken)
    BY <1>2 DEF SendText
  <2>2. t \notin sent[Other(d)] /\ UNCHANGED <<own, history, cut>>
    BY <1>2 DEF SendText
  <2> QED
    BY <1>1, <2>1, <2>2, SendDelivers
<1>3. ASSUME NEW d \in End, CopyTo(d) PROVE [Promise!Next]_(Promise!vars)
  <2>1. call[d].at = "copies" /\ call[d].after <= Len(jobs[d])
    BY <1>3 DEF CopyTo, At
  <2>2. call[d].after \in Nat \ {0}
    BY <1>1, <2>1 DEF CallInv, CallsFit, CallFits
  <2>3. own /\ Job(d).text \in Text
    BY <1>1, <2>1, <2>2, CopiesAreOwn, JobsTyped
  <2>4. PICK taken \in BOOLEAN : Deliver(d, Sealed(d), Job(d).text, taken)
    BY <1>3 DEF CopyTo
  <2>5. UNCHANGED <<own, history, cut>>
    BY <1>3 DEF CopyTo
  <2> QED
    BY <1>1, <2>3, <2>4, <2>5, SendDelivers
<1>4. ASSUME NEW d \in End, ReadRow(d) PROVE [Promise!Next]_(Promise!vars)
  BY <1>4, ReadDelivers
<1>5. ASSUME NEW d \in End, DeleteConversation(d) PROVE [Promise!Next]_(Promise!vars)
  <2>1. history' = [history EXCEPT ![d] = << >>] /\ UNCHANGED <<own, rows, sent, cut>>
    BY <1>5 DEF DeleteConversation, relay
  <2>2. history \in [End -> Seq(HistoryRow)]
    BY <1>1 DEF StoreInv, StoreTypes
  <2>3. Shown' = [Shown EXCEPT ![d] = << >>]
    <3>1. history'[d] = << >> /\ \A e \in End : e # d => history'[e] = history[e]
      BY <2>1, <2>2
    <3>2. Shown' = [e \in End |-> [k \in DOMAIN history'[e] |-> history'[e][k].text]]
          /\ Shown = [e \in End |-> [k \in DOMAIN history[e] |-> history[e][k].text]]
      BY DEF Shown
    <3>3. Shown'[d] = << >> /\ \A e \in End : e # d => Shown'[e] = Shown[e]
      BY <3>1, <3>2
    <3> QED
      BY <3>2, <3>3
  <2>4. Promise!Delete(d)
    BY <2>1, <2>3, ExcusedKept DEF Promise!Delete
  <2> QED
    BY <2>4 DEF Promise!Next
<1>6. ASSUME RelayRepeats PROVE [Promise!Next]_(Promise!vars)
  BY <1>1, <1>6, RepeatDelivers
<1>7. ASSUME UNCHANGED <<own, history, rows, sent, cut>> PROVE UNCHANGED Promise!vars
  BY <1>7, ExcusedKept, ShownKept DEF Promise!vars
<1>8. ASSUME NEW d \in End,
             \/ \E t \in Text : QueueCopies(d, t)
             \/ CopyNeedsSync(d) \/ CopyDropped(d) \/ CopiesEnd(d)
      PROVE  UNCHANGED <<own, history, rows, sent, cut>>
  BY <1>8 DEF disk, relay, limits, QueueCopies, CopyNeedsSync, CopyDropped, CopiesEnd
<1>9. ASSUME NEW d \in End,
             \/ StartDrain(d) \/ StartEvent(d) \/ AckRows(d) \/ SyncOwnList(d)
      PROVE  UNCHANGED <<own, history, rows, sent, cut>>
  BY <1>9 DEF disk, relay, limits, StartDrain, StartEvent, AckRows, SyncOwnList
<1>10. ASSUME NEW d \in End,
              \/ AckFails(d) \/ SyncFails(d) \/ Restart(d) \/ TornAppend(d) \/ PairAnother(d)
       PROVE  UNCHANGED <<own, history, rows, sent, cut>>
  BY <1>10 DEF disk, relay, limits, AckFails, SyncFails, Restart, TornAppend, PairAnother
<1>11. ASSUME UNCHANGED vars
       PROVE  UNCHANGED <<own, history, rows, sent, cut>>
  BY <1>11 DEF vars, disk, relay, limits
<1> QED
  BY <1>2, <1>3, <1>4, <1>5, <1>6, <1>7, <1>8, <1>9, <1>10, <1>11 DEF Next, Worker

\* The inbox delivers what Delivery promises, whatever the interleaving of the
\* calls, the failed writes and acknowledgements, the repeated rows and the
\* restarts (handle_row, store_decrypted, drain and send_copies): a text is
\* shown at most once, only when it was sent, and stays; only a text that the
\* relay gave in two rows and whose state failed to be written may show again.
THEOREM InboxDelivers == Spec => DeliversOnce
<1>1. Init => Promise!Init
  <2> SUFFICES ASSUME Init PROVE Promise!Init
    OBVIOUS
  <2>1. sent = [d \in End |-> {}] /\ history = [d \in End |-> << >>] /\ cut = [d \in End |-> {}]
    BY DEF Init
  <2>2. Shown = [d \in End |-> << >>]
    BY <2>1 DEF Shown
  <2>3. Excused = [d \in End |-> {}]
    BY <2>1 DEF Excused
  <2> QED
    BY <2>1, <2>2, <2>3 DEF Promise!Init
<1> QED
  BY <1>1, InvInit, InvStep, StepDelivers, PTL DEF Spec, DeliversOnce, Promise!Spec

-----------------------------------------------------------------------------
(* No text is lost: the invariant beside Inv. *)

\* The text is in the history of the end, or the user deleted the history.
Kept(d, t) == deleted[d] \/ \E k \in DOMAIN history[d] : history[d][k].text = t

\* The end d opened the session of the row and then took over that of the
\* other end.
Crossed(d, r) ==
    /\ opened[r.sid] = d /\ session[d].id # r.sid
    /\ session[d].id \in DOMAIN opened /\ opened[session[d].id] = Other(d)

\* The types of what Inv says nothing of.
LossTypes ==
    /\ spent \in [End -> SUBSET Nat] /\ first \in [End -> Seq(Nat)]
    /\ made \in [End -> Seq(Nat)] /\ seen \in [End -> SUBSET Nat]
    /\ deleted \in [End -> BOOLEAN]
    /\ \A d \in End : seen[d] \subseteq RowsTo(d)

\* A message is known by its msgid, and by its place in its session.
OneMessageEach ==
    /\ \A i \in DOMAIN rows : rows[i].msgid \in 1 .. Len(rows)
    /\ \A i, j \in DOMAIN rows : rows[i].msgid = rows[j].msgid => rows[i] = rows[j]
    /\ \A i, j \in DOMAIN rows :
         (rows[i].to = rows[j].to /\ rows[i].sid = rows[j].sid /\ rows[i].n = rows[j].n)
             => rows[i] = rows[j]

\* The rows that d wrote are those of its session so far, or of the session
\* that it left.
WrittenRows ==
    \A d \in End : \A i \in RowsTo(Other(d)) :
        \/ rows[i].sid = session[d].id /\ rows[i].n <= session[d].written
        \/ Crossed(d, rows[i])

\* An end that heard in the session it opened heard the other end, which is in
\* that session; so are the rows that answer one.
Answered ==
    \A d \in End :
        /\ (session[d].id \in DOMAIN opened /\ session[d].heard /\ opened[session[d].id] = d)
               => session[Other(d)].id = session[d].id
        /\ \A i \in RowsTo(d) :
             (~rows[i].pre /\ opened[rows[i].sid] = Other(d)) => session[d].id = rows[i].sid

\* What an end read and recorded are messages of its rows, and a one-time key
\* that it spent is that of its session.
RecordsFit ==
    \A d \in End :
        /\ \A n \in session[d].read :
             \E i \in RowsTo(d) : rows[i].sid = session[d].id /\ rows[i].n = n
        /\ \A k \in DOMAIN first[d] : first[d][k] \in 1 .. Len(rows)
        /\ \A u \in Nat : (u \in spent[d] \/ \E k \in DOMAIN made[d] : made[d][k] = u) =>
             u \in DOMAIN opened /\ session[d].id = u /\ opened[u] = Other(d)

\* The session or the replay memory of d refuses the message.
WasRead(d, r) ==
    \/ r.sid = session[d].id /\ r.n \in session[d].read
    \/ \E k \in DOMAIN first[d] : first[d][k] = r.msgid

\* The text of a message that was read is kept.
ReadIsKept == \A d \in End : \A i \in RowsTo(d) : WasRead(d, rows[i]) => Kept(d, rows[i].text)

\* So is the text of a row that was handled or acknowledged.
HandledIsKept ==
    \A d \in End : \A i \in RowsTo(d) :
        ((i \in seen[d] \/ i \notin inbox[d]) /\ i \notin refused)
            => Kept(d, rows[i].text) \/ Crossed(d, rows[i])

\* Nothing that was handled is lost.
LossInv ==
    /\ LossTypes /\ OneMessageEach /\ WrittenRows /\ Answered /\ RecordsFit
    /\ ReadIsKept /\ HandledIsKept

\* The bounds of TypeOK.
CountInv ==
    /\ faults \in 0 .. MaxFaults /\ Len(rows) <= MaxRows /\ Len(opened) <= MaxSessions
    /\ \A i \in DOMAIN rows : rows[i].n \in 1 .. MaxRows + MaxFaults
    /\ \A d \in End :
         /\ session[d].written <= Len(rows) + faults
         /\ session[d].read \subseteq 1 .. MaxRows + MaxFaults
         /\ Len(jobs[d]) <= JobMax /\ list[d] \in 1 .. published
         /\ Len(made[d]) <= ReplayWindow /\ Len(first[d]) <= ReplayWindow

\* The tries of a copy: below the limit while the row is open, and counted for
\* the copy that waits.
TriesInv ==
    /\ tries \in [End -> [Rows -> 0 .. MaxTries]]
    /\ \A d \in End :
         /\ call[d].acks \subseteq seen[d]
         /\ \A i \in Rows \ seen[d] : tries[d][i] < MaxTries
         /\ \A i \in call[d].stale : i \in Rows /\ tries[d][i] >= 1

\* The inductive invariant.
SoundInv == Inv /\ LossInv /\ CountInv /\ TriesInv

-----------------------------------------------------------------------------
(* The sessions of the two ends. *)

\* A session that is not NoSession was opened, by one end or the other.
LEMMA SessionOf ==
    ASSUME StoreTypes, OneSessionEach, NEW d \in End
    PROVE  /\ session[d].id \in Nat /\ session[d].written \in Nat
           /\ session[d] # NoSession <=> session[d].id \in DOMAIN opened
           /\ session[d] # NoSession <=> session[d].id # 0
           /\ \A u \in DOMAIN opened : opened[u] \in {d, Other(d)} /\ u \in Nat \ {0}
           /\ \A u, v \in DOMAIN opened : opened[u] = opened[v] => u = v
           /\ Other(d) \in End /\ Other(Other(d)) = d /\ Other(d) # d
<1>1. session[d] \in OlmSession /\ opened \in Seq(End)
  BY DEF StoreTypes
<1>2. \A u \in DOMAIN opened : opened[u] \in End /\ u \in Nat \ {0}
  BY <1>1
<1>3. session[d].id \in Nat /\ session[d].written \in Nat
  BY <1>1 DEF OlmSession
<1>4. Other(d) \in End /\ Other(Other(d)) = d /\ Other(d) # d
      /\ \A e \in End : e \in {d, Other(d)}
  BY TwoEnds
<1>5. NoSession.id = 0
  BY DEF NoSession
<1> QED
  BY <1>2, <1>3, <1>4, <1>5 DEF OneSessionEach

\* The fields of a row.
LEMMA RowFields ==
    ASSUME StoreTypes, OneSessionEach, NEW i \in DOMAIN rows
    PROVE  /\ rows[i].to \in End /\ i \in RowsTo(rows[i].to)
           /\ rows[i].sid \in DOMAIN opened /\ rows[i].n \in Nat
           /\ rows[i].pre \in BOOLEAN /\ rows[i].msgid \in Nat /\ rows[i].text \in Text
<1>1. rows[i] \in RowType
  BY DEF StoreTypes
<1> QED
  BY <1>1 DEF RowType, RowsTo, OneSessionEach

\* An end without a session wrote nothing.
LEMMA NothingWritten ==
    ASSUME StoreTypes, OneSessionEach, WrittenRows, NEW d \in End, session[d] = NoSession
    PROVE  RowsTo(Other(d)) = {}
<1>1. session[d].id = 0 /\ 0 \notin DOMAIN opened
  BY SessionOf DEF NoSession
<1>2. \A i \in RowsTo(Other(d)) : rows[i].sid \in DOMAIN opened
  BY RowFields DEF RowsTo
<1> QED
  BY <1>1, <1>2 DEF WrittenRows, Crossed

-----------------------------------------------------------------------------
(* A message that is sealed, and may reach the relay. *)

\* The session with its next message.
LEMMA SealedNext ==
    ASSUME StoreTypes, NEW d \in End
    PROVE  /\ Sealed(d).written = session[d].written + 1
           /\ Sealed(d).read = session[d].read /\ Sealed(d).heard = session[d].heard
           /\ Sealed(d).id = IF session[d] # NoSession THEN session[d].id ELSE Len(opened) + 1
<1>1. session[d] \in OlmSession
  BY DEF StoreTypes
<1>2. CASE session[d] # NoSession
  <2>1. Sealed(d) = [session[d] EXCEPT !.written = @ + 1]
    BY <1>2 DEF Sealed
  <2> QED
    BY <1>1, <1>2, <2>1 DEF OlmSession
<1>3. CASE session[d] = NoSession
  <2>1. Sealed(d) = [NoSession EXCEPT !.id = Len(opened) + 1, !.written = 1]
    BY <1>3 DEF Sealed
  <2>2. /\ Sealed(d).written = 1 /\ Sealed(d).read = {} /\ Sealed(d).heard = FALSE
        /\ Sealed(d).id = Len(opened) + 1
    BY <2>1 DEF NoSession
  <2>3. session[d].written = 0 /\ session[d].read = {} /\ session[d].heard = FALSE
    BY <1>3 DEF NoSession
  <2> QED
    BY <1>3, <2>2, <2>3
<1> QED
  BY <1>2, <1>3

\* What a delivered message changes.
LEMMA DeliveredRow ==
    ASSUME StoreTypes, WaitingOK, NEW d \in End, NEW s \in OlmSession, NEW t \in Text,
           NEW taken \in BOOLEAN, Deliver(d, s, t, taken)
    PROVE  /\ \A i \in DOMAIN rows : i \in DOMAIN rows' /\ rows'[i] = rows[i]
           /\ \A i \in DOMAIN rows' : i \in DOMAIN rows \/ (taken /\ i = Len(rows) + 1)
           /\ taken => /\ Len(rows) + 1 \notin DOMAIN rows
                       /\ rows'[Len(rows) + 1] = Row(d, s, t)
                       /\ Len(rows') = Len(rows) + 1 /\ Len(rows) + 1 \in DOMAIN rows'
                       /\ Len(rows) + 1 \in inbox'[Other(d)]
           /\ ~taken => UNCHANGED <<rows, inbox>>
           /\ Len(rows) \in Nat /\ Len(rows) <= Len(rows')
           /\ \A e \in End : \A i \in DOMAIN rows : i \in inbox'[e] <=> i \in inbox[e]
<1>1. Other(d) \in End /\ rows \in Seq(RowType) /\ Len(rows) \in Nat
      /\ inbox \in [End -> SUBSET Nat]
  BY TwoEnds DEF StoreTypes, WaitingOK
<1>2. CASE taken
  <2>1. rows' = Append(rows, Row(d, s, t))
        /\ inbox' = [inbox EXCEPT ![Other(d)] = @ \cup {Len(rows) + 1}]
    BY <1>2 DEF Deliver
  <2>2. Row(d, s, t) \in RowType
    BY Delivered
  <2> DEFINE r == Row(d, s, t)
  <2> HIDE DEF r
  <2>3. r \in RowType /\ rows' = Append(rows, r)
    BY <2>1, <2>2 DEF r
  <2>4. /\ rows' \in Seq(RowType) /\ Len(rows') = Len(rows) + 1
        /\ rows'[Len(rows) + 1] = r
        /\ \A i \in DOMAIN rows : i \in DOMAIN rows' /\ rows'[i] = rows[i]
        /\ DOMAIN rows' = DOMAIN rows \cup {Len(rows) + 1}
    BY <2>3, RowAppended
  <2>5. Len(rows) + 1 \notin DOMAIN rows
    BY <1>1
  <2> QED
    BY <1>1, <1>2, <2>1, <2>4, <2>5 DEF r
<1>3. CASE ~taken
  BY <1>1, <1>3 DEF Deliver
<1> QED
  BY <1>2, <1>3

\* The two ends and their sessions around a sealed message, as the next lemmas
\* use them.
LEMMA SealedEnds ==
    ASSUME StoreTypes, OneSessionEach, NEW d \in End, Opens(d),
           session' = [session EXCEPT ![d] = Sealed(d)]
    PROVE  /\ session'[d] = Sealed(d) /\ session'[Other(d)] = session[Other(d)]
           /\ \A u \in DOMAIN opened : u \in DOMAIN opened' /\ opened'[u] = opened[u]
           /\ session[d] # NoSession => /\ session'[d].id = session[d].id
                                        /\ UNCHANGED opened
           /\ session[d] = NoSession => session[d].read = {} /\ ~session[d].heard
           /\ session'[d].read = session[d].read /\ session'[d].heard = session[d].heard
           /\ session'[d].written = session[d].written + 1
           /\ \A e \in End : session'[e].id \in DOMAIN opened' /\ session[e] # NoSession
                                => session[e].id \in DOMAIN opened
           /\ \A e \in End : \A u \in DOMAIN opened :
                session[e].id = u => session'[e].id = u
<1>1. session \in [End -> OlmSession]
  BY DEF StoreTypes
<1>2. /\ session'[d] = Sealed(d) /\ session'[Other(d)] = session[Other(d)]
      /\ \A e \in End : e # d => session'[e] = session[e]
  BY <1>1, TwoEnds
<1>3. \A u \in DOMAIN opened : u \in DOMAIN opened' /\ opened'[u] = opened[u]
  BY SealedSession
<1>4. session[d] # NoSession => session'[d].id = session[d].id /\ UNCHANGED opened
  BY <1>2, SealedNext DEF Opens
<1>5. session[d] = NoSession => session[d].read = {} /\ ~session[d].heard
  BY DEF NoSession
<1>6. /\ session'[d].read = session[d].read /\ session'[d].heard = session[d].heard
      /\ session'[d].written = session[d].written + 1
  BY <1>2, SealedNext
<1>7. \A e \in End : session[e] # NoSession => session[e].id \in DOMAIN opened
  BY SessionOf
<1>8. \A e \in End : \A u \in DOMAIN opened : session[e].id = u => session'[e].id = u
  BY <1>2, <1>4, SessionOf
<1> QED
  BY <1>2, <1>3, <1>4, <1>5, <1>6, <1>7, <1>8

\* The end that left its session stays with that of the other end.
LEMMA CrossedSealed ==
    ASSUME StoreTypes, OneSessionEach, NEW d \in End, Opens(d),
           session' = [session EXCEPT ![d] = Sealed(d)],
           NEW e \in End, NEW i \in DOMAIN rows, rows'[i] = rows[i], Crossed(e, rows[i])
    PROVE  Crossed(e, rows[i])'
<1>1. rows[i].sid \in DOMAIN opened
  BY RowFields
<1>2. /\ opened[rows[i].sid] = e /\ session[e].id # rows[i].sid
      /\ session[e].id \in DOMAIN opened /\ opened[session[e].id] = Other(e)
  BY DEF Crossed
<1>3. session'[e].id = session[e].id
  BY <1>2, SealedEnds
<1>4. \A u \in DOMAIN opened : u \in DOMAIN opened' /\ opened'[u] = opened[u]
  BY SealedEnds
<1> QED
  BY <1>1, <1>2, <1>3, <1>4 DEF Crossed

\* The next message of a session is not one of the rows.
LEMMA SealedIsNew ==
    ASSUME StoreTypes, OneSessionEach, WrittenRows, NEW d \in End, Opens(d),
           session' = [session EXCEPT ![d] = Sealed(d)], NEW i \in RowsTo(Other(d))
    PROVE  ~(rows[i].sid = Sealed(d).id /\ rows[i].n = Sealed(d).written)
<1>1. session[d] # NoSession
  BY NothingWritten
<1>2. Sealed(d).id = session[d].id /\ Sealed(d).written = session[d].written + 1
      /\ session[d].written \in Nat
  BY <1>1, SealedNext, SessionOf
<1>3. rows[i].n \in Nat
  BY RowFields DEF RowsTo
<1> QED
  BY <1>2, <1>3 DEF WrittenRows, Crossed

\* A message that is sealed, and may reach the relay, keeps LossInv.
LEMMA SendKeepsLoss ==
    ASSUME Inv, LossInv, NEW d \in End, NEW t \in Text, NEW taken \in BOOLEAN,
           Opens(d), session' = [session EXCEPT ![d] = Sealed(d)],
           Deliver(d, Sealed(d), t, taken),
           UNCHANGED <<spent, first, made, history, seen, deleted, refused>>
    PROVE  LossInv'
<1> DEFINE s == Sealed(d)
           new == Len(rows) + 1
<1>1. StoreTypes /\ OneSessionEach /\ WaitingOK
  BY DEF Inv, StoreInv, CallInv
<1>2. /\ LossTypes /\ OneMessageEach /\ WrittenRows /\ Answered /\ RecordsFit
      /\ ReadIsKept /\ HandledIsKept
  BY DEF LossInv
<1>3. s \in OlmSession
  BY <1>1, SealedType
<1>4. /\ \A i \in DOMAIN rows : i \in DOMAIN rows' /\ rows'[i] = rows[i]
      /\ \A i \in DOMAIN rows' : i \in DOMAIN rows \/ (taken /\ i = new)
      /\ taken => /\ new \notin DOMAIN rows
                  /\ rows'[new] = Row(d, s, t)
                  /\ Len(rows') = new /\ new \in DOMAIN rows' /\ new \in inbox'[Other(d)]
      /\ ~taken => UNCHANGED <<rows, inbox>>
      /\ Len(rows) \in Nat /\ Len(rows) <= Len(rows')
      /\ \A e \in End : \A i \in DOMAIN rows : i \in inbox'[e] <=> i \in inbox[e]
  BY <1>1, <1>3, DeliveredRow
<1>5. taken => /\ rows'[new].to = Other(d) /\ rows'[new].sid = s.id /\ rows'[new].n = s.written
               /\ rows'[new].pre = ~s.heard /\ rows'[new].msgid = new
  BY <1>4 DEF Row
<1>6. /\ session'[d] = s /\ session'[Other(d)] = session[Other(d)]
      /\ \A u \in DOMAIN opened : u \in DOMAIN opened' /\ opened'[u] = opened[u]
      /\ session[d] # NoSession => session'[d].id = session[d].id /\ UNCHANGED opened
      /\ session[d] = NoSession => session[d].read = {} /\ ~session[d].heard
      /\ session'[d].read = session[d].read /\ session'[d].heard = session[d].heard
      /\ session'[d].written = session[d].written + 1
      /\ \A e \in End : \A u \in DOMAIN opened : session[e].id = u => session'[e].id = u
  BY <1>1, SealedEnds
<1>7. /\ Other(d) \in End /\ Other(d) # d /\ Other(Other(d)) = d
      /\ \A e \in End : e = d \/ e = Other(d)
      /\ session[d].written \in Nat
  BY <1>1, SessionOf, TwoEnds
<1>8. \A e \in End : \A i \in RowsTo(e)' : \/ i \in RowsTo(e) /\ rows'[i] = rows[i]
                                           \/ taken /\ i = new /\ e = Other(d)
  BY <1>4, <1>5 DEF RowsTo
<1>9. \A e \in End : RowsTo(e) \subseteq RowsTo(e)' /\ RowsTo(e) \subseteq DOMAIN rows
  BY <1>4 DEF RowsTo
<1>10. \A e \in End : \A i \in DOMAIN rows : Crossed(e, rows[i]) => Crossed(e, rows[i])'
  BY <1>1, <1>4, CrossedSealed
<1>11. \A i \in RowsTo(Other(d)) : ~(rows[i].sid = s.id /\ rows[i].n = s.written)
  BY <1>1, <1>2, SealedIsNew
<1>12. \A i \in DOMAIN rows : rows[i].sid \in DOMAIN opened /\ rows[i].msgid \in Nat
                              /\ rows[i].n \in Nat
  BY <1>1, RowFields
<1>13. \A e \in End : session[e] # NoSession <=> session[e].id \in DOMAIN opened
  BY <1>1, SessionOf
<1>14. LossTypes'
  BY <1>2, <1>9 DEF LossTypes
<1>15. OneMessageEach'
  <2>1. \A i \in DOMAIN rows' : rows'[i].msgid \in 1 .. Len(rows')
    BY <1>2, <1>4, <1>5 DEF OneMessageEach
  <2>2. \A i \in DOMAIN rows : rows'[i].msgid # new
    BY <1>2, <1>4 DEF OneMessageEach
  <2>3. \A i, j \in DOMAIN rows' : rows'[i].msgid = rows'[j].msgid => rows'[i] = rows'[j]
    BY <1>2, <1>4, <1>5, <2>2 DEF OneMessageEach
  <2>4. ASSUME NEW i \in DOMAIN rows, taken, rows'[i].to = Other(d), rows'[i].sid = s.id,
               rows'[i].n = s.written
        PROVE  FALSE
    BY <1>4, <1>11, <2>4 DEF RowsTo
  <2>5. ASSUME NEW i \in DOMAIN rows', NEW j \in DOMAIN rows', rows'[i].to = rows'[j].to,
               rows'[i].sid = rows'[j].sid, rows'[i].n = rows'[j].n
        PROVE  rows'[i] = rows'[j]
    <3>1. CASE i \in DOMAIN rows /\ j \in DOMAIN rows
      BY <1>2, <1>4, <2>5, <3>1 DEF OneMessageEach
    <3>2. CASE i \notin DOMAIN rows \/ j \notin DOMAIN rows
      BY <1>4, <1>5, <2>4, <2>5, <3>2
    <3> QED
      BY <3>1, <3>2
  <2> QED
    BY <2>1, <2>3, <2>5 DEF OneMessageEach
<1>16. WrittenRows'
  <2>1. ASSUME NEW e \in End, NEW i \in RowsTo(Other(e))'
        PROVE  \/ rows'[i].sid = session'[e].id /\ rows'[i].n <= session'[e].written
               \/ Crossed(e, rows[i])'
    <3>1. Other(e) \in End
      BY TwoEnds
    <3>2. CASE i \in RowsTo(Other(e)) /\ rows'[i] = rows[i]
      <4>1. CASE Crossed(e, rows[i])
        BY <1>9, <1>10, <3>1, <3>2, <4>1
      <4>2. CASE rows[i].sid = session[e].id /\ rows[i].n <= session[e].written
        <5>1. rows[i].sid = session'[e].id
          BY <1>6, <1>9, <1>12, <3>1, <3>2, <4>2
        <5>2. session'[e].written >= session[e].written /\ session[e].written \in Nat
              /\ session'[e].written \in Nat
          BY <1>1, <1>6, <1>7, SessionOf
        <5>3. rows[i].n \in Nat
          BY <1>9, <1>12, <3>1, <3>2
        <5> QED
          BY <3>2, <4>2, <5>1, <5>2, <5>3
      <4> QED
        BY <1>2, <3>2, <4>1, <4>2 DEF WrittenRows
    <3>3. CASE taken /\ i = new /\ Other(e) = Other(d)
      <4>1. e = d
        BY <1>7, <3>3
      <4>2. s.written \in Nat
        BY <1>3 DEF OlmSession
      <4> QED
        BY <1>5, <1>6, <3>3, <4>1, <4>2
    <3> QED
      BY <1>8, <3>1, <3>2, <3>3
  <2> QED
    BY <2>1 DEF WrittenRows
<1>17. Answered'
  <2>1. ASSUME NEW e \in End, session'[e].id \in DOMAIN opened', session'[e].heard,
               opened'[session'[e].id] = e
        PROVE  session'[Other(e)].id = session'[e].id
    <3>1. session[e].id \in DOMAIN opened /\ session[e].heard
      <4>1. CASE e = d
        BY <1>6, <1>13, <2>1, <4>1
      <4>2. CASE e = Other(d)
        <5>1. session[e] # NoSession
          BY <1>6, <2>1, <4>2 DEF NoSession
        <5> QED
          BY <1>6, <1>13, <2>1, <4>2, <5>1
      <4> QED
        BY <1>7, <4>1, <4>2
    <3>2. session'[e].id = session[e].id /\ opened[session[e].id] = e
      BY <1>6, <2>1, <3>1
    <3>3. session[Other(e)].id = session[e].id
      BY <1>2, <3>1, <3>2 DEF Answered
    <3> QED
      BY <1>6, <3>1, <3>2, <3>3, TwoEnds
  <2>2. ASSUME NEW e \in End, NEW i \in RowsTo(e)', ~rows'[i].pre,
               opened'[rows'[i].sid] = Other(e)
        PROVE  session'[e].id = rows'[i].sid
    <3>1. CASE i \in RowsTo(e) /\ rows'[i] = rows[i]
      BY <1>2, <1>6, <1>9, <1>12, <2>2, <3>1 DEF Answered
    <3>2. CASE taken /\ i = new /\ e = Other(d)
      <4>1. s.heard /\ rows'[i].sid = s.id
        BY <1>3, <1>5, <2>2, <3>2 DEF OlmSession
      <4>2. session[d] # NoSession /\ session[d].heard
        BY <1>6, <4>1
      <4>3. s.id = session[d].id /\ session[d].id \in DOMAIN opened
        BY <1>6, <1>13, <4>2
      <4>4. opened[session[d].id] = d
        BY <1>6, <1>7, <2>2, <3>2, <4>1, <4>3
      <4>5. session[Other(d)].id = session[d].id
        BY <1>2, <4>2, <4>3, <4>4 DEF Answered
      <4> QED
        BY <1>6, <3>2, <4>1, <4>3, <4>5
    <3> QED
      BY <1>8, <2>2, <3>1, <3>2
  <2> QED
    BY <2>1, <2>2 DEF Answered
<1>18. RecordsFit'
  <2>1. ASSUME NEW e \in End, NEW n \in session'[e].read
        PROVE  \E i \in RowsTo(e)' : rows'[i].sid = session'[e].id /\ rows'[i].n = n
    <3>1. n \in session[e].read
      BY <1>6, <1>7, <2>1
    <3>2. PICK i \in RowsTo(e) : rows[i].sid = session[e].id /\ rows[i].n = n
      BY <1>2, <3>1 DEF RecordsFit
    <3>3. session'[e].id = session[e].id
      BY <1>6, <1>9, <1>12, <3>2
    <3> QED
      BY <1>4, <1>9, <3>2, <3>3
  <2>2. ASSUME NEW e \in End, NEW k \in DOMAIN first'[e]
        PROVE  first'[e][k] \in 1 .. Len(rows')
    <3>1. first[e][k] \in 1 .. Len(rows)
      BY <1>2, <2>2 DEF RecordsFit
    <3>2. Len(rows) \in Nat /\ Len(rows) <= Len(rows') /\ Len(rows') \in Nat
      BY <1>4
    <3> QED
      BY <3>1, <3>2
  <2>3. ASSUME NEW e \in End, NEW u \in Nat,
               u \in spent'[e] \/ \E k \in DOMAIN made'[e] : made'[e][k] = u
        PROVE  u \in DOMAIN opened' /\ session'[e].id = u /\ opened'[u] = Other(e)
    <3>1. u \in DOMAIN opened /\ session[e].id = u /\ opened[u] = Other(e)
      BY <1>2, <2>3 DEF RecordsFit
    <3> QED
      BY <1>6, <3>1
  <2> QED
    BY <2>1, <2>2, <2>3 DEF RecordsFit
<1>19. ReadIsKept'
  <2> SUFFICES ASSUME NEW e \in End, NEW i \in RowsTo(e)', WasRead(e, rows[i])'
               PROVE  Kept(e, rows[i].text)'
    BY DEF ReadIsKept
  <2>1. CASE i \in RowsTo(e) /\ rows'[i] = rows[i]
    <3>1. WasRead(e, rows[i])
      <4>1. CASE \E k \in DOMAIN first[e] : first[e][k] = rows[i].msgid
        BY <4>1 DEF WasRead
      <4>2. CASE rows[i].sid = session'[e].id /\ rows[i].n \in session'[e].read
        <5>1. session'[e].read = session[e].read
          BY <1>6, <1>7
        <5>2. session[e].id = session'[e].id
          <6>1. CASE e = d
            BY <1>6, <4>2, <6>1
          <6>2. CASE e = Other(d)
            BY <1>6, <6>2
          <6> QED
            BY <1>7, <6>1, <6>2
        <5> QED
          BY <4>2, <5>1, <5>2 DEF WasRead
      <4> QED
        BY <2>1, <4>1, <4>2 DEF WasRead
    <3>2. Kept(e, rows[i].text)
      BY <1>2, <2>1, <3>1 DEF ReadIsKept
    <3> QED
      BY <2>1, <3>2 DEF Kept
  <2>2. CASE taken /\ i = new /\ e = Other(d)
    <3>1. CASE \E k \in DOMAIN first[e] : first[e][k] = new
      <4>1. new \in 1 .. Len(rows)
        BY <1>2, <3>1 DEF RecordsFit
      <4> QED
        BY <1>4, <4>1
    <3>2. CASE s.id = session[e].id /\ s.written \in session[e].read
      <4>1. PICK j \in RowsTo(e) : rows[j].sid = session[e].id /\ rows[j].n = s.written
        BY <1>2, <3>2 DEF RecordsFit
      <4> QED
        BY <1>11, <2>2, <3>2, <4>1
    <3> QED
      BY <1>5, <1>6, <2>2, <3>1, <3>2 DEF WasRead
  <2> QED
    BY <1>8, <2>1, <2>2
<1>20. HandledIsKept'
  <2> SUFFICES ASSUME NEW e \in End, NEW i \in RowsTo(e)',
                      i \in seen'[e] \/ i \notin inbox'[e], i \notin refused'
               PROVE  Kept(e, rows[i].text)' \/ Crossed(e, rows[i])'
    BY DEF HandledIsKept
  <2>1. CASE i \in RowsTo(e) /\ rows'[i] = rows[i]
    <3>1. i \in DOMAIN rows /\ (i \in seen[e] \/ i \notin inbox[e]) /\ i \notin refused
      BY <1>4, <1>9, <2>1
    <3>2. Kept(e, rows[i].text) \/ Crossed(e, rows[i])
      BY <1>2, <2>1, <3>1 DEF HandledIsKept
    <3>3. Kept(e, rows[i].text) => Kept(e, rows[i].text)'
      BY <2>1 DEF Kept
    <3> QED
      BY <1>10, <3>1, <3>2, <3>3
  <2>2. CASE taken /\ i = new /\ e = Other(d)
    <3>1. i \notin seen[e]
      BY <1>2, <1>4, <1>9, <2>2 DEF LossTypes
    <3> QED
      BY <1>4, <2>2, <3>1
  <2> QED
    BY <1>8, <2>1, <2>2
<1> QED
  BY <1>14, <1>15, <1>16, <1>17, <1>18, <1>19, <1>20 DEF LossInv

-----------------------------------------------------------------------------
(* A row that is read. *)

\* The ids that record keeps are among the old ones and the new one.
LEMMA RecordedIds ==
    ASSUME NEW q \in Seq(Nat), NEW u \in Nat
    PROVE  /\ Recorded(q, u) \in Seq(Nat)
           /\ Len(q) <= ReplayWindow => Len(Recorded(q, u)) <= ReplayWindow
           /\ \A k \in DOMAIN Recorded(q, u) :
                Recorded(q, u)[k] = u \/ \E m \in DOMAIN q : Recorded(q, u)[k] = q[m]
<1>1. ReplayWindow \in Nat \ {0} /\ Len(q) \in Nat
  BY InboxConstants
<1>2. ASSUME NEW p \in Seq(Nat)
      PROVE  /\ Append(p, u) \in Seq(Nat) /\ Len(Append(p, u)) = Len(p) + 1 /\ Len(p) \in Nat
             /\ \A k \in DOMAIN Append(p, u) :
                  Append(p, u)[k] = u \/ (k \in DOMAIN p /\ Append(p, u)[k] = p[k])
  OBVIOUS
<1>3. CASE Len(q) >= ReplayWindow
  <2>1. q # << >>
    BY <1>1, <1>3
  <2>2. /\ Tail(q) \in Seq(Nat) /\ Len(Tail(q)) = Len(q) - 1
        /\ \A k \in DOMAIN Tail(q) : k + 1 \in DOMAIN q /\ Tail(q)[k] = q[k + 1]
    BY <2>1
  <2>3. Recorded(q, u) = Append(Tail(q), u)
    BY <1>3 DEF Recorded
  <2> QED
    BY <1>1, <1>2, <2>2, <2>3
<1>4. CASE ~(Len(q) >= ReplayWindow)
  <2>1. Recorded(q, u) = Append(q, u)
    BY <1>4 DEF Recorded
  <2> QED
    BY <1>1, <1>2, <1>4, <2>1
<1> QED
  BY <1>3, <1>4

\* The text of a row that an end refuses to decrypt is kept, or the row belongs
\* to the session that the end left.
LEMMA RefusedRow ==
    ASSUME StoreTypes, OneSessionEach, LossInv, NEW d \in End, NEW i \in RowsTo(d),
           DecryptRow(d, rows[i]) = {}
    PROVE  Kept(d, rows[i].text) \/ Crossed(d, rows[i])
<1> DEFINE r == rows[i]
<1>1. /\ LossTypes /\ Answered /\ RecordsFit /\ ReadIsKept
  BY DEF LossInv
<1>2. i \in DOMAIN rows /\ r.sid \in DOMAIN opened /\ r.msgid \in Nat /\ r.sid \in Nat
  BY RowFields, SessionOf DEF RowsTo
<1>3. WasRead(d, r) => Kept(d, r.text)
  BY <1>1 DEF ReadIsKept
<1>4. CASE r.pre
  <2>1. \/ r.msgid \in ToSet(first[d])
        \/ session[d].id = r.sid /\ r.n \in session[d].read
        \/ session[d].id # r.sid /\ (r.sid \in spent[d] \/ r.sid \in ToSet(made[d]))
    BY <1>4 DEF DecryptRow, OpenedPreKey
  <2>2. CASE r.msgid \in ToSet(first[d]) \/ (session[d].id = r.sid /\ r.n \in session[d].read)
    BY <1>3, <2>2 DEF WasRead, ToSet
  <2>3. CASE session[d].id # r.sid /\ (r.sid \in spent[d] \/ r.sid \in ToSet(made[d]))
    BY <1>1, <1>2, <2>3 DEF RecordsFit, ToSet
  <2> QED
    BY <2>1, <2>2, <2>3
<1>5. CASE ~r.pre
  <2>1. session[d].id # r.sid \/ r.n \in session[d].read
    BY <1>5 DEF DecryptRow, OpenedNormal
  <2>2. CASE session[d].id = r.sid
    BY <1>3, <2>1, <2>2 DEF WasRead
  <2>3. CASE session[d].id # r.sid
    <3>1. opened[r.sid] # Other(d)
      BY <1>1, <1>5, <2>3 DEF Answered
    <3>2. opened[r.sid] = d
      BY <1>2, <3>1, SessionOf
    <3>3. session[d] # NoSession
      BY <1>2, <3>2 DEF OneSessionEach
    <3>4. session[d].id \in DOMAIN opened /\ opened[session[d].id] # d
      BY <1>2, <2>3, <3>2, <3>3, SessionOf
    <3>5. opened[session[d].id] = Other(d)
      BY <3>4, SessionOf
    <3> QED
      BY <2>3, <3>2, <3>4, <3>5 DEF Crossed
  <2> QED
    BY <2>2, <2>3
<1> QED
  BY <1>4, <1>5

\* A step that leaves the sessions, the records and the rows alone, and that
\* handles or acknowledges only what is kept, keeps LossInv.
LEMMA QuietKeepsLoss ==
    ASSUME LossInv, UNCHANGED <<session, spent, first, made, rows, opened>>,
           deleted' \in [End -> BOOLEAN], seen' \in [End -> SUBSET Nat],
           \A d \in End : seen'[d] \subseteq RowsTo(d),
           \A d \in End : \A i \in RowsTo(d) : Kept(d, rows[i].text) => Kept(d, rows[i].text)',
           \A d \in End : \A i \in RowsTo(d) :
               ((i \in seen'[d] \/ i \notin inbox'[d]) /\ i \notin refused') =>
                   \/ (i \in seen[d] \/ i \notin inbox[d]) /\ i \notin refused
                   \/ Kept(d, rows[i].text)' \/ Crossed(d, rows[i])
    PROVE  LossInv'
<1>1. /\ LossTypes /\ OneMessageEach /\ WrittenRows /\ Answered /\ RecordsFit
      /\ ReadIsKept /\ HandledIsKept
  BY DEF LossInv
<1>2. \A d \in End : RowsTo(d)' = RowsTo(d)
  BY RowsKept
<1>3. \A d \in End : \A i \in DOMAIN rows : Crossed(d, rows[i])' <=> Crossed(d, rows[i])
  BY DEF Crossed
<1>4. LossTypes'
  BY <1>1, <1>2 DEF LossTypes
<1>5. OneMessageEach'
  BY <1>1 DEF OneMessageEach
<1>6. WrittenRows'
  <2>1. \A d \in End : RowsTo(Other(d))' = RowsTo(Other(d)) /\ RowsTo(Other(d)) \subseteq DOMAIN rows
    BY <1>2, TwoEnds DEF RowsTo
  <2> QED
    BY <1>1, <1>3, <2>1 DEF WrittenRows
<1>7. Answered'
  BY <1>1, <1>2 DEF Answered
<1>8. RecordsFit'
  BY <1>1, <1>2 DEF RecordsFit
<1>9. ReadIsKept'
  BY <1>1, <1>2 DEF ReadIsKept, WasRead
<1>10. HandledIsKept'
  BY <1>1, <1>2, <1>3 DEF HandledIsKept, RowsTo
<1> QED
  BY <1>4, <1>5, <1>6, <1>7, <1>8, <1>9, <1>10 DEF LossInv

\* The history with the row i keeps every text, and has that of the row.
LEMMA WithKeeps ==
    ASSUME StoreInv, NEW d \in End, NEW i \in RowsTo(d), history' = With(d, i), UNCHANGED deleted
    PROVE  /\ \A e \in End : \A j \in RowsTo(e) :
                Kept(e, rows[j].text) => deleted'[e]
                    \/ \E k \in DOMAIN history'[e] : history'[e][k].text = rows[j].text
           /\ \E k \in DOMAIN history'[d] : history'[d][k].text = rows[i].text
<1>1. StoreTypes /\ RowsSent /\ HistoryNames
  BY DEF StoreInv
<1>2. history \in [End -> Seq(HistoryRow)] /\ Entry(i) \in HistoryRow
      /\ Entry(i).id = HistoryId(i) /\ Entry(i).text = rows[i].text
  BY <1>1, EntryTyped DEF StoreTypes
<1>3. CASE Stored(d, HistoryId(i))
  <2>1. PICK k \in DOMAIN history[d] : history[d][k].id = HistoryId(i)
    BY <1>3 DEF Stored
  <2>2. history[d][k].text = rows[i].text
    <3>1. CASE own
      <4>1. history[d][k].id = <<"own", history[d][k].text>>
        BY <1>1, <3>1 DEF HistoryNames
      <4>2. history[d][k].id = <<"own", rows[i].text>>
        BY <2>1, <3>1 DEF HistoryId
      <4> QED
        BY <4>1, <4>2
    <3>2. CASE ~own
      <4>1. PICK j \in RowsTo(d) : history[d][k].id = <<"in", j>>
                                   /\ rows[j].text = history[d][k].text
        BY <1>1, <3>2 DEF HistoryNames
      <4>2. history[d][k].id = <<"in", i>>
        BY <2>1, <3>2 DEF HistoryId
      <4>3. j = i
        BY <4>1, <4>2
      <4> QED
        BY <4>1, <4>3
    <3> QED
      BY <3>1, <3>2
  <2>3. UNCHANGED history
    BY <1>3 DEF With
  <2> QED
    BY <2>1, <2>2, <2>3 DEF Kept
<1>4. CASE ~Stored(d, HistoryId(i))
  <2> DEFINE q == history[d]
             x == Entry(i)
  <2>1. history' = [history EXCEPT ![d] = Append(q, x)]
    BY <1>4 DEF With
  <2>2. q \in Seq(HistoryRow) /\ x \in HistoryRow /\ x.text = rows[i].text
    BY <1>2
  <2> HIDE DEF q, x
  <2>3. /\ \A k \in DOMAIN q : k \in DOMAIN Append(q, x) /\ Append(q, x)[k] = q[k]
        /\ Len(q) + 1 \in DOMAIN Append(q, x) /\ Append(q, x)[Len(q) + 1] = x
    BY <2>2
  <2>4. history'[d] = Append(q, x) /\ \A e \in End : e # d => history'[e] = history[e]
    BY <1>2, <2>1
  <2>5. \A e \in End : \A k \in DOMAIN history[e] :
          k \in DOMAIN history'[e] /\ history'[e][k] = history[e][k]
    BY <2>3, <2>4 DEF q
  <2>6. \E k \in DOMAIN history'[d] : history'[d][k].text = rows[i].text
    BY <2>2, <2>3, <2>4
  <2>7. \A e \in End : \A j \in RowsTo(e) : Kept(e, rows[j].text) => deleted'[e]
            \/ \E k \in DOMAIN history'[e] : history'[e][k].text = rows[j].text
    BY <2>5 DEF Kept
  <2> QED
    BY <2>6, <2>7
<1> QED
  BY <1>3, <1>4

\* What reading a row does to the disk and to the handled rows.
LEMMA RowOutcome ==
    ASSUME NEW d \in End, NEW i, NEW out, HandleRow(d, i, out)
    PROVE  /\ refused \subseteq refused'
           /\ \/ UNCHANGED <<session, spent, first, made, history, seen>>
              \/ /\ UNCHANGED <<session, spent, first, made, history>>
                 /\ seen' = [seen EXCEPT ![d] = @ \cup {i}]
                 /\ i \in refused' \/ DecryptRow(d, rows[i]) = {}
              \/ \E new \in DecryptRow(d, rows[i]) :
                   /\ history' = With(d, i) /\ SetInbound(d, new)
                   /\ seen' = [seen EXCEPT ![d] = @ \cup {i}]
              \/ history' = With(d, i) /\ UNCHANGED <<session, spent, first, made, seen>>
<1>1. CASE i \in seen[d]
  BY <1>1 DEF HandleRow
<1>2. CASE i \notin seen[d]
  <2>1. /\ ReceiveMessage(d, i, out)
        /\ seen' = IF Acknowledged(out) THEN [seen EXCEPT ![d] = @ \cup {i}] ELSE seen
    BY <1>2 DEF HandleRow
  <2>2. CASE StaleOrRefuse(d, i, out)
    <3>1. /\ UNCHANGED <<session, spent, first, made, history>>
          /\ refused' = IF out = "StaleList" THEN refused ELSE refused \cup {i}
          /\ out = "StaleList" \/ out = "Undecryptable"
      BY <2>2 DEF StaleOrRefuse
    <3> QED
      BY <2>1, <3>1 DEF Acknowledged
  <2>3. CASE Unreadable(out) /\ DecryptRow(d, rows[i]) = {}
    BY <2>1, <2>3 DEF Unreadable, Acknowledged
  <2>4. ASSUME NEW new \in DecryptRow(d, rows[i]), StoreDecrypted(d, i, new, out)
        PROVE  /\ refused' = refused
               /\ \/ /\ history' = With(d, i) /\ SetInbound(d, new)
                     /\ seen' = [seen EXCEPT ![d] = @ \cup {i}]
                  \/ history' = With(d, i) /\ UNCHANGED <<session, spent, first, made, seen>>
                  \/ UNCHANGED <<session, spent, first, made, history, seen>>
    <3>1. /\ refused' = refused
          /\ \/ out = "Stored" /\ history' = With(d, i) /\ SetInbound(d, new)
             \/ /\ out = "StoreFailed" /\ UNCHANGED <<session, spent, first, made>>
                /\ history' = With(d, i) \/ UNCHANGED history
      BY <2>4 DEF StoreDecrypted, With, Entry
    <3> QED
      BY <2>1, <3>1 DEF Acknowledged
  <2> QED
    BY <2>1, <2>2, <2>3, <2>4 DEF ReceiveMessage
<1> QED
  BY <1>1, <1>2

\* The state behind a row that was decrypted: the session of the row, which is
\* the stored one with one message more, or that of the other end.
LEMMA DecryptedState ==
    ASSUME StoreTypes, OneSessionEach, LossTypes, NEW d \in End, NEW i \in RowsTo(d),
           NEW new \in DecryptRow(d, rows[i])
    PROVE  /\ new.session.id = rows[i].sid /\ new.session.heard
           /\ \/ /\ session[d].id = rows[i].sid /\ new.session.written = session[d].written
                 /\ new.session.read = session[d].read \cup {rows[i].n}
                 /\ new.spent = spent[d] /\ new.made = made[d]
              \/ /\ session[d].id # rows[i].sid /\ opened[rows[i].sid] = Other(d)
                 /\ new.session.written = 0 /\ new.session.read = {rows[i].n}
                 /\ new.spent = spent[d] \cup {rows[i].sid}
                 /\ new.made = Recorded(made[d], rows[i].sid)
           /\ new.first = first[d] \/ new.first = Recorded(first[d], rows[i].msgid)
<1> DEFINE r == rows[i]
<1>1. i \in DOMAIN rows /\ r \in RowType /\ r.to = d /\ session[d] \in OlmSession
  BY DEF StoreTypes, RowsTo
<1>2. ASSUME NEW s \in OlmSession
      PROVE  /\ Heard(s, r.n).heard /\ Heard(s, r.n).id = s.id
             /\ Heard(s, r.n).written = s.written /\ Heard(s, r.n).read = s.read \cup {r.n}
  BY <1>1 DEF Heard, OlmSession
<1>3. CASE r.pre
  <2> DEFINE fresh == [NoSession EXCEPT !.id = r.sid]
  <2>1. fresh \in OlmSession /\ fresh.id = r.sid /\ fresh.written = 0 /\ fresh.read = {}
    BY <1>1 DEF NoSession, OlmSession, RowType
  <2>2. opened[r.sid] = Other(d)
    BY <1>1, <1>3 DEF OneSessionEach
  <2>3. CASE session[d].id = r.sid
    <3>1. /\ new.session = Heard(session[d], r.n) /\ new.spent = spent[d] /\ new.made = made[d]
          /\ new.first = Recorded(first[d], r.msgid)
      BY <1>3, <2>3 DEF DecryptRow, OpenedPreKey
    <3> QED
      BY <1>1, <1>2, <2>3, <3>1
  <2>4. CASE session[d].id # r.sid
    <3>1. /\ new.session = Heard(fresh, r.n) /\ new.spent = spent[d] \cup {r.sid}
          /\ new.made = Recorded(made[d], r.sid) /\ new.first = Recorded(first[d], r.msgid)
      BY <1>3, <2>4 DEF DecryptRow, OpenedPreKey
    <3> HIDE DEF fresh
    <3>2. /\ Heard(fresh, r.n).heard /\ Heard(fresh, r.n).id = r.sid
          /\ Heard(fresh, r.n).written = 0 /\ Heard(fresh, r.n).read = {r.n}
      BY <1>2, <2>1
    <3> QED
      BY <2>2, <2>4, <3>1, <3>2
  <2> QED
    BY <2>3, <2>4
<1>4. CASE ~r.pre
  <2>1. /\ new.session = Heard(session[d], r.n) /\ session[d].id = r.sid
        /\ new.spent = spent[d] /\ new.made = made[d] /\ new.first = first[d]
    BY <1>4 DEF DecryptRow, OpenedNormal
  <2> QED
    BY <1>1, <1>2, <2>1
<1> QED
  BY <1>3, <1>4

\* A row that is read and stored keeps LossInv.
LEMMA StoredKeepsLoss ==
    ASSUME Inv, LossInv, NEW d \in End, NEW i \in RowsTo(d), NEW new \in DecryptRow(d, rows[i]),
           history' = With(d, i), SetInbound(d, new), seen' = [seen EXCEPT ![d] = @ \cup {i}],
           refused \subseteq refused', UNCHANGED <<rows, opened, deleted, inbox>>
    PROVE  LossInv'
<1> DEFINE r == rows[i]
           e == Other(d)
           same == session[d].id = r.sid
<1>1. StoreInv /\ StoreTypes /\ OneSessionEach
  BY DEF Inv, StoreInv
<1>2. /\ LossTypes /\ OneMessageEach /\ WrittenRows /\ Answered /\ RecordsFit
      /\ ReadIsKept /\ HandledIsKept
  BY DEF LossInv
<1>3. /\ new.session.id = r.sid /\ new.session.heard
      /\ \/ /\ same /\ new.session.written = session[d].written
            /\ new.session.read = session[d].read \cup {r.n}
            /\ new.spent = spent[d] /\ new.made = made[d]
         \/ /\ ~same /\ opened[r.sid] = e
            /\ new.session.written = 0 /\ new.session.read = {r.n}
            /\ new.spent = spent[d] \cup {r.sid} /\ new.made = Recorded(made[d], r.sid)
      /\ new.first = first[d] \/ new.first = Recorded(first[d], r.msgid)
  BY <1>1, <1>2, DecryptedState
<1>4. /\ session'[d] = new.session /\ spent'[d] = new.spent /\ made'[d] = new.made
      /\ first'[d] = new.first /\ seen'[d] = seen[d] \cup {i}
      /\ \A x \in End : x # d => /\ session'[x] = session[x] /\ spent'[x] = spent[x]
                                 /\ made'[x] = made[x] /\ first'[x] = first[x]
                                 /\ seen'[x] = seen[x]
  BY <1>1, <1>2 DEF SetInbound, StoreTypes, LossTypes
<1>5. /\ e \in End /\ e # d /\ Other(e) = d /\ \A x \in End : x = d \/ x = e
  BY <1>1, SessionOf, TwoEnds
<1>6. /\ i \in DOMAIN rows /\ r.sid \in DOMAIN opened /\ r.n \in Nat /\ r.msgid \in Nat
      /\ r.sid \in Nat /\ r.to = d
  BY <1>1, RowFields, SessionOf DEF RowsTo
<1>7. /\ \A u, v \in DOMAIN opened : opened[u] = opened[v] => u = v
      /\ \A u \in DOMAIN opened : opened[u] = d \/ opened[u] = e
  BY <1>1, SessionOf
<1>8. \A x \in End : RowsTo(x)' = RowsTo(x) /\ RowsTo(x) \subseteq DOMAIN rows
  BY RowsKept DEF RowsTo
<1>9. \A j \in DOMAIN rows : rows[j].sid \in DOMAIN opened /\ rows[j].msgid \in Nat
  BY <1>1, RowFields
<1>10. \A x \in End : \A j \in RowsTo(x) : Kept(x, rows[j].text) => Kept(x, rows[j].text)'
  BY <1>1, WithKeeps DEF Kept
<1>11. Kept(d, r.text)'
  BY <1>1, WithKeeps DEF Kept
<1>12. \A x \in End : \A j \in DOMAIN rows : Crossed(x, rows[j]) => Crossed(x, rows[j])'
  <2> SUFFICES ASSUME NEW x \in End, NEW j \in DOMAIN rows, Crossed(x, rows[j])
               PROVE  Crossed(x, rows[j])'
    OBVIOUS
  <2>1. session'[x].id = session[x].id
    <3>1. CASE x = d
      <4>1. session[d].id \in DOMAIN opened /\ opened[session[d].id] = e
        BY <3>1 DEF Crossed
      <4> QED
        BY <1>3, <1>4, <1>6, <1>7, <3>1, <4>1
    <3> QED
      BY <1>4, <3>1
  <2> QED
    BY <2>1 DEF Crossed
<1>13. LossTypes'
  <2>1. spent'[d] \in SUBSET Nat
    BY <1>2, <1>3, <1>4, <1>6 DEF LossTypes
  <2>2. first'[d] \in Seq(Nat) /\ made'[d] \in Seq(Nat)
    BY <1>2, <1>3, <1>4, <1>6, RecordedIds DEF LossTypes
  <2>3. seen'[d] \in SUBSET Nat /\ seen'[d] \subseteq RowsTo(d)
    <3>1. i \in Nat
      BY <1>1, <1>6 DEF StoreTypes
    <3> QED
      BY <1>2, <1>4, <3>1 DEF LossTypes
  <2>4. /\ spent' = [spent EXCEPT ![d] = spent'[d]] /\ first' = [first EXCEPT ![d] = first'[d]]
        /\ made' = [made EXCEPT ![d] = made'[d]] /\ seen' = [seen EXCEPT ![d] = seen'[d]]
    BY <1>4 DEF SetInbound
  <2>5. spent' \in [End -> SUBSET Nat] /\ seen' \in [End -> SUBSET Nat]
    BY <1>2, <2>1, <2>3, <2>4 DEF LossTypes
  <2>6. first' \in [End -> Seq(Nat)] /\ made' \in [End -> Seq(Nat)]
    BY <1>2, <2>2, <2>4 DEF LossTypes
  <2>7. \A x \in End : seen'[x] \subseteq RowsTo(x)'
    BY <1>2, <1>4, <1>8, <2>3 DEF LossTypes
  <2> QED
    BY <1>2, <2>5, <2>6, <2>7 DEF LossTypes
<1>14. OneMessageEach'
  BY <1>2 DEF OneMessageEach
<1>15. WrittenRows'
  <2> SUFFICES ASSUME NEW x \in End, NEW j \in RowsTo(Other(x))
               PROVE  \/ rows[j].sid = session'[x].id /\ rows[j].n <= session'[x].written
                      \/ Crossed(x, rows[j])'
    BY <1>5, <1>8 DEF WrittenRows
  <2>1. j \in DOMAIN rows
    BY DEF RowsTo
  <2>2. CASE Crossed(x, rows[j])
    BY <1>12, <2>1, <2>2
  <2>3. CASE rows[j].sid = session[x].id /\ rows[j].n <= session[x].written
    <3>1. CASE x # d \/ same
      BY <1>3, <1>4, <2>3, <3>1
    <3>2. CASE x = d /\ ~same
      <4>1. opened[rows[j].sid] = d
        BY <1>3, <1>6, <1>7, <1>9, <2>1, <2>3, <3>2
      <4> QED
        BY <1>3, <1>4, <1>6, <2>3, <3>2, <4>1 DEF Crossed
    <3> QED
      BY <3>1, <3>2
  <2> QED
    BY <1>2, <2>2, <2>3 DEF WrittenRows
<1>16. Answered'
  <2>1. ASSUME session'[d].id \in DOMAIN opened, opened[session'[d].id] = d
        PROVE  session'[e].id = session'[d].id
    <3>1. opened[r.sid] = d /\ session'[d].id = r.sid
      BY <1>3, <1>4, <2>1
    <3>2. i \in RowsTo(Other(e))
      BY <1>5
    <3>3. r.sid = session[e].id \/ Crossed(e, r)
      BY <1>2, <1>5, <3>2 DEF WrittenRows
    <3> QED
      BY <1>4, <1>5, <3>1, <3>3 DEF Crossed
  <2>2. ASSUME session'[e].id \in DOMAIN opened, session'[e].heard, opened[session'[e].id] = e
        PROVE  session'[d].id = session'[e].id
    <3>1. session[d].id = session[e].id
      BY <1>2, <1>4, <1>5, <2>2 DEF Answered
    <3> QED
      BY <1>3, <1>4, <1>5, <1>6, <1>7, <2>2, <3>1
  <2>3. ASSUME NEW x \in End, NEW j \in RowsTo(x), ~rows[j].pre, opened[rows[j].sid] = Other(x)
        PROVE  session'[x].id = rows[j].sid
    <3>1. session[x].id = rows[j].sid /\ rows[j].sid \in DOMAIN opened
      BY <1>2, <1>8, <1>9, <2>3 DEF Answered
    <3> QED
      BY <1>3, <1>4, <1>5, <1>6, <1>7, <2>3, <3>1
  <2>4. ASSUME NEW x \in End, session'[x].id \in DOMAIN opened', session'[x].heard,
               opened'[session'[x].id] = x
        PROVE  session'[Other(x)].id = session'[x].id
    <3>1. CASE x = d
      BY <2>1, <2>4, <3>1
    <3>2. CASE x = e
      BY <1>5, <2>2, <2>4, <3>2
    <3> QED
      BY <1>5, <3>1, <3>2
  <2> QED
    BY <1>8, <2>3, <2>4 DEF Answered
<1>17. RecordsFit'
  <2>1. ASSUME NEW x \in End, NEW n \in session'[x].read
        PROVE  \E j \in RowsTo(x) : rows[j].sid = session'[x].id /\ rows[j].n = n
    <3>1. CASE x = d /\ n = r.n
      BY <1>3, <1>4, <3>1
    <3>2. CASE (x # d \/ same) /\ n \in session[x].read
      BY <1>2, <1>3, <1>4, <3>2 DEF RecordsFit
    <3> QED
      BY <1>3, <1>4, <2>1, <3>1, <3>2
  <2>2. ASSUME NEW x \in End, NEW k \in DOMAIN first'[x]
        PROVE  first'[x][k] \in 1 .. Len(rows)
    <3>1. r.msgid \in 1 .. Len(rows)
      BY <1>2, <1>6 DEF OneMessageEach
    <3>2. first'[x][k] = r.msgid \/ \E m \in DOMAIN first[x] : first'[x][k] = first[x][m]
      <4>1. first[d] \in Seq(Nat)
        BY <1>2 DEF LossTypes
      <4>2. CASE x = d /\ new.first = Recorded(first[d], r.msgid)
        <5>1. first'[x] = Recorded(first[d], r.msgid)
          BY <1>4, <4>2
        <5>2. \A m \in DOMAIN Recorded(first[d], r.msgid) :
                \/ Recorded(first[d], r.msgid)[m] = r.msgid
                \/ \E o \in DOMAIN first[d] : Recorded(first[d], r.msgid)[m] = first[d][o]
          BY <1>6, <4>1, RecordedIds
        <5> QED
          BY <2>2, <4>2, <5>1, <5>2
      <4>3. CASE x # d \/ new.first = first[d]
        BY <1>4, <2>2, <4>3
      <4> QED
        BY <1>3, <4>2, <4>3
    <3> QED
      BY <1>2, <3>1, <3>2 DEF RecordsFit
  <2>3. ASSUME NEW x \in End, NEW u \in Nat,
               u \in spent'[x] \/ \E k \in DOMAIN made'[x] : made'[x][k] = u
        PROVE  u \in DOMAIN opened /\ session'[x].id = u /\ opened[u] = Other(x)
    <3>1. CASE x # d \/ same
      <4>1. u \in spent[x] \/ \E k \in DOMAIN made[x] : made[x][k] = u
        BY <1>3, <1>4, <2>3, <3>1
      <4>2. u \in DOMAIN opened /\ session[x].id = u /\ opened[u] = Other(x)
        BY <1>2, <4>1 DEF RecordsFit
      <4> QED
        BY <1>3, <1>4, <3>1, <4>2
    <3>2. CASE x = d /\ ~same
      <4>1. made[d] \in Seq(Nat)
        BY <1>2 DEF LossTypes
      <4>2. u = r.sid \/ u \in spent[d] \/ \E k \in DOMAIN made[d] : made[d][k] = u
        <5>1. CASE u \in spent'[d]
          BY <1>3, <1>4, <3>2, <5>1
        <5>2. CASE \E k \in DOMAIN made'[d] : made'[d][k] = u
          <6>1. made'[d] = Recorded(made[d], r.sid)
            BY <1>3, <1>4, <3>2
          <6>2. \A k \in DOMAIN Recorded(made[d], r.sid) :
                  \/ Recorded(made[d], r.sid)[k] = r.sid
                  \/ \E m \in DOMAIN made[d] : Recorded(made[d], r.sid)[k] = made[d][m]
            BY <1>6, <4>1, RecordedIds
          <6> QED
            BY <5>2, <6>1, <6>2
        <5> QED
          BY <2>3, <3>2, <5>1, <5>2
      <4>3. u = r.sid \/ (u \in DOMAIN opened /\ opened[u] = e)
        BY <1>2, <4>2 DEF RecordsFit
      <4> QED
        BY <1>3, <1>4, <1>6, <1>7, <3>2, <4>3
    <3> QED
      BY <3>1, <3>2
  <2>4. \A x \in End : \A n \in session'[x].read :
          \E j \in RowsTo(x)' : rows'[j].sid = session'[x].id /\ rows'[j].n = n
    BY <1>8, <2>1
  <2> QED
    BY <2>2, <2>3, <2>4 DEF RecordsFit
<1>18. ReadIsKept'
  <2> SUFFICES ASSUME NEW x \in End, NEW j \in RowsTo(x), WasRead(x, rows[j])'
               PROVE  Kept(x, rows[j].text)'
    BY <1>8 DEF ReadIsKept
  <2>1. j \in DOMAIN rows /\ rows[j].to = x
    BY DEF RowsTo
  <2>2. CASE WasRead(x, rows[j])
    BY <1>2, <1>10, <2>2 DEF ReadIsKept
  <2>3. CASE x = d /\ rows[j] = r
    BY <1>11, <2>3 DEF Kept
  <2>4. CASE x # d
    BY <1>4, <2>2, <2>4 DEF WasRead
  <2>5. CASE x = d
    <3>1. CASE \E k \in DOMAIN first'[d] : first'[d][k] = rows[j].msgid
      <4>1. rows[j].msgid = r.msgid \/ \E m \in DOMAIN first[d] : first[d][m] = rows[j].msgid
        <5>1. first[d] \in Seq(Nat)
          BY <1>2 DEF LossTypes
        <5>2. CASE first'[d] = Recorded(first[d], r.msgid)
          BY <1>6, <3>1, <5>1, <5>2, RecordedIds
        <5> QED
          BY <1>3, <1>4, <3>1, <5>2
      <4>2. rows[j].msgid = r.msgid => rows[j] = r
        BY <1>2, <1>6, <2>1 DEF OneMessageEach
      <4> QED
        BY <2>2, <2>3, <2>5, <4>1, <4>2 DEF WasRead
    <3>2. CASE rows[j].sid = session'[d].id /\ rows[j].n \in session'[d].read
      <4>1. rows[j].n = r.n \/ (same /\ rows[j].n \in session[d].read)
        BY <1>3, <1>4, <3>2
      <4>2. rows[j].sid = r.sid
        BY <1>3, <1>4, <3>2
      <4>3. rows[j].n = r.n => rows[j] = r
        BY <1>2, <1>6, <2>1, <2>5, <4>2 DEF OneMessageEach
      <4> QED
        BY <2>2, <2>3, <2>5, <4>1, <4>2, <4>3 DEF WasRead
    <3> QED
      BY <2>5, <3>1, <3>2 DEF WasRead
  <2> QED
    BY <2>4, <2>5
<1>19. HandledIsKept'
  <2> SUFFICES ASSUME NEW x \in End, NEW j \in RowsTo(x),
                      j \in seen'[x] \/ j \notin inbox[x], j \notin refused'
               PROVE  Kept(x, rows[j].text)' \/ Crossed(x, rows[j])'
    BY <1>8 DEF HandledIsKept
  <2>1. CASE x = d /\ j = i
    BY <1>11, <2>1
  <2>2. CASE ~(x = d /\ j = i)
    <3>1. j \in seen[x] \/ j \notin inbox[x]
      BY <1>4, <2>2
    <3> QED
      BY <1>2, <1>8, <1>10, <1>12, <3>1 DEF HandledIsKept
  <2> QED
    BY <2>1, <2>2
<1> QED
  BY <1>13, <1>14, <1>15, <1>16, <1>17, <1>18, <1>19 DEF LossInv

\* A row that the relay repeats keeps LossInv.
LEMMA RepeatKeepsLoss ==
    ASSUME Inv, LossInv, RelayRepeats
    PROVE  LossInv'
<1> DEFINE new == Len(rows) + 1
<1>1. StoreTypes /\ OneSessionEach /\ WaitingOK
  BY DEF Inv, StoreInv, CallInv
<1>2. /\ LossTypes /\ OneMessageEach /\ WrittenRows /\ Answered /\ RecordsFit
      /\ ReadIsKept /\ HandledIsKept
  BY DEF LossInv
<1>3. UNCHANGED <<session, spent, first, made, history, seen, opened, deleted, refused>>
  BY DEF RelayRepeats, disk
<1>4. PICK i \in DOMAIN rows :
        /\ rows' = Append(rows, rows[i])
        /\ inbox' = [inbox EXCEPT ![rows[i].to] = @ \cup {new}]
  BY DEF RelayRepeats
<1>5. PICK r \in RowType : r = rows[i]
  BY <1>1 DEF StoreTypes
<1>6. /\ \A j \in DOMAIN rows : j \in DOMAIN rows' /\ rows'[j] = rows[j]
      /\ DOMAIN rows' = DOMAIN rows \cup {new} /\ new \notin DOMAIN rows
      /\ rows'[new] = rows[i] /\ Len(rows') = new /\ Len(rows) \in Nat
  BY <1>1, <1>4, <1>5, RowAppended DEF StoreTypes
<1>7. /\ r.to \in End /\ new \in inbox'[r.to]
      /\ \A d \in End : \A j \in DOMAIN rows : j \in inbox'[d] <=> j \in inbox[d]
  BY <1>1, <1>4, <1>5, <1>6 DEF WaitingOK, RowType
<1>8. \A d \in End : \A j \in RowsTo(d)' :
        \E k \in RowsTo(d) : rows'[j] = rows[k] /\ (j = k \/ (j = new /\ d = r.to))
  BY <1>4, <1>5, <1>6 DEF RowsTo
<1>9. \A d \in End : RowsTo(d) \subseteq RowsTo(d)' /\ RowsTo(d) \subseteq DOMAIN rows
  BY <1>6 DEF RowsTo
<1>10. \A d \in End : \A j \in DOMAIN rows' : \A k \in DOMAIN rows :
         rows'[j] = rows[k] => (Crossed(d, rows[k]) => Crossed(d, rows[j])')
  BY <1>3 DEF Crossed
<1>11. LossTypes'
  BY <1>2, <1>3, <1>9 DEF LossTypes
<1>12. OneMessageEach'
  <2>1. \A j \in DOMAIN rows' : \E k \in DOMAIN rows : rows'[j] = rows[k]
    BY <1>4, <1>6
  <2>2. \A j \in DOMAIN rows' : rows'[j].msgid \in 1 .. Len(rows')
    <3>1. \A j \in DOMAIN rows' : rows'[j].msgid \in 1 .. Len(rows)
      BY <1>2, <2>1 DEF OneMessageEach
    <3>2. 1 .. Len(rows) \subseteq 1 .. Len(rows')
      BY <1>6
    <3> QED
      BY <3>1, <3>2
  <2>3. \A j, k \in DOMAIN rows' : rows'[j].msgid = rows'[k].msgid => rows'[j] = rows'[k]
    BY <1>2, <2>1 DEF OneMessageEach
  <2>4. \A j, k \in DOMAIN rows' :
          (rows'[j].to = rows'[k].to /\ rows'[j].sid = rows'[k].sid /\ rows'[j].n = rows'[k].n)
              => rows'[j] = rows'[k]
    BY <1>2, <2>1 DEF OneMessageEach
  <2> QED
    BY <2>2, <2>3, <2>4 DEF OneMessageEach
<1>13. WrittenRows'
  <2> SUFFICES ASSUME NEW d \in End, NEW j \in RowsTo(Other(d))'
               PROVE  \/ rows'[j].sid = session'[d].id /\ rows'[j].n <= session'[d].written
                      \/ Crossed(d, rows[j])'
    BY DEF WrittenRows
  <2>1. PICK k \in RowsTo(Other(d)) : rows'[j] = rows[k]
    BY <1>8, TwoEnds
  <2>2. j \in DOMAIN rows' /\ k \in DOMAIN rows
    BY DEF RowsTo
  <2> QED
    BY <1>2, <1>3, <1>10, <2>1, <2>2 DEF WrittenRows
<1>14. Answered'
  <2>1. \A d \in End : \A j \in RowsTo(d)' :
          (~rows'[j].pre /\ opened[rows'[j].sid] = Other(d)) => session[d].id = rows'[j].sid
    BY <1>2, <1>8 DEF Answered
  <2> QED
    BY <1>2, <1>3, <2>1 DEF Answered
<1>15. RecordsFit'
  <2>1. \A d \in End : \A n \in session[d].read :
          \E j \in RowsTo(d)' : rows'[j].sid = session[d].id /\ rows'[j].n = n
    BY <1>2, <1>6, <1>9 DEF RecordsFit
  <2>2. \A d \in End : \A k \in DOMAIN first[d] : first[d][k] \in 1 .. Len(rows')
    <3>1. \A d \in End : \A k \in DOMAIN first[d] : first[d][k] \in 1 .. Len(rows)
      BY <1>2 DEF RecordsFit
    <3>2. 1 .. Len(rows) \subseteq 1 .. Len(rows')
      BY <1>6
    <3> QED
      BY <3>1, <3>2
  <2>3. \A d \in End : \A u \in Nat :
          (u \in spent[d] \/ \E k \in DOMAIN made[d] : made[d][k] = u)
              => u \in DOMAIN opened /\ session[d].id = u /\ opened[u] = Other(d)
    BY <1>2 DEF RecordsFit
  <2> QED
    BY <1>3, <2>1, <2>2, <2>3 DEF RecordsFit
<1>16. ReadIsKept'
  <2> SUFFICES ASSUME NEW d \in End, NEW j \in RowsTo(d)', WasRead(d, rows[j])'
               PROVE  Kept(d, rows[j].text)'
    BY DEF ReadIsKept
  <2>1. PICK k \in RowsTo(d) : rows'[j] = rows[k]
    BY <1>8
  <2>2. WasRead(d, rows[k])
    BY <1>3, <2>1 DEF WasRead
  <2>3. Kept(d, rows[k].text)
    BY <1>2, <2>2 DEF ReadIsKept
  <2> QED
    BY <1>3, <2>1, <2>3 DEF Kept
<1>17. HandledIsKept'
  <2> SUFFICES ASSUME NEW d \in End, NEW j \in RowsTo(d)',
                      j \in seen'[d] \/ j \notin inbox'[d], j \notin refused'
               PROVE  Kept(d, rows[j].text)' \/ Crossed(d, rows[j])'
    BY DEF HandledIsKept
  <2>1. j # new \/ d # r.to
    <3>1. new \notin seen[d]
      BY <1>2, <1>6, <1>9 DEF LossTypes
    <3> QED
      BY <1>3, <1>7, <3>1
  <2>2. j \in RowsTo(d) /\ rows'[j] = rows[j] /\ j \in DOMAIN rows /\ j \in DOMAIN rows'
    BY <1>6, <1>8, <1>9, <2>1
  <2>3. (j \in seen[d] \/ j \notin inbox[d]) /\ j \notin refused
    BY <1>3, <1>7, <2>2
  <2>4. Kept(d, rows[j].text) \/ Crossed(d, rows[j])
    BY <1>2, <2>2, <2>3 DEF HandledIsKept
  <2>5. Kept(d, rows[j].text) => Kept(d, rows[j].text)'
    BY <1>3, <2>2 DEF Kept
  <2> QED
    BY <1>10, <2>2, <2>4, <2>5
<1> QED
  BY <1>11, <1>12, <1>13, <1>14, <1>15, <1>16, <1>17 DEF LossInv

-----------------------------------------------------------------------------
(* Every step keeps LossInv. *)

\* A row that is read, whatever becomes of it, keeps LossInv.
LEMMA ReadKeepsLoss ==
    ASSUME Inv, LossInv, NEW d \in End, ReadRow(d)
    PROVE  LossInv'
<1>1. StoreInv /\ StoreTypes /\ OneSessionEach /\ LossTypes
  BY DEF Inv, StoreInv, LossInv
<1>2. PICK i \in call[d].rows, out \in Outcome : HandleRow(d, i, out)
  BY DEF ReadRow, Outcome
<1>3. i \in RowsTo(d) /\ i \in Nat
  BY <1>1 DEF Inv, CallInv, CallsFit, CallFits, RowsTo, StoreTypes
<1>4. UNCHANGED <<rows, opened, deleted, inbox>>
  BY DEF ReadRow, relay
<1>5. /\ refused \subseteq refused'
      /\ \/ UNCHANGED <<session, spent, first, made, history, seen>>
         \/ /\ UNCHANGED <<session, spent, first, made, history>>
            /\ seen' = [seen EXCEPT ![d] = @ \cup {i}]
            /\ i \in refused' \/ DecryptRow(d, rows[i]) = {}
         \/ \E new \in DecryptRow(d, rows[i]) :
              /\ history' = With(d, i) /\ SetInbound(d, new)
              /\ seen' = [seen EXCEPT ![d] = @ \cup {i}]
         \/ history' = With(d, i) /\ UNCHANGED <<session, spent, first, made, seen>>
  BY <1>2, RowOutcome
<1>6. CASE UNCHANGED <<session, spent, first, made, seen>>
           /\ (UNCHANGED history \/ history' = With(d, i))
  <2>1. \A e \in End : \A j \in RowsTo(e) : Kept(e, rows[j].text) => Kept(e, rows[j].text)'
    <3>1. CASE UNCHANGED history
      BY <1>4, <3>1 DEF Kept
    <3>2. CASE history' = With(d, i)
      BY <1>1, <1>3, <1>4, <3>2, WithKeeps DEF Kept
    <3> QED
      BY <1>6, <3>1, <3>2
  <2>2. deleted' \in [End -> BOOLEAN] /\ seen' \in [End -> SUBSET Nat]
        /\ \A e \in End : seen'[e] \subseteq RowsTo(e)
    BY <1>1, <1>4, <1>6 DEF LossTypes
  <2>3. \A e \in End : \A j \in RowsTo(e) :
          ((j \in seen'[e] \/ j \notin inbox'[e]) /\ j \notin refused') =>
              (j \in seen[e] \/ j \notin inbox[e]) /\ j \notin refused
    BY <1>4, <1>5, <1>6
  <2> QED
    BY <1>4, <1>6, <2>1, <2>2, <2>3, QuietKeepsLoss
<1>7. CASE /\ UNCHANGED <<session, spent, first, made, history>>
           /\ seen' = [seen EXCEPT ![d] = @ \cup {i}]
           /\ i \in refused' \/ DecryptRow(d, rows[i]) = {}
  <2>1. \A e \in End : \A j \in RowsTo(e) : Kept(e, rows[j].text) <=> Kept(e, rows[j].text)'
    BY <1>4, <1>7 DEF Kept
  <2>2. seen'[d] = seen[d] \cup {i} /\ \A e \in End : e # d => seen'[e] = seen[e]
    BY <1>1, <1>7 DEF LossTypes
  <2>3. deleted' \in [End -> BOOLEAN] /\ seen' \in [End -> SUBSET Nat]
    BY <1>1, <1>3, <1>4, <1>7 DEF LossTypes
  <2>4. \A e \in End : seen'[e] \subseteq RowsTo(e)
    BY <1>1, <1>3, <2>2 DEF LossTypes
  <2>5. i \in refused' \/ Kept(d, rows[i].text)' \/ Crossed(d, rows[i])
    BY <1>1, <1>3, <1>7, <2>1, RefusedRow
  <2>6. \A e \in End : \A j \in RowsTo(e) :
          ((j \in seen'[e] \/ j \notin inbox'[e]) /\ j \notin refused') =>
              \/ (j \in seen[e] \/ j \notin inbox[e]) /\ j \notin refused
              \/ Kept(e, rows[j].text)' \/ Crossed(e, rows[j])
    BY <1>4, <1>5, <2>2, <2>5
  <2> QED
    BY <1>4, <1>7, <2>1, <2>3, <2>4, <2>6, QuietKeepsLoss
<1>8. ASSUME NEW new \in DecryptRow(d, rows[i]), history' = With(d, i), SetInbound(d, new),
             seen' = [seen EXCEPT ![d] = @ \cup {i}]
      PROVE  LossInv'
  BY <1>3, <1>4, <1>5, <1>8, StoredKeepsLoss
<1> QED
  BY <1>5, <1>6, <1>7, <1>8

\* The other steps handle nothing, and acknowledge only handled rows.
LEMMA OthersKeepLoss ==
    ASSUME LossInv, NEW d \in End,
           UNCHANGED <<session, spent, first, made, rows, opened, refused>>,
           \/ UNCHANGED <<history, deleted>>
           \/ /\ deleted' = [deleted EXCEPT ![d] = TRUE]
              /\ history' = [history EXCEPT ![d] = << >>],
           UNCHANGED seen \/ seen' = [seen EXCEPT ![d] = {}],
           \/ UNCHANGED inbox
           \/ UNCHANGED seen /\ \E acks : acks \subseteq seen[d] /\ inbox' = [inbox EXCEPT ![d] = @ \ acks],
           history \in [End -> Seq(HistoryRow)], inbox \in [End -> SUBSET Nat]
    PROVE  LossInv'
<1>1. LossTypes
  BY DEF LossInv
<1>2. deleted' \in [End -> BOOLEAN] /\ seen' \in [End -> SUBSET Nat]
  BY <1>1 DEF LossTypes
<1>3. \A e \in End : seen'[e] \subseteq seen[e] /\ seen[e] \subseteq RowsTo(e)
  BY <1>1 DEF LossTypes
<1>4. \A e \in End : \A j \in RowsTo(e) : Kept(e, rows[j].text) => Kept(e, rows[j].text)'
  <2>1. CASE UNCHANGED <<history, deleted>>
    BY <2>1 DEF Kept
  <2>2. CASE /\ deleted' = [deleted EXCEPT ![d] = TRUE]
             /\ history' = [history EXCEPT ![d] = << >>]
    <3>1. deleted'[d] /\ \A e \in End : e # d => deleted'[e] = deleted[e] /\ history'[e] = history[e]
      BY <1>1, <2>2 DEF LossTypes
    <3> QED
      BY <3>1 DEF Kept
  <2> QED
    BY <2>1, <2>2
<1>5. \A e \in End : \A j \in RowsTo(e) :
        j \in seen'[e] \/ j \notin inbox'[e] => j \in seen[e] \/ j \notin inbox[e]
  <2>1. CASE UNCHANGED inbox
    BY <1>3, <2>1
  <2>2. ASSUME NEW acks, acks \subseteq seen[d], inbox' = [inbox EXCEPT ![d] = @ \ acks]
        PROVE  \A e \in End : \A j \in RowsTo(e) : j \notin inbox'[e] => j \in seen[e] \/ j \notin inbox[e]
    BY <2>2
  <2> QED
    BY <1>3, <2>1, <2>2
<1> QED
  BY <1>2, <1>3, <1>4, <1>5, QuietKeepsLoss

\* Every step keeps LossInv; what is acknowledged was handled (TriesInv).
LEMMA LossStep ==
    ASSUME Inv, LossInv, TriesInv, [Next]_vars
    PROVE  LossInv'
<1>1. /\ CallInv /\ WaitingOK /\ NoCopies /\ StoreTypes /\ history \in [End -> Seq(HistoryRow)]
      /\ inbox \in [End -> SUBSET Nat]
  BY DEF Inv, CallInv, StoreInv, StoreTypes, WaitingOK
<1>2. ASSUME NEW d \in End, NEW t \in Text, SendText(d, t) PROVE LossInv'
  <2>1. PICK taken \in BOOLEAN : Deliver(d, Sealed(d), t, taken)
    BY <1>2 DEF SendText
  <2>2. /\ Opens(d) /\ session' = [session EXCEPT ![d] = Sealed(d)]
        /\ UNCHANGED <<spent, first, made, history, seen, deleted, refused>>
    BY <1>2 DEF SendText
  <2> QED
    BY <2>1, <2>2, SendKeepsLoss
<1>3. ASSUME NEW d \in End, CopyTo(d) PROVE LossInv'
  <2>1. call[d].at = "copies" /\ call[d].after <= Len(jobs[d])
    BY <1>3 DEF CopyTo, At
  <2>2. call[d].after \in Nat \ {0}
    BY <1>1, <2>1 DEF CallInv, CallsFit, CallFits
  <2>3. Job(d).text \in Text
    BY <1>1, <2>1, <2>2, JobsTyped
  <2>4. PICK taken \in BOOLEAN : Deliver(d, Sealed(d), Job(d).text, taken)
    BY <1>3 DEF CopyTo
  <2>5. /\ Opens(d) /\ session' = [session EXCEPT ![d] = Sealed(d)]
        /\ UNCHANGED <<spent, first, made, history, seen, deleted, refused>>
    BY <1>3 DEF CopyTo
  <2> QED
    BY <2>3, <2>4, <2>5, SendKeepsLoss
<1>4. ASSUME NEW d \in End, ReadRow(d) PROVE LossInv'
  BY <1>4, ReadKeepsLoss
<1>5. ASSUME RelayRepeats PROVE LossInv'
  BY <1>5, RepeatKeepsLoss
<1>6. ASSUME NEW d \in End, AckRows(d) PROVE LossInv'
  <2>1. /\ UNCHANGED <<session, spent, first, made, rows, opened, refused, history, deleted, seen>>
        /\ inbox' = [inbox EXCEPT ![d] = @ \ call[d].acks]
    BY <1>6 DEF AckRows, disk, limits
  <2>2. call[d].acks \subseteq seen[d]
    BY DEF TriesInv
  <2> QED
    BY <1>1, <2>1, <2>2, OthersKeepLoss
<1>7. ASSUME NEW d \in End, DeleteConversation(d) PROVE LossInv'
  <2>1. /\ UNCHANGED <<session, spent, first, made, rows, opened, refused, seen, inbox>>
        /\ deleted' = [deleted EXCEPT ![d] = TRUE] /\ history' = [history EXCEPT ![d] = << >>]
    BY <1>7 DEF DeleteConversation, relay
  <2> QED
    BY <1>1, <2>1, OthersKeepLoss
<1>8. ASSUME NEW d \in End, Restart(d) \/ TornAppend(d) PROVE LossInv'
  <2>1. /\ UNCHANGED <<session, spent, first, made, rows, opened, refused, history, deleted, inbox>>
        /\ seen' = [seen EXCEPT ![d] = {}]
    BY <1>8 DEF Restart, TornAppend, Forgotten, disk
  <2> QED
    BY <1>1, <2>1, OthersKeepLoss
<1>9. ASSUME NEW d \in End,
             UNCHANGED <<session, spent, first, made, rows, opened, refused, history, deleted,
                         seen, inbox>>
      PROVE  LossInv'
  BY <1>1, <1>9, OthersKeepLoss
<1>10. ASSUME NEW d \in End,
              \/ \E t \in Text : QueueCopies(d, t)
              \/ CopyNeedsSync(d) \/ CopyDropped(d) \/ CopiesEnd(d)
       PROVE  UNCHANGED <<session, spent, first, made, rows, opened, refused, history, deleted,
                          seen, inbox>>
  BY <1>10 DEF disk, relay, limits, QueueCopies, CopyNeedsSync, CopyDropped, CopiesEnd
<1>11. ASSUME NEW d \in End,
              \/ StartDrain(d) \/ StartEvent(d) \/ SyncOwnList(d) \/ AckFails(d)
              \/ SyncFails(d) \/ PairAnother(d)
       PROVE  UNCHANGED <<session, spent, first, made, rows, opened, refused, history, deleted,
                          seen, inbox>>
  BY <1>11 DEF disk, relay, limits, StartDrain, StartEvent, SyncOwnList, AckFails, SyncFails,
               PairAnother
<1>12. ASSUME UNCHANGED vars
       PROVE  LossInv'
  <2>1. UNCHANGED <<session, spent, first, made, rows, opened, refused, history, deleted, seen,
                    inbox>>
    BY <1>12 DEF vars, disk, relay, limits
  <2> QED
    BY <1>9, <2>1, InboxConstants
<1> QED
  BY <1>2, <1>3, <1>4, <1>5, <1>6, <1>7, <1>8, <1>9, <1>10, <1>11, <1>12 DEF Next, Worker

-----------------------------------------------------------------------------
(* The bounds. *)

\* A message that is sealed keeps the bounds.
LEMMA SendKeepsCount ==
    ASSUME Inv, LossTypes, CountInv, NEW d \in End, NEW t \in Text, NEW taken \in BOOLEAN,
           Opens(d), session' = [session EXCEPT ![d] = Sealed(d)],
           Deliver(d, Sealed(d), t, taken),
           \/ UNCHANGED faults /\ taken
           \/ Fault,
           UNCHANGED <<first, made, list, published>>,
           \A e \in End : Len(jobs'[e]) <= JobMax
    PROVE  CountInv'
<1>1. StoreTypes /\ OneSessionEach /\ WaitingOK
  BY DEF Inv, StoreInv, CallInv
<1>2. Sealed(d) \in OlmSession
  BY <1>1, SealedType
<1>3. /\ \A i \in DOMAIN rows : i \in DOMAIN rows' /\ rows'[i] = rows[i]
      /\ \A i \in DOMAIN rows' : i \in DOMAIN rows \/ (taken /\ i = Len(rows) + 1)
      /\ taken => rows'[Len(rows) + 1] = Row(d, Sealed(d), t) /\ Len(rows') = Len(rows) + 1
      /\ ~taken => UNCHANGED rows
      /\ Len(rows) \in Nat
  BY <1>1, <1>2, DeliveredRow
<1>4. taken => Len(rows) < MaxRows
  BY DEF Deliver
<1>5. /\ session'[d] = Sealed(d) /\ session'[d].written = session[d].written + 1
      /\ session'[d].read = session[d].read /\ session[d].written \in Nat
      /\ \A e \in End : e # d => session'[e] = session[e]
  <2>1. /\ session'[d] = Sealed(d) /\ session'[Other(d)] = session[Other(d)]
        /\ session'[d].written = session[d].written + 1 /\ session'[d].read = session[d].read
    BY <1>1, SealedEnds
  <2>2. session[d].written \in Nat
    BY <1>1, SessionOf
  <2> QED
    BY <2>1, <2>2, TwoEnds
<1>6. faults \in Nat /\ MaxFaults \in Nat /\ MaxRows \in Nat /\ MaxSessions \in Nat /\ faults <= MaxFaults
  BY InboxConstants DEF CountInv
<1>7. /\ faults' \in 0 .. MaxFaults /\ faults <= faults'
      /\ Len(rows') <= MaxRows /\ Len(rows') \in Nat /\ Len(rows) <= Len(rows')
      /\ Len(rows) + faults + 1 <= Len(rows') + faults'
  <2>1. CASE UNCHANGED faults /\ taken
    BY <1>3, <1>4, <1>6, <2>1
  <2>2. CASE Fault
    <3>1. faults < MaxFaults /\ faults' = faults + 1
      BY <2>2 DEF Fault
    <3>2. Len(rows) <= MaxRows
      BY DEF CountInv
    <3> QED
      BY <1>3, <1>4, <1>6, <3>1, <3>2
  <2> QED
    BY <2>1, <2>2
<1>8. Len(opened') <= MaxSessions
  <2>1. opened \in Seq(End)
    BY <1>1 DEF StoreTypes
  <2> QED
    BY <1>6, <2>1 DEF Opens, CountInv
<1>9. \A e \in End : session'[e].written <= Len(rows') + faults'
  <2>1. \A e \in End : session[e].written <= Len(rows) + faults /\ session[e].written \in Nat
    BY <1>1, SessionOf DEF CountInv
  <2>2. session'[d].written <= Len(rows') + faults'
    BY <1>3, <1>5, <1>6, <1>7, <2>1
  <2>3. \A e \in End : e # d => session'[e].written <= Len(rows') + faults'
    <3> SUFFICES ASSUME NEW e \in End, e # d PROVE session[e].written <= Len(rows') + faults'
      BY <1>5
    <3> QED
      BY <1>3, <1>6, <1>7, <2>1
  <2> QED
    BY <2>2, <2>3
<1>10. \A i \in DOMAIN rows' : rows'[i].n \in 1 .. MaxRows + MaxFaults
  <2>1. \A i \in DOMAIN rows : rows[i].n \in 1 .. MaxRows + MaxFaults
    BY DEF CountInv
  <2>2. taken => rows'[Len(rows) + 1].n = session'[d].written
    BY <1>3, <1>5 DEF Row
  <2>3. session'[d].written \in 1 .. MaxRows + MaxFaults
    BY <1>5, <1>6, <1>7, <1>9
  <2> QED
    BY <1>3, <2>1, <2>2, <2>3
<1>11. \A e \in End : session'[e].read \subseteq 1 .. MaxRows + MaxFaults
  BY <1>5 DEF CountInv
<1>12. \A e \in End : list'[e] \in 1 .. published' /\ Len(made'[e]) <= ReplayWindow
                      /\ Len(first'[e]) <= ReplayWindow
  BY DEF CountInv
<1> QED
  BY <1>7, <1>8, <1>9, <1>10, <1>11, <1>12 DEF CountInv

\* So does a row that is read.
LEMMA ReadKeepsCount ==
    ASSUME Inv, LossTypes, CountInv, NEW d \in End, ReadRow(d)
    PROVE  CountInv'
<1>1. StoreInv /\ StoreTypes /\ OneSessionEach /\ LossTypes
  BY DEF Inv, StoreInv
<1>2. PICK i \in call[d].rows, out \in Outcome : HandleRow(d, i, out)
  BY DEF ReadRow, Outcome
<1>3. i \in RowsTo(d) /\ i \in DOMAIN rows
  BY <1>1 DEF Inv, CallInv, CallsFit, CallFits, RowsTo
<1>4. UNCHANGED <<rows, opened, jobs, list, published>>
  BY DEF ReadRow, relay
<1>5. faults' \in 0 .. MaxFaults /\ faults' >= faults /\ faults \in Nat
  <2>1. faults \in 0 .. MaxFaults /\ MaxFaults \in Nat
    BY InboxConstants DEF CountInv
  <2>2. UNCHANGED faults \/ (faults < MaxFaults /\ faults' = faults + 1)
    BY <1>2 DEF HandleRow, ReceiveMessage, StaleOrRefuse, Unreadable, StoreDecrypted, Fault, NoFault
  <2> QED
    BY <2>1, <2>2
<1>6. ASSUME UNCHANGED <<session, first, made>> PROVE CountInv'
  <2>1. \A e \in End : session[e].written <= Len(rows) + faults'
    <3>1. \A e \in End : session[e].written <= Len(rows) + faults /\ session[e].written \in Nat
      BY <1>1, SessionOf DEF CountInv
    <3>2. Len(rows) \in Nat
      BY <1>1 DEF StoreTypes
    <3> QED
      BY <1>5, <3>1, <3>2
  <2> QED
    BY <1>4, <1>5, <1>6, <2>1 DEF CountInv
<1>7. ASSUME NEW new \in DecryptRow(d, rows[i]), SetInbound(d, new) PROVE CountInv'
  <2>1. /\ \/ /\ new.session.written = session[d].written
              /\ new.session.read = session[d].read \cup {rows[i].n}
              /\ new.made = made[d]
           \/ /\ new.session.written = 0 /\ new.session.read = {rows[i].n}
              /\ new.made = Recorded(made[d], rows[i].sid)
        /\ new.first = first[d] \/ new.first = Recorded(first[d], rows[i].msgid)
    BY <1>1, <1>3, DecryptedState
  <2>2. /\ session'[d] = new.session /\ made'[d] = new.made /\ first'[d] = new.first
        /\ \A e \in End : e # d => /\ session'[e] = session[e] /\ made'[e] = made[e]
                                   /\ first'[e] = first[e]
    BY <1>1, <1>7 DEF SetInbound, StoreTypes, LossTypes
  <2>3. rows[i].n \in 1 .. MaxRows + MaxFaults
    BY <1>3 DEF CountInv
  <2>4. \A e \in End : session'[e].read \subseteq 1 .. MaxRows + MaxFaults
    BY <2>1, <2>2, <2>3 DEF CountInv
  <2>5. \A e \in End : session'[e].written <= Len(rows) + faults'
    <3>1. \A e \in End : session[e].written <= Len(rows) + faults /\ session[e].written \in Nat
      BY <1>1, SessionOf DEF CountInv
    <3>2. Len(rows) \in Nat
      BY <1>1 DEF StoreTypes
    <3>3. \A e \in End : session'[e].written = session[e].written \/ session'[e].written = 0
      BY <2>1, <2>2
    <3> QED
      BY <1>5, <3>1, <3>2, <3>3
  <2>6. \A e \in End : Len(made'[e]) <= ReplayWindow /\ Len(first'[e]) <= ReplayWindow
    <3>1. made[d] \in Seq(Nat) /\ first[d] \in Seq(Nat) /\ rows[i].sid \in Nat /\ rows[i].msgid \in Nat
      BY <1>1, <1>3, RowFields, SessionOf DEF LossTypes
    <3>2. Len(made[d]) <= ReplayWindow /\ Len(first[d]) <= ReplayWindow
      BY DEF CountInv
    <3>3. Len(made'[d]) <= ReplayWindow
      BY <2>1, <2>2, <3>1, <3>2, RecordedIds
    <3>4. Len(first'[d]) <= ReplayWindow
      BY <2>1, <2>2, <3>1, <3>2, RecordedIds
    <3> QED
      BY <2>2, <3>3, <3>4 DEF CountInv
  <2> QED
    BY <1>4, <1>5, <2>4, <2>5, <2>6 DEF CountInv
<1>8. \/ UNCHANGED <<session, first, made>>
      \/ \E new \in DecryptRow(d, rows[i]) : SetInbound(d, new)
  BY <1>2, RowOutcome
<1> QED
  BY <1>6, <1>7, <1>8

\* The queue of the copies: a job that ends or fails makes it no longer, and a
\* new one takes the place of the oldest.
LEMMA JobsBounded ==
    ASSUME WaitingOK, NEW d \in End, Len(jobs[d]) <= JobMax
    PROVE  /\ (call[d].after \in Nat \ {0} /\ call[d].after <= Len(jobs[d])) =>
                Len(JobDone(d)[d]) <= JobMax /\ Len(JobFailed(d)[d]) <= JobMax
           /\ \A x \in JobType : Len(Append(WithRoom(jobs[d]), x)) <= JobMax
<1>1. jobs[d] \in Seq(JobType) /\ Len(jobs[d]) \in Nat /\ JobMax \in Nat \ {0}
  BY InboxConstants DEF WaitingOK
<1>2. ASSUME call[d].after \in Nat \ {0}, call[d].after <= Len(jobs[d])
      PROVE  Len(JobDone(d)[d]) <= JobMax /\ Len(JobFailed(d)[d]) <= JobMax
  BY <1>1, <1>2, JobsTyped
<1>3. ASSUME NEW x \in JobType
      PROVE  Len(Append(WithRoom(jobs[d]), x)) <= JobMax
  <2>1. CASE Len(jobs[d]) >= JobMax
    <3>1. Tail(jobs[d]) \in Seq(JobType) /\ Len(Tail(jobs[d])) = Len(jobs[d]) - 1
      BY <1>1, <2>1
    <3>2. WithRoom(jobs[d]) = Tail(jobs[d])
      BY <2>1 DEF WithRoom
    <3>3. Len(Append(Tail(jobs[d]), x)) = Len(jobs[d])
      BY <1>1, <3>1
    <3> QED
      BY <3>2, <3>3
  <2>2. CASE ~(Len(jobs[d]) >= JobMax)
    <3>1. WithRoom(jobs[d]) = jobs[d]
      BY <2>2 DEF WithRoom
    <3> QED
      BY <1>1, <2>2, <3>1
  <2> QED
    BY <2>1, <2>2
<1> QED
  BY <1>2, <1>3

\* A step that changes only the queues, the lists and the counters of faults.
LEMMA QuietKeepsCount ==
    ASSUME StoreTypes, OneSessionEach, CountInv,
           UNCHANGED <<rows, opened, session, first, made>>,
           UNCHANGED faults \/ Fault,
           \A e \in End : Len(jobs'[e]) <= JobMax,
           \A e \in End : list'[e] \in 1 .. published'
    PROVE  CountInv'
<1>1. faults \in 0 .. MaxFaults /\ MaxFaults \in Nat
  BY InboxConstants DEF CountInv
<1>2. faults' \in 0 .. MaxFaults /\ faults <= faults' /\ faults \in Nat
  BY <1>1 DEF Fault
<1>3. \A e \in End : session[e].written <= Len(rows) + faults'
  <2>1. \A e \in End : session[e].written <= Len(rows) + faults /\ session[e].written \in Nat
    BY SessionOf DEF CountInv
  <2>2. Len(rows) \in Nat
    BY DEF StoreTypes
  <2> QED
    BY <1>2, <2>1, <2>2
<1> QED
  BY <1>2, <1>3 DEF CountInv

\* Every step keeps the bounds.
LEMMA CountStep ==
    ASSUME Inv, LossInv, CountInv, [Next]_vars
    PROVE  CountInv'
<1>1. /\ CallInv /\ WaitingOK /\ StoreTypes /\ OneSessionEach /\ LossTypes
  BY DEF Inv, CallInv, StoreInv, LossInv
<1>2. /\ jobs \in [End -> Seq(JobType)] /\ list \in [End -> Nat] /\ published \in Nat
      /\ \A e \in End : Len(jobs[e]) <= JobMax
      /\ \A e \in End : list[e] \in 1 .. published
  BY <1>1 DEF WaitingOK, CountInv
<1>3. ASSUME NEW d \in End, NEW t \in Text, SendText(d, t) PROVE CountInv'
  <2>1. PICK taken \in BOOLEAN : /\ Deliver(d, Sealed(d), t, taken)
                                 /\ IF taken THEN NoFault ELSE Fault
    BY <1>3 DEF SendText
  <2>2. /\ Opens(d) /\ session' = [session EXCEPT ![d] = Sealed(d)]
        /\ UNCHANGED <<first, made, list, published, jobs>>
    BY <1>3 DEF SendText
  <2>3. (UNCHANGED faults /\ taken) \/ Fault
    BY <2>1 DEF NoFault
  <2> QED
    BY <1>1, <1>2, <2>1, <2>2, <2>3, SendKeepsCount
<1>4. ASSUME NEW d \in End, call[d].at = "copies", call[d].after <= Len(jobs[d])
      PROVE  /\ Job(d).text \in Text
             /\ \A e \in End : Len(JobDone(d)[e]) <= JobMax /\ Len(JobFailed(d)[e]) <= JobMax
  <2>1. call[d].after \in Nat \ {0}
    BY <1>1, <1>4 DEF CallInv, CallsFit, CallFits
  <2>2. Job(d).text \in Text
    BY <1>1, <1>4, <2>1, JobsTyped
  <2>3. Len(JobDone(d)[d]) <= JobMax /\ Len(JobFailed(d)[d]) <= JobMax
    BY <1>1, <1>2, <1>4, <2>1, JobsBounded
  <2>4. \A e \in End : e # d => JobDone(d)[e] = jobs[e] /\ JobFailed(d)[e] = jobs[e]
    BY <1>2 DEF JobDone, JobFailed
  <2> QED
    BY <1>2, <2>2, <2>3, <2>4
<1>5. ASSUME NEW d \in End, CopyTo(d) PROVE CountInv'
  <2>1. call[d].at = "copies" /\ call[d].after <= Len(jobs[d])
    BY <1>5 DEF CopyTo, At
  <2>2. PICK end \in {"ok", "answer lost", "failed"} :
          /\ Deliver(d, Sealed(d), Job(d).text, end # "failed")
          /\ IF end = "ok" THEN NoFault /\ jobs' = JobDone(d)
                           ELSE Fault /\ jobs' = JobFailed(d)
    BY <1>5 DEF CopyTo
  <2>3. /\ Opens(d) /\ session' = [session EXCEPT ![d] = Sealed(d)]
        /\ UNCHANGED <<first, made, list, published>>
    BY <1>5 DEF CopyTo
  <2>4. \E taken \in BOOLEAN : /\ Deliver(d, Sealed(d), Job(d).text, taken)
                               /\ (UNCHANGED faults /\ taken) \/ Fault
    BY <2>2 DEF NoFault
  <2>5. \A e \in End : Len(jobs'[e]) <= JobMax
    BY <1>4, <2>1, <2>2
  <2>6. Job(d).text \in Text
    BY <1>4, <2>1
  <2> QED
    BY <1>1, <2>3, <2>4, <2>5, <2>6, SendKeepsCount
<1>6. ASSUME NEW d \in End, ReadRow(d) PROVE CountInv'
  BY <1>1, <1>6, ReadKeepsCount
<1>7. ASSUME RelayRepeats PROVE CountInv'
  <2>1. PICK i \in DOMAIN rows : rows' = Append(rows, rows[i])
    BY <1>7 DEF RelayRepeats
  <2>2. /\ UNCHANGED <<session, first, made, opened, jobs, list, published>>
        /\ Len(rows) < MaxRows /\ faults < MaxFaults /\ faults' = faults + 1
    BY <1>7 DEF RelayRepeats, disk, Fault
  <2>3. PICK r \in RowType : r = rows[i]
    BY <1>1 DEF StoreTypes
  <2>4. /\ Len(rows') = Len(rows) + 1 /\ Len(rows) \in Nat
        /\ \A j \in DOMAIN rows' : \E k \in DOMAIN rows : rows'[j] = rows[k]
    BY <1>1, <2>1, <2>3, RowAppended DEF StoreTypes
  <2>5. faults \in 0 .. MaxFaults /\ MaxFaults \in Nat /\ MaxRows \in Nat
    BY InboxConstants DEF CountInv
  <2>6. faults' \in 0 .. MaxFaults /\ Len(rows') <= MaxRows
    BY <2>2, <2>4, <2>5
  <2>7. \A j \in DOMAIN rows' : rows'[j].n \in 1 .. MaxRows + MaxFaults
    BY <2>4 DEF CountInv
  <2>8. \A e \in End : session[e].written <= Len(rows') + faults'
    <3>1. \A e \in End : session[e].written <= Len(rows) + faults /\ session[e].written \in Nat
      BY <1>1, SessionOf DEF CountInv
    <3> QED
      BY <2>2, <2>4, <2>5, <3>1
  <2> QED
    BY <2>2, <2>6, <2>7, <2>8 DEF CountInv
<1>8. ASSUME UNCHANGED <<rows, opened, session, first, made>>, UNCHANGED faults \/ Fault,
             \A e \in End : Len(jobs'[e]) <= JobMax, \A e \in End : list'[e] \in 1 .. published'
      PROVE  CountInv'
  BY <1>1, <1>8, QuietKeepsCount
<1>9. ASSUME NEW d \in End, NEW t \in Text, QueueCopies(d, t) PROVE CountInv'
  <2>1. /\ UNCHANGED <<rows, opened, session, first, made, faults, list, published>>
        /\ jobs' = [jobs EXCEPT ![d] = Append(WithRoom(@), [text |-> t, tries |-> 0])]
    BY <1>9 DEF QueueCopies, disk, relay, limits
  <2>2. [text |-> t, tries |-> 0] \in JobType
    BY DEF JobType
  <2>3. Len(jobs'[d]) <= JobMax /\ \A e \in End : e # d => jobs'[e] = jobs[e]
    BY <1>1, <1>2, <2>1, <2>2, JobsBounded
  <2> QED
    BY <1>2, <1>8, <2>1, <2>3
<1>10. ASSUME NEW d \in End, CopyNeedsSync(d) PROVE CountInv'
  <2>1. /\ UNCHANGED <<rows, opened, session, first, made, published>>
        /\ jobs' = JobFailed(d) /\ call[d].at = "copies" /\ call[d].after <= Len(jobs[d])
        /\ list' = [list EXCEPT ![d] = published] \/ list' = list
        /\ UNCHANGED faults \/ Fault
    BY <1>10 DEF CopyNeedsSync, At, disk, relay, NoFault
  <2>2. \A e \in End : Len(jobs'[e]) <= JobMax
    BY <1>4, <2>1
  <2>3. \A e \in End : list'[e] \in 1 .. published
    <3>1. CASE list' = [list EXCEPT ![d] = published]
      BY <1>2, <3>1
    <3>2. CASE list' = list
      BY <1>2, <3>2
    <3> QED
      BY <2>1, <3>1, <3>2
  <2> QED
    BY <1>8, <2>1, <2>2, <2>3
<1>11. ASSUME NEW d \in End, CopyDropped(d) PROVE CountInv'
  <2>1. /\ UNCHANGED <<rows, opened, session, first, made, published, list, faults>>
        /\ jobs' = JobDone(d) /\ call[d].at = "copies" /\ call[d].after <= Len(jobs[d])
    BY <1>11 DEF CopyDropped, At, disk, relay, limits
  <2> QED
    BY <1>2, <1>4, <1>8, <2>1
<1>12. ASSUME NEW d \in End, SyncOwnList(d) PROVE CountInv'
  <2>1. /\ UNCHANGED <<rows, opened, session, first, made, published, jobs, faults>>
        /\ list' = [list EXCEPT ![d] = published]
    BY <1>12 DEF SyncOwnList, disk, relay, limits
  <2>2. \A e \in End : list'[e] \in 1 .. published
    BY <1>2, <2>1
  <2> QED
    BY <1>2, <1>8, <2>1, <2>2
<1>13. ASSUME NEW d \in End, PairAnother(d) PROVE CountInv'
  <2>1. /\ UNCHANGED <<rows, opened, session, first, made, jobs, faults>>
        /\ list' = [list EXCEPT ![d] = published + 1] /\ published' = published + 1
    BY <1>13 DEF PairAnother, disk, relay, limits
  <2>2. \A e \in End : list'[e] \in 1 .. published'
    BY <1>2, <2>1
  <2> QED
    BY <1>2, <1>8, <2>1, <2>2
<1>14. ASSUME NEW d \in End, Restart(d) \/ TornAppend(d) PROVE CountInv'
  <2>1. /\ UNCHANGED <<rows, opened, session, first, made, list, published, faults>>
        /\ jobs' = [jobs EXCEPT ![d] = << >>]
    BY <1>14 DEF Restart, TornAppend, Forgotten, disk
  <2>2. \A e \in End : Len(jobs'[e]) <= JobMax
    BY <1>2, <2>1, InboxConstants
  <2> QED
    BY <1>2, <1>8, <2>1, <2>2
<1>15. ASSUME UNCHANGED <<rows, opened, session, first, made, list, published, jobs>>,
              UNCHANGED faults \/ Fault
       PROVE  CountInv'
  BY <1>2, <1>8, <1>15
<1>16. ASSUME NEW d \in End, CopiesEnd(d) \/ StartDrain(d) \/ StartEvent(d) \/ AckRows(d)
       PROVE  UNCHANGED <<rows, opened, session, first, made, list, published, jobs, faults>>
  BY <1>16 DEF CopiesEnd, StartDrain, StartEvent, AckRows, disk, relay, limits
<1>17. ASSUME NEW d \in End, AckFails(d) \/ SyncFails(d) \/ DeleteConversation(d)
       PROVE  /\ UNCHANGED <<rows, opened, session, first, made, list, published, jobs>>
              /\ UNCHANGED faults \/ Fault
  BY <1>17 DEF AckFails, SyncFails, DeleteConversation, disk, relay
<1>18. ASSUME UNCHANGED vars
       PROVE  UNCHANGED <<rows, opened, session, first, made, list, published, jobs, faults>>
  BY <1>18 DEF vars, disk, relay, limits
<1>19. ASSUME NEW d \in End, NEW t \in Text, SendText(d, t) \/ QueueCopies(d, t) PROVE CountInv'
  BY <1>3, <1>9, <1>19
<1>20. ASSUME NEW d \in End, Worker(d) PROVE CountInv'
  BY <1>5, <1>6, <1>10, <1>11, <1>12, <1>15, <1>16, <1>20 DEF Worker
<1>21. ASSUME NEW d \in End,
              \/ AckFails(d) \/ SyncFails(d) \/ Restart(d) \/ TornAppend(d)
              \/ DeleteConversation(d) \/ PairAnother(d)
       PROVE  CountInv'
  BY <1>13, <1>14, <1>15, <1>17, <1>21
<1> QED
  BY <1>7, <1>15, <1>18, <1>19, <1>20, <1>21 DEF Next

-----------------------------------------------------------------------------
(* The tries of the copies that wait for the list. *)

\* The calls that a page, an acknowledgement and settle_engine leave.
LEMMA CallsLeft ==
    ASSUME NEW d \in End
    PROVE  /\ Idle.acks = {} /\ Idle.stale = {}
           /\ Settled(d).acks = {} /\ Settled(d).stale = {}
           /\ \A c : IsCall(c) => Fetched(d, c).acks = {} /\ Fetched(d, c).stale = {}
           /\ \A c : IsCall(c) => /\ [AfterAck(d, c) EXCEPT !.acks = {}].acks = {}
                                  /\ [AfterAck(d, c) EXCEPT !.acks = {}].stale \subseteq c.stale
<1>1. Idle.acks = {} /\ Idle.stale = {}
  BY DEF Idle
<1>2. [Idle EXCEPT !.at = "copies", !.after = 1].acks = {}
      /\ [Idle EXCEPT !.at = "copies", !.after = 1].stale = {}
  BY DEF Idle
<1>3. Settled(d).acks = {} /\ Settled(d).stale = {}
  BY <1>1, <1>2 DEF Settled
<1>4. IsCall(Settled(d))
  BY SettledFits DEF CallFits
<1>5. ASSUME NEW c, IsCall(c)
      PROVE  /\ Fetched(d, c).acks = {} /\ Fetched(d, c).stale = {} /\ IsCall(Fetched(d, c))
  <2> DEFINE page == Page(d, c.after)
             top == CHOOSE i \in page : \A j \in page : j <= i
             full == Cardinality(page) = PageMax
             x == [c EXCEPT !.at = "rows", !.rows = page, !.acks = {}, !.stale = {},
                            !.after = top, !.full = full]
  <2>1. Fetched(d, c) = IF page = {} THEN Settled(d) ELSE x
    BY DEF Fetched
  <2> HIDE DEF page, top, full
  <2>2. x.acks = {} /\ x.stale = {} /\ IsCall(x)
    BY <1>5, Fields DEF IsCall
  <2> QED
    BY <1>3, <1>4, <2>1, <2>2
<1>6. ASSUME NEW c, IsCall(c)
      PROVE  /\ [AfterAck(d, c) EXCEPT !.acks = {}].acks = {}
             /\ [AfterAck(d, c) EXCEPT !.acks = {}].stale \subseteq c.stale
  <2> DEFINE y == AfterAck(d, c)
  <2>1. y = [c EXCEPT !.at = "sync"] \/ y = Fetched(d, c) \/ y = Settled(d)
    BY DEF AfterAck
  <2>2. [c EXCEPT !.at = "sync"].stale = c.stale /\ IsCall([c EXCEPT !.at = "sync"])
    BY <1>6, Fields DEF IsCall
  <2>3. IsCall(y) /\ y.stale \subseteq c.stale
    BY <1>3, <1>4, <1>5, <1>6, <2>1, <2>2
  <2> HIDE DEF y
  <2>4. [y EXCEPT !.acks = {}].acks = {} /\ [y EXCEPT !.acks = {}].stale = y.stale
    BY <2>3, Fields DEF IsCall
  <2> QED
    BY <2>3, <2>4 DEF y
<1> QED
  BY <1>1, <1>3, <1>5, <1>6

\* A step that only moves a call keeps the tries.
LEMMA CallKeepsTries ==
    ASSUME TriesInv, CallsFit, NEW d \in End, NEW x, call' = [call EXCEPT ![d] = x],
           x.acks \subseteq seen[d], x.stale \subseteq call[d].stale, UNCHANGED <<seen, tries>>
    PROVE  TriesInv'
<1>1. call'[d] = x /\ \A e \in End : e # d => call'[e] = call[e]
  BY DEF CallsFit
<1>2. \A e \in End : call'[e].acks \subseteq seen[e] /\ call'[e].stale \subseteq call[e].stale
  BY <1>1 DEF TriesInv
<1> QED
  BY <1>2 DEF TriesInv

\* A row that is read: one try more for a copy that waits, and the last one
\* refuses the copy.
LEMMA ReadKeepsTries ==
    ASSUME Inv, LossTypes, CountInv, TriesInv, NEW d \in End, ReadRow(d)
    PROVE  TriesInv'
<1> DEFINE c == call[d]
<1>1. StoreTypes /\ CallsFit /\ IsCall(c)
  BY DEF Inv, StoreInv, CallInv, CallsFit, CallFits
<1>2. PICK i \in c.rows, out \in Outcome :
        /\ HandleRow(d, i, out)
        /\ call' = [call EXCEPT ![d] =
             [c EXCEPT !.rows = IF out = "StaleList" THEN {} ELSE @ \ {i},
                       !.stale = IF out = "StaleList" THEN {i} ELSE @,
                       !.acks = IF Acknowledged(out) /\ (out = "Duplicate" => c.via = "drain")
                                THEN @ \cup {i} ELSE @]]
  BY DEF ReadRow, Outcome
<1>3. i \in Rows
  <2>1. i \in RowsTo(d)
    BY DEF Inv, CallInv, CallsFit, CallFits
  <2>2. i \in 1 .. Len(rows)
    BY <1>1, <2>1 DEF RowsTo, StoreTypes
  <2>3. Len(rows) \in Nat /\ Len(rows) <= MaxRows /\ MaxRows \in Nat
    BY <1>1, InboxConstants DEF StoreTypes, CountInv
  <2> QED
    BY <2>2, <2>3 DEF Rows
<1> DEFINE left == IF out = "StaleList" THEN {} ELSE c.rows \ {i}
           stale == IF out = "StaleList" THEN {i} ELSE c.stale
           acks == IF Acknowledged(out) /\ (out = "Duplicate" => c.via = "drain")
                   THEN c.acks \cup {i} ELSE c.acks
           x == [c EXCEPT !.rows = left, !.stale = stale, !.acks = acks]
<1>4. call' = [call EXCEPT ![d] = x]
  BY <1>2
<1>5. stale = (IF out = "StaleList" THEN {i} ELSE c.stale)
      /\ acks \subseteq (IF Acknowledged(out) THEN c.acks \cup {i} ELSE c.acks)
  OBVIOUS
<1> HIDE DEF left, stale, acks
<1>6. x.stale = stale /\ x.acks = acks
  BY <1>1, Fields DEF IsCall
<1> HIDE DEF x
<1>7. call'[d] = x /\ \A e \in End : e # d => call'[e] = call[e]
  BY <1>1, <1>4 DEF CallsFit
<1>8. /\ tries \in [End -> [Rows -> 0 .. MaxTries]]
      /\ seen \in [End -> SUBSET Nat] /\ MaxTries \in Nat \ {0}
      /\ c.acks \subseteq seen[d]
      /\ \A j \in c.stale : j \in Rows /\ tries[d][j] >= 1
      /\ \A j \in Rows \ seen[d] : tries[d][j] < MaxTries
  BY InboxConstants DEF TriesInv, LossTypes
<1>9. CASE i \in seen[d]
  <2>1. out = "Duplicate" /\ UNCHANGED <<seen, tries>>
    BY <1>2, <1>9 DEF HandleRow
  <2>2. x.acks \subseteq seen[d] /\ x.stale \subseteq c.stale
    BY <1>5, <1>6, <1>8, <1>9, <2>1
  <2> QED
    BY <1>1, <1>4, <2>1, <2>2, CallKeepsTries
<1>10. CASE i \notin seen[d]
  <2>1. /\ ReceiveMessage(d, i, out)
        /\ seen' = IF Acknowledged(out) THEN [seen EXCEPT ![d] = @ \cup {i}] ELSE seen
    BY <1>2, <1>10 DEF HandleRow
  <2>2. \/ StaleOrRefuse(d, i, out)
        \/ UNCHANGED tries /\ out # "StaleList"
    BY <2>1 DEF ReceiveMessage, Unreadable, StoreDecrypted
  <2>3. /\ seen'[d] = (IF Acknowledged(out) THEN seen[d] \cup {i} ELSE seen[d])
        /\ \A e \in End : e # d => seen'[e] = seen[e]
    BY <1>8, <2>1
  <2>4. \A e \in End : call'[e].acks \subseteq seen'[e]
    <3>1. x.acks \subseteq seen'[d]
      BY <1>5, <1>6, <1>8, <2>3
    <3> QED
      BY <1>7, <2>3, <3>1 DEF TriesInv
  <2>5. \A e \in End : seen[e] \subseteq seen'[e]
    BY <2>3
  <2>6. CASE UNCHANGED tries /\ out # "StaleList"
    <3>1. \A e \in End : call'[e].stale \subseteq call[e].stale
      BY <1>5, <1>6, <1>7, <2>6
    <3> QED
      BY <2>4, <2>5, <2>6, <3>1 DEF TriesInv
  <2>7. CASE StaleOrRefuse(d, i, out)
    <3>1. /\ tries' = [tries EXCEPT ![d][i] = @ + 1]
          /\ out = IF tries[d][i] + 1 < MaxTries THEN "StaleList" ELSE "Undecryptable"
      BY <2>7 DEF StaleOrRefuse
    <3>2. tries[d][i] \in Nat /\ tries[d][i] + 1 \in 1 .. MaxTries
      BY <1>3, <1>8, <1>10
    <3>3. /\ tries' \in [End -> [Rows -> 0 .. MaxTries]]
          /\ tries'[d][i] = tries[d][i] + 1
          /\ \A j \in Rows : j # i => tries'[d][j] = tries[d][j]
          /\ \A e \in End : e # d => tries'[e] = tries[e]
      BY <1>3, <1>8, <3>1, <3>2
    <3>4. ASSUME NEW e \in End, NEW j \in Rows \ seen'[e] PROVE tries'[e][j] < MaxTries
      <4>1. CASE e = d /\ j = i
        <5>1. ~Acknowledged(out)
          BY <2>3, <3>4, <4>1
        <5>2. out = "StaleList"
          BY <3>1, <5>1 DEF Acknowledged
        <5> QED
          BY <3>1, <3>2, <3>3, <4>1, <5>2
      <4>2. CASE ~(e = d /\ j = i)
        <5>1. j \in Rows \ seen[e]
          BY <2>5, <3>4
        <5>2. tries'[e][j] = tries[e][j]
          BY <3>3, <4>2, <5>1
        <5> QED
          BY <5>1, <5>2 DEF TriesInv
      <4> QED
        BY <4>1, <4>2
    <3>5. ASSUME NEW e \in End, NEW j \in call'[e].stale PROVE j \in Rows /\ tries'[e][j] >= 1
      <4>1. CASE e # d
        BY <1>7, <3>3, <3>5, <4>1 DEF TriesInv
      <4>2. CASE e = d /\ j = i
        BY <1>3, <3>2, <3>3, <4>2
      <4>3. CASE e = d /\ j # i
        <5>1. j \in c.stale
          BY <1>5, <1>6, <1>7, <3>5, <4>3
        <5> QED
          BY <1>8, <3>3, <4>3, <5>1
      <4> QED
        BY <4>1, <4>2, <4>3
    <3> QED
      BY <2>4, <3>3, <3>4, <3>5 DEF TriesInv
  <2> QED
    BY <2>2, <2>6, <2>7
<1> QED
  BY <1>9, <1>10

\* A stop of the program forgets the rows, the tries and the call of the end.
LEMMA ForgetKeepsTries ==
    ASSUME Inv, LossTypes, TriesInv, NEW d \in End, Forgotten(d)
    PROVE  TriesInv'
<1>1. /\ tries \in [End -> [Rows -> 0 .. MaxTries]] /\ seen \in [End -> SUBSET Nat]
      /\ MaxTries \in Nat \ {0} /\ call = [e \in End |-> call[e]]
  BY InboxConstants DEF TriesInv, LossTypes, Inv, CallInv, CallsFit
<1>2. /\ seen' = [seen EXCEPT ![d] = {}] /\ call' = [call EXCEPT ![d] = Idle]
      /\ tries' = [tries EXCEPT ![d] = [i \in DOMAIN @ |-> 0]]
  BY DEF Forgotten
<1>3. /\ call'[d] = Idle /\ seen'[d] = {} /\ tries'[d] = [i \in Rows |-> 0]
      /\ \A e \in End : e # d => call'[e] = call[e] /\ seen'[e] = seen[e] /\ tries'[e] = tries[e]
  BY <1>1, <1>2
<1>4. tries' \in [End -> [Rows -> 0 .. MaxTries]]
  BY <1>1, <1>2
<1>5. Idle.acks = {} /\ Idle.stale = {}
  BY DEF Idle
<1>6. \A e \in End : \A i \in Rows \ seen'[e] : tries'[e][i] < MaxTries
  BY <1>1, <1>3 DEF TriesInv
<1>7. \A e \in End : call'[e].acks \subseteq seen'[e]
  BY <1>3, <1>5 DEF TriesInv
<1>8. \A e \in End : \A i \in call'[e].stale : i \in Rows /\ tries'[e][i] >= 1
  BY <1>3, <1>5 DEF TriesInv
<1> QED
  BY <1>4, <1>6, <1>7, <1>8 DEF TriesInv

\* release_stale_try gives back a try that was counted.
LEMMA SyncFailsKeepsTries ==
    ASSUME Inv, TriesInv, NEW d \in End, SyncFails(d)
    PROVE  TriesInv'
<1>1. /\ tries \in [End -> [Rows -> 0 .. MaxTries]] /\ MaxTries \in Nat \ {0}
      /\ call = [e \in End |-> call[e]]
  BY InboxConstants DEF TriesInv, Inv, CallInv, CallsFit
<1>2. /\ call' = [call EXCEPT ![d] = Settled(d)] /\ UNCHANGED seen
      /\ tries' = [tries EXCEPT ![d] =
           [i \in DOMAIN @ |-> IF i \in call[d].stale THEN @[i] - 1 ELSE @[i]]]
  BY DEF SyncFails
<1>3. tries' = [tries EXCEPT ![d] =
        [i \in Rows |-> IF i \in call[d].stale THEN tries[d][i] - 1 ELSE tries[d][i]]]
  BY <1>1, <1>2
<1>4. ASSUME NEW i \in Rows
      PROVE  /\ tries[d][i] \in 0 .. MaxTries
             /\ i \in call[d].stale => tries[d][i] >= 1
  BY <1>1 DEF TriesInv
<1>5. /\ \A i \in Rows : tries'[d][i] = tries[d][i] \/ tries'[d][i] = tries[d][i] - 1
      /\ \A i \in Rows : tries'[d][i] \in 0 .. MaxTries
      /\ \A e \in End : e # d => tries'[e] = tries[e]
  BY <1>1, <1>3, <1>4
<1>6. tries' \in [End -> [Rows -> 0 .. MaxTries]]
  <2> DEFINE f == [i \in Rows |-> IF i \in call[d].stale THEN tries[d][i] - 1 ELSE tries[d][i]]
  <2>1. f \in [Rows -> 0 .. MaxTries]
    BY <1>1, <1>4
  <2> HIDE DEF f
  <2>2. tries' = [tries EXCEPT ![d] = f]
    BY <1>3 DEF f
  <2> QED
    BY <1>1, <2>1, <2>2
<1>7. /\ call'[d] = Settled(d) /\ Settled(d).acks = {} /\ Settled(d).stale = {}
      /\ \A e \in End : e # d => call'[e] = call[e]
  BY <1>1, <1>2, CallsLeft
<1>8. \A e \in End : \A i \in Rows \ seen[e] : tries'[e][i] < MaxTries
  <2>1. \A i \in Rows \ seen[d] : tries'[d][i] < MaxTries
    <3> SUFFICES ASSUME NEW i \in Rows \ seen[d] PROVE tries'[d][i] < MaxTries
      OBVIOUS
    <3>1. tries[d][i] < MaxTries
      BY DEF TriesInv
    <3> QED
      BY <1>1, <1>4, <1>5, <3>1
  <2> QED
    BY <1>5, <2>1 DEF TriesInv
<1>9. \A e \in End : call'[e].acks \subseteq seen[e]
  BY <1>7 DEF TriesInv
<1>10. \A e \in End : \A i \in call'[e].stale : i \in Rows /\ tries'[e][i] >= 1
  BY <1>5, <1>7 DEF TriesInv
<1> QED
  BY <1>2, <1>6, <1>8, <1>9, <1>10 DEF TriesInv

\* Every step keeps the tries.
LEMMA TriesStep ==
    ASSUME Inv, LossInv, CountInv, TriesInv, [Next]_vars
    PROVE  TriesInv'
<1>1. CallInv /\ CallsFit /\ LossTypes /\ call = [e \in End |-> call[e]]
  BY DEF Inv, CallInv, CallsFit, LossInv
<1>2. \A d \in End : IsCall(call[d]) /\ call[d].acks \subseteq seen[d]
  BY <1>1 DEF CallsFit, CallFits, TriesInv
<1>3. ASSUME NEW d \in End, NEW x, call' = [call EXCEPT ![d] = x], UNCHANGED <<seen, tries>>,
             x.acks \subseteq seen[d], x.stale \subseteq call[d].stale
      PROVE  TriesInv'
  BY <1>1, <1>3, CallKeepsTries
<1>4. ASSUME UNCHANGED <<call, seen, tries>> PROVE TriesInv'
  BY <1>4 DEF TriesInv
<1>5. ASSUME NEW d \in End, NEW t \in Text, QueueCopies(d, t) PROVE TriesInv'
  <2> DEFINE x == [Idle EXCEPT !.at = "copies", !.after = 1]
  <2>1. call' = [call EXCEPT ![d] = x] /\ UNCHANGED <<seen, tries>>
    BY <1>5 DEF QueueCopies
  <2>2. x.acks = {} /\ x.stale = {}
    BY DEF Idle
  <2> HIDE DEF x
  <2> QED
    BY <1>3, <2>1, <2>2
<1>6. ASSUME NEW d \in End, CopyTo(d) PROVE TriesInv'
  <2> DEFINE k == call[d].after + 1 - (Len(jobs[d]) - Len(jobs'[d]))
             x == [call[d] EXCEPT !.after = k]
  <2>1. call' = NextJob(d) /\ UNCHANGED <<seen, tries>>
    BY <1>6 DEF CopyTo
  <2>2. call' = [call EXCEPT ![d] = x]
    BY <1>1, <2>1 DEF NextJob
  <2> HIDE DEF k
  <2>3. x.acks = call[d].acks /\ x.stale = call[d].stale
    BY <1>2, Fields DEF IsCall
  <2> QED
    BY <1>2, <1>3, <2>1, <2>2, <2>3
<1>7. ASSUME NEW d \in End, CopyNeedsSync(d) PROVE TriesInv'
  <2> DEFINE x == IF call[d].round = 1 THEN [call[d] EXCEPT !.after = 1, !.round = 2] ELSE Idle
  <2>1. call' = [call EXCEPT ![d] = x] /\ UNCHANGED <<seen, tries>>
    BY <1>1, <1>7 DEF CopyNeedsSync
  <2>2. x.acks \subseteq call[d].acks /\ x.stale \subseteq call[d].stale
    BY <1>2, Fields, CallsLeft DEF IsCall
  <2> HIDE DEF x
  <2> QED
    BY <1>2, <1>3, <2>1, <2>2
<1>8. ASSUME NEW d \in End, CopiesEnd(d) \/ AckFails(d) PROVE TriesInv'
  <2>1. /\ call' = [call EXCEPT ![d] = Idle] \/ call' = [call EXCEPT ![d] = Settled(d)]
        /\ UNCHANGED <<seen, tries>>
    BY <1>8 DEF CopiesEnd, AckFails
  <2> QED
    BY <1>3, <2>1, CallsLeft
<1>9. ASSUME NEW d \in End, StartDrain(d) PROVE TriesInv'
  <2> DEFINE c == [Idle EXCEPT !.via = "drain"]
  <2>1. call' = [call EXCEPT ![d] = Fetched(d, c)] /\ UNCHANGED <<seen, tries>>
    BY <1>9 DEF StartDrain
  <2>2. IsCall(c)
    BY DEF IsCall, Idle
  <2> HIDE DEF c
  <2> QED
    BY <1>3, <2>1, <2>2, CallsLeft
<1>10. ASSUME NEW d \in End, StartEvent(d) PROVE TriesInv'
  <2>1. PICK i \in events[d] :
          call' = [call EXCEPT ![d] = [Idle EXCEPT !.at = "rows", !.via = "event",
                                                   !.rows = {i}, !.after = i]]
    BY <1>10 DEF StartEvent
  <2> DEFINE x == [Idle EXCEPT !.at = "rows", !.via = "event", !.rows = {i}, !.after = i]
  <2>2. x.acks = {} /\ x.stale = {}
    BY DEF Idle
  <2>3. UNCHANGED <<seen, tries>>
    BY <1>10 DEF StartEvent
  <2> HIDE DEF x
  <2>4. call' = [call EXCEPT ![d] = x]
    BY <2>1 DEF x
  <2> QED
    BY <1>3, <2>2, <2>3, <2>4
<1>11. ASSUME NEW d \in End, AckRows(d) PROVE TriesInv'
  <2> DEFINE x == [AfterAck(d, call[d]) EXCEPT !.acks = {}]
  <2>1. call' = [call EXCEPT ![d] = x] /\ UNCHANGED <<seen, tries>>
    BY <1>11 DEF AckRows
  <2>2. x.acks = {} /\ x.stale \subseteq call[d].stale
    BY <1>2, CallsLeft
  <2> HIDE DEF x
  <2> QED
    BY <1>3, <2>1, <2>2
<1>12. ASSUME NEW d \in End, SyncOwnList(d) PROVE TriesInv'
  <2> DEFINE c == call[d]
             again == [c EXCEPT !.round = 2, !.stale = {}, !.acks = {}]
             row == [again EXCEPT !.at = "rows", !.rows = {c.after}]
             start == [again EXCEPT !.after = 0]
             x == IF c.round = 2 THEN Settled(d)
                  ELSE IF c.via = "event" THEN row ELSE Fetched(d, start)
  <2>1. call' = [call EXCEPT ![d] = x] /\ UNCHANGED <<seen, tries>>
    BY <1>12 DEF SyncOwnList
  <2>2. row.acks = {} /\ row.stale = {} /\ IsCall(start)
    BY <1>2, Fields DEF IsCall
  <2> HIDE DEF row, start
  <2>3. x.acks = {} /\ x.stale = {}
    BY <2>2, CallsLeft
  <2> HIDE DEF x
  <2> QED
    BY <1>3, <2>1, <2>3
<1>13. ASSUME NEW d \in End, ReadRow(d) PROVE TriesInv'
  BY <1>1, <1>13, ReadKeepsTries
<1>14. ASSUME NEW d \in End, SyncFails(d) PROVE TriesInv'
  BY <1>14, SyncFailsKeepsTries
<1>15. ASSUME NEW d \in End, Restart(d) \/ TornAppend(d) PROVE TriesInv'
  <2>1. Forgotten(d)
    BY <1>15 DEF Restart, TornAppend
  <2> QED
    BY <1>1, <2>1, ForgetKeepsTries
<1>16. ASSUME NEW d \in End,
              \/ \E t \in Text : SendText(d, t)
              \/ CopyDropped(d) \/ DeleteConversation(d) \/ PairAnother(d)
       PROVE  UNCHANGED <<call, seen, tries>>
  BY <1>16 DEF SendText, CopyDropped, DeleteConversation, PairAnother
<1>17. ASSUME RelayRepeats \/ UNCHANGED vars
       PROVE  UNCHANGED <<call, seen, tries>>
  BY <1>17 DEF RelayRepeats, vars
<1>18. ASSUME NEW d \in End, Worker(d) PROVE TriesInv'
  BY <1>4, <1>6, <1>7, <1>8, <1>9, <1>10, <1>11, <1>12, <1>13, <1>16, <1>18 DEF Worker
<1>19. ASSUME NEW d \in End, NEW t \in Text, SendText(d, t) \/ QueueCopies(d, t) PROVE TriesInv'
  BY <1>4, <1>5, <1>16, <1>19
<1>20. ASSUME NEW d \in End,
              \/ AckFails(d) \/ SyncFails(d) \/ Restart(d) \/ TornAppend(d)
              \/ DeleteConversation(d) \/ PairAnother(d)
       PROVE  TriesInv'
  BY <1>4, <1>8, <1>14, <1>15, <1>16, <1>20
<1> QED
  BY <1>4, <1>17, <1>18, <1>19, <1>20 DEF Next

-----------------------------------------------------------------------------
(* The theorem. *)

\* SoundInv is true at first.
LEMMA SoundInit == Init => SoundInv
<1> SUFFICES ASSUME Init PROVE SoundInv
  OBVIOUS
<1>1. Inv
  BY InvInit
<1>2. /\ rows = << >> /\ opened = << >> /\ faults = 0 /\ published = 2
      /\ session = [d \in End |-> NoSession] /\ spent = [d \in End |-> {}]
      /\ first = [d \in End |-> << >>] /\ made = [d \in End |-> << >>]
      /\ seen = [d \in End |-> {}] /\ deleted = [d \in End |-> FALSE]
      /\ jobs = [d \in End |-> << >>] /\ call = [d \in End |-> Idle]
      /\ tries = [d \in End |-> [r \in 1 .. MaxRows |-> 0]]
      /\ list = [d \in End |-> IF Listed(d, 1) THEN 1 ELSE 2]
  BY DEF Init
<1>3. /\ MaxFaults \in Nat /\ MaxRows \in Nat /\ MaxSessions \in Nat /\ JobMax \in Nat
      /\ ReplayWindow \in Nat /\ MaxTries \in Nat \ {0}
  BY InboxConstants
<1>4. DOMAIN rows = {} /\ DOMAIN opened = {} /\ Len(rows) = 0 /\ Len(opened) = 0
      /\ \A d : RowsTo(d) = {}
  BY <1>2 DEF RowsTo
<1>5. \A d \in End : /\ session[d].read = {} /\ session[d].written = 0
                     /\ first[d] = << >> /\ made[d] = << >> /\ spent[d] = {} /\ seen[d] = {}
  BY <1>2 DEF NoSession
<1>6. LossTypes
  BY <1>2, <1>4 DEF LossTypes
<1>7. OneMessageEach /\ WrittenRows /\ Answered
  BY <1>4 DEF OneMessageEach, WrittenRows, Answered
<1>8. RecordsFit
  BY <1>5 DEF RecordsFit
<1>9. ReadIsKept /\ HandledIsKept
  BY <1>4 DEF ReadIsKept, HandledIsKept
<1>10. CountInv
  <2>1. \A d \in End : jobs[d] = << >> /\ (list[d] = 1 \/ list[d] = 2)
    BY <1>2
  <2>2. \A d \in End : Len(jobs[d]) <= JobMax /\ list[d] \in 1 .. published
    BY <1>2, <1>3, <2>1
  <2>3. \A d \in End : Len(made[d]) <= ReplayWindow /\ Len(first[d]) <= ReplayWindow
    BY <1>3, <1>5
  <2> QED
    BY <1>2, <1>3, <1>4, <1>5, <2>2, <2>3 DEF CountInv
<1>11. TriesInv
  <2>1. \A d \in End : call[d].acks = {} /\ call[d].stale = {}
    BY <1>2 DEF Idle
  <2>2. tries \in [End -> [Rows -> 0 .. MaxTries]] /\ \A d \in End : \A i \in Rows : tries[d][i] = 0
    BY <1>2, <1>3 DEF Rows
  <2> QED
    BY <1>3, <2>1, <2>2 DEF TriesInv
<1> QED
  BY <1>1, <1>6, <1>7, <1>8, <1>9, <1>10, <1>11 DEF SoundInv, LossInv

\* Every step keeps SoundInv.
LEMMA SoundStep ==
    ASSUME SoundInv, [Next]_vars
    PROVE  SoundInv'
  BY InvStep, LossStep, CountStep, TriesStep DEF SoundInv

\* SoundInv gives the types and the bounds.
LEMMA SoundTypes == SoundInv => TypeOK
<1> SUFFICES ASSUME SoundInv PROVE TypeOK
  OBVIOUS
<1>1. /\ StoreTypes /\ OneSessionEach /\ WaitingOK /\ CallsFit /\ LossTypes /\ RecordsFit
      /\ CountInv /\ TriesInv
  BY DEF SoundInv, Inv, StoreInv, CallInv, LossInv
<1>2. /\ MaxFaults \in Nat /\ MaxRows \in Nat /\ MaxSessions \in Nat
  BY InboxConstants
<1>3. session \in [End -> SessionType]
  <2>1. ASSUME NEW d \in End PROVE session[d] \in SessionType
    <3>1. session[d] \in OlmSession
      BY <1>1 DEF StoreTypes
    <3>2. session[d].id \in 0 .. MaxSessions
      <4>1. session[d].id = 0 \/ session[d].id \in DOMAIN opened
        BY <1>1, SessionOf
      <4>2. DOMAIN opened = 1 .. Len(opened) /\ Len(opened) \in Nat /\ Len(opened) <= MaxSessions
        BY <1>1 DEF StoreTypes, CountInv
      <4> QED
        BY <1>2, <4>1, <4>2
    <3>3. session[d].written \in 0 .. MaxRows + MaxFaults
      <4>1. /\ session[d].written \in Nat /\ session[d].written <= Len(rows) + faults
            /\ Len(rows) <= MaxRows /\ faults \in 0 .. MaxFaults /\ Len(rows) \in Nat
        BY <1>1, <3>1 DEF OlmSession, CountInv, StoreTypes
      <4> QED
        BY <1>2, <4>1
    <3>4. session[d].read \in SUBSET (1 .. MaxRows + MaxFaults) /\ session[d].heard \in BOOLEAN
      BY <1>1, <3>1 DEF OlmSession, CountInv
    <3> QED
      BY <3>1, <3>2, <3>3, <3>4 DEF OlmSession, SessionType
  <2> QED
    BY <1>1, <2>1 DEF StoreTypes
<1>4. ASSUME NEW d \in End PROVE spent[d] \subseteq DOMAIN opened /\ ToSet(made[d]) \subseteq DOMAIN opened
  <2>1. spent[d] \subseteq Nat /\ made[d] \in Seq(Nat)
    BY <1>1 DEF LossTypes
  <2>2. \A k \in DOMAIN made[d] : made[d][k] \in Nat
    BY <2>1
  <2> QED
    BY <1>1, <2>1, <2>2 DEF RecordsFit, ToSet
<1>5. ASSUME NEW d \in End
      PROVE  inbox[d] \cup events[d] \cup seen[d] \cup call[d].rows
               \subseteq {i \in DOMAIN rows : rows[i].to = d}
  BY <1>1 DEF WaitingOK, LossTypes, CallsFit, CallFits, RowsTo
<1>6. ASSUME NEW d \in End
      PROVE  /\ Len(made[d]) <= ReplayWindow /\ Len(first[d]) <= ReplayWindow
             /\ Len(jobs[d]) <= JobMax /\ list[d] \in 1 .. published
             /\ call[d].acks \subseteq seen[d] /\ tries[d] \in [Rows -> 0 .. MaxTries]
  BY <1>1 DEF CountInv, TriesInv
<1> QED
  BY <1>1, <1>3, <1>4, <1>5, <1>6 DEF TypeOK, StoreTypes

\* Two ends opened a session each when one gave way to the other.
LEMMA CrossedIsTwo ==
    ASSUME StoreTypes, OneSessionEach, NEW d \in End, NEW i \in DOMAIN rows, Crossed(d, rows[i])
    PROVE  Cardinality(ToSet(opened)) = 2 /\ session[d].id # rows[i].sid
<1>1. /\ rows[i].sid \in DOMAIN opened /\ opened[rows[i].sid] = d
      /\ session[d].id \in DOMAIN opened /\ opened[session[d].id] = Other(d)
      /\ session[d].id # rows[i].sid
  BY RowFields DEF Crossed
<1>2. Other(d) # d /\ \A u \in DOMAIN opened : opened[u] \in {d, Other(d)}
  BY SessionOf
<1>3. ToSet(opened) = {d} \cup {Other(d)}
  BY <1>1, <1>2 DEF ToSet
<1>4. IsFiniteSet({d}) /\ Cardinality({d}) = 1
  BY FS_Singleton
<1>5. Cardinality({d} \cup {Other(d)}) = 2
  <2>1. Other(d) \notin {d}
    BY <1>2
  <2>2. \A S, x : IsFiniteSet(S) /\ x \notin S => Cardinality(S \cup {x}) = Cardinality(S) + 1
    BY FS_AddElement
  <2>3. Cardinality({d} \cup {Other(d)}) = Cardinality({d}) + 1
    BY <1>4, <2>1, <2>2
  <2> QED
    BY <1>4, <2>3
<1> QED
  BY <1>1, <1>3, <1>5

\* SoundInv gives that texts are lost only by crossing sessions.
LEMMA SoundLosses == SoundInv => LostOnlyByCrossing
<1> SUFFICES ASSUME SoundInv, NEW d \in End, NEW i \in Unshown(d) \ refused
             PROVE  \/ Cardinality(ToSet(opened)) = 2 /\ session[d].id # rows[i].sid
                    \/ deleted[d]
  BY DEF LostOnlyByCrossing
<1>1. StoreTypes /\ OneSessionEach /\ HandledIsKept
  BY DEF SoundInv, Inv, StoreInv, LossInv
<1>2. i \in RowsTo(d) /\ i \in DOMAIN rows /\ i \notin inbox[d] /\ i \notin refused
      /\ rows[i].text \notin ToSet(Shown[d])
  BY DEF Unshown, RowsTo
<1>3. Kept(d, rows[i].text) \/ Crossed(d, rows[i])
  BY <1>1, <1>2 DEF HandledIsKept
<1>4. Kept(d, rows[i].text) => deleted[d]
  <2>1. Shown[d] = [k \in DOMAIN history[d] |-> history[d][k].text]
    BY DEF Shown
  <2> QED
    BY <1>2, <2>1 DEF Kept, ToSet
<1> QED
  BY <1>1, <1>2, <1>3, <1>4, CrossedIsTwo

\* Failed writes, failed acknowledgements, repeated rows, lost answers and
\* restarts lose no text that the device acknowledged (store_decrypted before
\* set_inbound, handle_row, ack): it is on the disk, or its session gave way to
\* that of the other end, the list refused the copy, or the user deleted the
\* conversation.  The types and bounds of TypeOK hold with it.
THEOREM InboxStaysSound == Spec => []InboxSound
<1>1. Init => SoundInv
  BY SoundInit
<1>2. SoundInv /\ [Next]_vars => SoundInv'
  BY SoundStep
<1>3. SoundInv => InboxSound
  BY SoundTypes, SoundLosses DEF InboxSound
<1> QED
  BY <1>1, <1>2, <1>3, PTL DEF Spec
=============================================================================
