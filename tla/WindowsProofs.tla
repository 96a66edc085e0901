---------------------------- MODULE WindowsProofs ----------------------------
(***************************************************************************)
(* Proofs about the channel windows of the sidebar, for any channels,      *)
(* networks, length of the queue and number of events at Grappa and on the *)
(* socket:                                                                 *)
(*                                                                         *)
(*   SidebarStaysSound  the metadata follows the states, and when every    *)
(*                      push is read and none was lost the sidebar shows   *)
(*                      what Grappa holds;                                 *)
(*   PseudoRowsStay     a row that no list shows goes only together with   *)
(*                      the state of its window.                           *)
(*                                                                         *)
(* The inductive invariant says where the pushes in the queue lead: for    *)
(* every channel and every network, either what the client shows is what   *)
(* Grappa holds and nothing that waits will undo it, or the last of the    *)
(* waiting pushes about it brings the client there.                        *)
(***************************************************************************)
EXTENDS Windows, FiniteSetTheorems, WellFoundedInduction, TLAPS

-----------------------------------------------------------------------------
(* What waits in a queue. *)

\* A push of S waits.
Waits(q, S) == \E i \in DOMAIN q : q[i] \in S

\* The push p waits, and nothing of S behind it.
Stands(q, p, S) ==
    \E i \in DOMAIN q : q[i] = p /\ \A j \in DOMAIN q : j > i => q[j] \notin S

\* The push p waits with nothing of S behind it, and r behind p with nothing of R
\* behind that.
Leads(q, p, S, r, R) ==
    \E i, k \in DOMAIN q :
       /\ q[i] = p /\ q[k] = r /\ i < k
       /\ \A j \in DOMAIN q : (j > i => q[j] \notin S) /\ (j > k => q[j] \notin R)

-----------------------------------------------------------------------------
(* The pushes. *)

StateKinds == {"pending", "invited", "declined", "joined", "failed", "kicked"}
LifecycleKinds == {"attached", "detached"}

Pushes ==
    [kind : StateKinds \cup {"seeded"}, of : Channel]
    \cup [kind : LifecycleKinds \cup {"connecting", "welcome"}, of : Network]
    \cup [kind : {"status"}, of : [net : Network, to : Status]]
    \cup [kind : {"changed", "lost", "up"}, of : {ServerWindow}]

Changed == Push("changed", ServerWindow)
Lifecycle(n) == {Push(k, n) : k \in LifecycleKinds}
StatusOf(n, t) == Push("status", [net |-> n, to |-> t])
NetPushes(n) == Lifecycle(n) \cup {Push("welcome", n)} \cup {StatusOf(n, t) : t \in Status}

\* What would take the client away from the state of the channel at Grappa.
Others(c) == {Push(k, c) : k \in StateKinds \ {sv[c]}} \cup Lifecycle(NetOf[c])

\* What would show the row of the channel, and the same without a join.
Shows(c) == {Push(k, c) : k \in StateKinds \ {"declined"}}
Asks(c) == {Push(k, c) : k \in StateKinds \ {"declined", "joined"}}

-----------------------------------------------------------------------------
(* The inductive invariant. *)

SvStates == {"out", "pending", "invited", "joined", "failed", "kicked"}

Types ==
    /\ TypeOK
    /\ ~session => link = "down"
    /\ missed \in BOOLEAN /\ sv \in [Channel -> SvStates] /\ auto \subseteq Channel
    /\ snets \subseteq Network /\ sconn \in [Network -> Status]
    /\ queue \in Seq(Pushes)

Meta ==
    /\ failures = {c \in Channel : ws[c] = "failed"}
    /\ kicks = {c \in Channel : ws[c] = "kicked"}
    /\ inviters = {c \in Channel : ws[c] = "invited"}

\* What Grappa holds is of networks that it has, and a channel that is joined is
\* joined again.
ServerInv ==
    \A c \in Channel :
       /\ sv[c] # "out" \/ c \in auto => NetOf[c] \in snets
       /\ sv[c] = "joined" => c \in auto

\* The last push about a network brings the client to what Grappa has.
NetworkInv(q, n) ==
    /\ ~Waits(q, Lifecycle(n)) => (n \in nets <=> n \in snets)
    /\ Stands(q, Push("attached", n), Lifecycle(n)) => n \in snets
    /\ Stands(q, Push("detached", n), Lifecycle(n)) => n \notin snets
    /\ n \in snets =>
          /\ ~Waits(q, NetPushes(n)) => conn[n] = sconn[n]
          /\ \A t \in Status : Stands(q, StatusOf(n, t), NetPushes(n)) => t = sconn[n]
    /\ n \in snets /\ n \notin again => ~Waits(q, Lifecycle(n))

\* The push that says what Grappa holds of the channel is the last of its kind.
Comes(q, c) == Stands(q, Push(sv[c], c), Others(c))

\* A channel that waits for its join or an answer.
AskedInv(q, c) ==
    sv[c] \in {"pending", "invited"} =>
       \/ link = "down"
       \/ Comes(q, c)
       \/ /\ ~Waits(q, Others(c)) /\ ws[c] = sv[c]
          /\ c \in entries /\ c \in ctopics /\ c \in joined

\* A joined channel: the report comes before the signal that registers its topic.
JoinedInv(q, c) ==
    sv[c] = "joined" =>
       \/ Leads(q, Push("joined", c), Others(c), Changed, {})
       \/ /\ ~Waits(q, Others(c)) /\ ws[c] = "joined" /\ c \in entries
          /\ (c \in ctopics /\ c \in joined) \/ Waits(q, {Changed})

\* A channel that failed or is kicked: the report comes, or it is read, or it
\* comes when the link is back.
EndedInv(q, c) ==
    sv[c] \in {"failed", "kicked"} =>
       \/ Comes(q, c)
       \/ /\ ~Waits(q, Others(c))
          /\ c \in parts \/ (IF c \in entries THEN ws[c] = sv[c] ELSE c \notin auto)
       \/ link = "down" /\ q = << >> /\ c \in held

\* A channel that Grappa does not know: its row is gone, or goes with the
\* answer to an invitation, or with a signal while its window is joined.
OutInv(q, c) ==
    sv[c] = "out" /\ c \notin auto /\ NetOf[c] \in snets /\ NetOf[c] \notin again =>
       \/ c \notin entries /\ ~Waits(q, Shows(c))
       \/ Stands(q, Push("declined", c), Shows(c))
       \/ Leads(q, Push("joined", c), Asks(c), Changed, Shows(c))
       \/ Stands(q, Changed, Shows(c)) /\ ws[c] \notin Unlisted /\ ~Waits(q, Asks(c))

ChannelInv(q, c) == AskedInv(q, c) /\ JoinedInv(q, c) /\ EndedInv(q, c) /\ OutInv(q, c)

\* While nothing was lost, the queue leads the client to what Grappa holds.
Synced ==
    session /\ ~missed =>
       /\ \A n \in Network : NetworkInv(queue, n)
       /\ \A c \in Channel : ChannelInv(queue, c)

WindowsInv == Types /\ Meta /\ ServerInv /\ Synced

-----------------------------------------------------------------------------
(* Reading and appending. *)

\* The first push is read.
LEMMA ReadWaits ==
    ASSUME NEW T, NEW q \in Seq(T), q # << >>
    PROVE  \A S : Waits(q, S) <=> Head(q) \in S \/ Waits(Tail(q), S)
<1> DEFINE u == Tail(q)
<1>1. /\ DOMAIN q = 1 .. Len(q) /\ DOMAIN u = 1 .. (Len(q) - 1) /\ Len(q) \in Nat \ {0}
      /\ q[1] = Head(q) /\ \A i \in DOMAIN u : u[i] = q[i + 1]
  OBVIOUS
<1> HIDE DEF u
<1>2. \A i \in DOMAIN q : i = 1 \/ (i - 1 \in DOMAIN u /\ u[i - 1] = q[i])
  BY <1>1
<1>3. \A i \in DOMAIN u : i + 1 \in DOMAIN q /\ q[i + 1] = u[i]
  BY <1>1
<1>4. 1 \in DOMAIN q
  BY <1>1
<1> QED
  BY <1>1, <1>2, <1>3, <1>4 DEF Waits, u

\* The head is read: what stands, stands in the tail, or is the head.
LEMMA ReadStands ==
    ASSUME NEW T, NEW q \in Seq(T), q # << >>
    PROVE  \A p, S : Stands(q, p, S) <=> \/ Head(q) = p /\ ~Waits(Tail(q), S)
                                         \/ Stands(Tail(q), p, S)
<1> DEFINE u == Tail(q)
<1>1. /\ DOMAIN q = 1 .. Len(q) /\ DOMAIN u = 1 .. (Len(q) - 1) /\ Len(q) \in Nat \ {0}
      /\ q[1] = Head(q) /\ \A i \in DOMAIN u : u[i] = q[i + 1]
  OBVIOUS
<1> HIDE DEF u
<1>2. \A i \in DOMAIN q : i = 1 \/ (i - 1 \in DOMAIN u /\ u[i - 1] = q[i])
  BY <1>1
<1>3. \A i \in DOMAIN u : i + 1 \in DOMAIN q /\ q[i + 1] = u[i] /\ i + 1 > 1
  BY <1>1
<1>4. TAKE p, S
<1>5. ASSUME Stands(q, p, S) PROVE (Head(q) = p /\ ~Waits(u, S)) \/ Stands(u, p, S)
  <2>1. PICK i \in DOMAIN q : q[i] = p /\ \A j \in DOMAIN q : j > i => q[j] \notin S
    BY <1>5 DEF Stands
  <2>2. CASE i = 1
    <3>1. \A j \in DOMAIN u : u[j] \notin S
      BY <1>3, <2>1, <2>2
    <3> QED
      BY <1>1, <2>1, <2>2, <3>1 DEF Waits
  <2>3. CASE i # 1
    <3>1. i - 1 \in DOMAIN u /\ u[i - 1] = p
      BY <1>2, <2>1, <2>3
    <3>2. \A j \in DOMAIN u : j > i - 1 => j + 1 > i
      BY <1>1
    <3>3. \A j \in DOMAIN u : j > i - 1 => u[j] \notin S
      BY <1>3, <2>1, <3>2
    <3> QED
      BY <3>1, <3>3 DEF Stands
  <2> QED
    BY <2>2, <2>3
<1>6. ASSUME Head(q) = p, ~Waits(u, S) PROVE Stands(q, p, S)
  <2>1. 1 \in DOMAIN q /\ \A j \in DOMAIN q : j > 1 => q[j] \notin S
    BY <1>1, <1>2, <1>6 DEF Waits
  <2> QED
    BY <1>1, <1>6, <2>1 DEF Stands
<1>7. ASSUME Stands(u, p, S) PROVE Stands(q, p, S)
  <2>1. PICK i \in DOMAIN u : u[i] = p /\ \A j \in DOMAIN u : j > i => u[j] \notin S
    BY <1>7 DEF Stands
  <2>2. i + 1 \in DOMAIN q /\ q[i + 1] = p
    BY <1>3, <2>1
  <2>3. \A j \in DOMAIN q : j > i + 1 => j # 1 /\ j - 1 > i
    BY <1>1
  <2>4. \A j \in DOMAIN q : j > i + 1 => q[j] \notin S
    BY <1>2, <2>1, <2>3
  <2> QED
    BY <2>2, <2>4 DEF Stands
<1> QED
  BY <1>5, <1>6, <1>7 DEF u

\* The head is read: what leads, leads in the tail, or is the head.
LEMMA ReadLeads ==
    ASSUME NEW T, NEW q \in Seq(T), q # << >>
    PROVE  \A p, S, r, R : Leads(q, p, S, r, R) <=>
              \/ Head(q) = p /\ ~Waits(Tail(q), S) /\ Stands(Tail(q), r, R)
              \/ Leads(Tail(q), p, S, r, R)
<1> DEFINE u == Tail(q)
<1>1. /\ DOMAIN q = 1 .. Len(q) /\ DOMAIN u = 1 .. (Len(q) - 1) /\ Len(q) \in Nat \ {0}
      /\ q[1] = Head(q) /\ \A i \in DOMAIN u : u[i] = q[i + 1]
  OBVIOUS
<1> HIDE DEF u
<1>2. \A i \in DOMAIN q : i = 1 \/ (i - 1 \in DOMAIN u /\ u[i - 1] = q[i])
  BY <1>1
<1>3. \A i \in DOMAIN u : i + 1 \in DOMAIN q /\ q[i + 1] = u[i] /\ i + 1 > 1
  BY <1>1
<1>4. \A i \in DOMAIN q : i \in Nat /\ i > 0
  BY <1>1
<1>5. \A i \in DOMAIN u : i \in Nat /\ i > 0
  BY <1>1
<1>6. TAKE p, S, r, R
<1>7. ASSUME Leads(q, p, S, r, R)
      PROVE  (Head(q) = p /\ ~Waits(u, S) /\ Stands(u, r, R)) \/ Leads(u, p, S, r, R)
  <2>1. PICK i \in DOMAIN q, k \in DOMAIN q :
           /\ q[i] = p /\ q[k] = r /\ i < k
           /\ \A j \in DOMAIN q : (j > i => q[j] \notin S) /\ (j > k => q[j] \notin R)
    BY <1>7 DEF Leads
  <2>2. k # 1
    BY <1>4, <2>1
  <2>3. k - 1 \in DOMAIN u /\ u[k - 1] = r
    BY <1>2, <2>1, <2>2
  <2>4. \A j \in DOMAIN u : (j > k - 1 => j + 1 > k) /\ (j > i - 1 => j + 1 > i)
    BY <1>4, <1>5
  <2>5. \A j \in DOMAIN u : (j > k - 1 => u[j] \notin R) /\ (j > i - 1 => u[j] \notin S)
    BY <1>3, <2>1, <2>4
  <2>6. CASE i = 1
    <3>1. \A j \in DOMAIN u : u[j] \notin S
      BY <1>5, <2>5, <2>6
    <3> QED
      BY <1>1, <2>1, <2>3, <2>5, <2>6, <3>1 DEF Waits, Stands
  <2>7. CASE i # 1
    <3>1. i - 1 \in DOMAIN u /\ u[i - 1] = p
      BY <1>2, <2>1, <2>7
    <3>2. i - 1 < k - 1
      BY <1>4, <2>1
    <3> QED
      BY <2>3, <2>5, <3>1, <3>2 DEF Leads
  <2> QED
    BY <2>6, <2>7
<1>8. ASSUME Head(q) = p, ~Waits(u, S), Stands(u, r, R) PROVE Leads(q, p, S, r, R)
  <2>1. PICK k \in DOMAIN u : u[k] = r /\ \A j \in DOMAIN u : j > k => u[j] \notin R
    BY <1>8 DEF Stands
  <2>2. k + 1 \in DOMAIN q /\ q[k + 1] = r /\ 1 < k + 1 /\ 1 \in DOMAIN q
    BY <1>1, <1>3, <2>1
  <2>3. \A j \in DOMAIN q : j > k + 1 => j # 1 /\ j - 1 > k
    BY <1>4, <1>5
  <2>4. \A j \in DOMAIN q : j > k + 1 => q[j] \notin R
    BY <1>2, <2>1, <2>3
  <2>5. \A j \in DOMAIN q : j > 1 => q[j] \notin S
    BY <1>1, <1>2, <1>8 DEF Waits
  <2> QED
    BY <1>1, <1>8, <2>2, <2>4, <2>5 DEF Leads
<1>9. ASSUME Leads(u, p, S, r, R) PROVE Leads(q, p, S, r, R)
  <2>1. PICK i \in DOMAIN u, k \in DOMAIN u :
           /\ u[i] = p /\ u[k] = r /\ i < k
           /\ \A j \in DOMAIN u : (j > i => u[j] \notin S) /\ (j > k => u[j] \notin R)
    BY <1>9 DEF Leads
  <2>2. /\ i + 1 \in DOMAIN q /\ q[i + 1] = p /\ k + 1 \in DOMAIN q /\ q[k + 1] = r
        /\ i + 1 < k + 1
    BY <1>3, <1>5, <2>1
  <2>3. \A j \in DOMAIN q : /\ j > i + 1 => j # 1 /\ j - 1 > i
                            /\ j > k + 1 => j # 1 /\ j - 1 > k
    BY <1>4, <1>5
  <2>4. \A j \in DOMAIN q : (j > i + 1 => q[j] \notin S) /\ (j > k + 1 => q[j] \notin R)
    BY <1>2, <2>1, <2>3
  <2> QED
    BY <2>2, <2>4 DEF Leads
<1> QED
  BY <1>7, <1>8, <1>9 DEF u

\* Pushes are appended.
LEMMA CatWaits ==
    ASSUME NEW T, NEW q \in Seq(T), NEW t \in Seq(T)
    PROVE  \A S : Waits(q \o t, S) <=> Waits(q, S) \/ Waits(t, S)
<1> DEFINE n == Len(q)
           u == q \o t
<1>1. /\ n \in Nat
      /\ \A i \in DOMAIN q : i \in DOMAIN u /\ u[i] = q[i]
      /\ \A i \in DOMAIN t : n + i \in DOMAIN u /\ u[n + i] = t[i]
      /\ \A i \in DOMAIN u : \/ i \in DOMAIN q
                             \/ i - n \in DOMAIN t /\ u[i] = t[i - n]
  OBVIOUS
<1> HIDE DEF n, u
<1> QED
  BY <1>1 DEF Waits, u

\* Pushes are added: what stands, stands in them, or none of them is of S.
LEMMA CatStands ==
    ASSUME NEW T, NEW q \in Seq(T), NEW t \in Seq(T)
    PROVE  \A p, S : Stands(q \o t, p, S) <=> \/ Stands(t, p, S)
                                              \/ Stands(q, p, S) /\ ~Waits(t, S)
<1> DEFINE n == Len(q)
           u == q \o t
<1>1. /\ n \in Nat
      /\ \A i \in DOMAIN q : i \in DOMAIN u /\ u[i] = q[i] /\ i <= n /\ i \in Nat
      /\ \A i \in DOMAIN t : n + i \in DOMAIN u /\ u[n + i] = t[i] /\ n + i > n /\ i \in Nat
      /\ \A i \in DOMAIN u : \/ i \in DOMAIN q
                             \/ i - n \in DOMAIN t /\ u[i] = t[i - n] /\ i > n
      /\ \A i \in DOMAIN u : i \in Nat
  OBVIOUS
<1> HIDE DEF n, u
<1>2. TAKE p, S
<1>3. ASSUME Stands(u, p, S) PROVE Stands(t, p, S) \/ (Stands(q, p, S) /\ ~Waits(t, S))
  <2>1. PICK i \in DOMAIN u : u[i] = p /\ \A j \in DOMAIN u : j > i => u[j] \notin S
    BY <1>3 DEF Stands
  <2>2. CASE i \in DOMAIN q
    <3>1. \A j \in DOMAIN q : j > i => q[j] \notin S
      BY <1>1, <2>1
    <3>2. \A j \in DOMAIN t : n + j > i
      BY <1>1, <2>2
    <3>3. \A j \in DOMAIN t : t[j] \notin S
      BY <1>1, <2>1, <3>2
    <3> QED
      BY <1>1, <2>1, <2>2, <3>1, <3>3 DEF Stands, Waits
  <2>3. CASE i - n \in DOMAIN t /\ u[i] = t[i - n]
    <3>1. \A j \in DOMAIN t : j > i - n => n + j > i
      BY <1>1
    <3>2. \A j \in DOMAIN t : j > i - n => t[j] \notin S
      BY <1>1, <2>1, <3>1
    <3> QED
      BY <2>1, <2>3, <3>2 DEF Stands
  <2> QED
    BY <1>1, <2>2, <2>3
<1>4. ASSUME Stands(t, p, S) PROVE Stands(u, p, S)
  <2>1. PICK i \in DOMAIN t : t[i] = p /\ \A j \in DOMAIN t : j > i => t[j] \notin S
    BY <1>4 DEF Stands
  <2>2. \A j \in DOMAIN u : j > n + i => j > n /\ j - n > i
    BY <1>1
  <2>3. \A j \in DOMAIN u : j > n + i => u[j] \notin S
    <3>1. \A j \in DOMAIN u : j > n => j \notin DOMAIN q
      BY <1>1
    <3> QED
      BY <1>1, <2>1, <2>2, <3>1
  <2>4. n + i \in DOMAIN u /\ u[n + i] = p
    BY <1>1, <2>1
  <2> QED
    BY <2>3, <2>4 DEF Stands
<1>5. ASSUME Stands(q, p, S), ~Waits(t, S) PROVE Stands(u, p, S)
  <2>1. PICK i \in DOMAIN q : q[i] = p /\ \A j \in DOMAIN q : j > i => q[j] \notin S
    BY <1>5 DEF Stands
  <2>2. \A j \in DOMAIN u : j > i => u[j] \notin S
    BY <1>1, <1>5, <2>1 DEF Waits
  <2> QED
    BY <1>1, <2>1, <2>2 DEF Stands
<1> QED
  BY <1>3, <1>4, <1>5 DEF u

\* Pushes are added, with what leads before, across or within them.
LEMMA CatLeads ==
    ASSUME NEW T, NEW q \in Seq(T), NEW t \in Seq(T)
    PROVE  \A p, S, r, R : Leads(q \o t, p, S, r, R) <=>
              \/ Leads(t, p, S, r, R)
              \/ Stands(q, p, S) /\ ~Waits(t, S) /\ Stands(t, r, R)
              \/ Leads(q, p, S, r, R) /\ ~Waits(t, S) /\ ~Waits(t, R)
<1> DEFINE n == Len(q)
           u == q \o t
<1>1. /\ n \in Nat
      /\ \A i \in DOMAIN q : i \in DOMAIN u /\ u[i] = q[i] /\ i <= n /\ i \in Nat
      /\ \A i \in DOMAIN t : n + i \in DOMAIN u /\ u[n + i] = t[i] /\ n + i > n /\ i \in Nat
      /\ \A i \in DOMAIN u : \/ i \in DOMAIN q
                             \/ i - n \in DOMAIN t /\ u[i] = t[i - n] /\ i > n
      /\ \A i \in DOMAIN u : i \in Nat
  OBVIOUS
<1> HIDE DEF n, u
<1>2. /\ \A i \in DOMAIN q, j \in DOMAIN t : i < n + j
      /\ \A i \in DOMAIN t, j \in DOMAIN t : i < j <=> n + i < n + j
      /\ \A i \in DOMAIN u, j \in DOMAIN t : j > i - n <=> n + j > i
      /\ \A i \in DOMAIN t, j \in DOMAIN u : j > n + i <=> j - n > i
      /\ \A i \in DOMAIN u, j \in DOMAIN u : i - n < j - n <=> i < j
  BY <1>1
<1>3. TAKE p, S, r, R
<1>4. ASSUME Leads(u, p, S, r, R)
      PROVE  \/ Leads(t, p, S, r, R)
             \/ Stands(q, p, S) /\ ~Waits(t, S) /\ Stands(t, r, R)
             \/ Leads(q, p, S, r, R) /\ ~Waits(t, S) /\ ~Waits(t, R)
  <2>1. PICK i \in DOMAIN u, k \in DOMAIN u :
           /\ u[i] = p /\ u[k] = r /\ i < k
           /\ \A j \in DOMAIN u : (j > i => u[j] \notin S) /\ (j > k => u[j] \notin R)
    BY <1>4 DEF Leads
  <2>2. \A j \in DOMAIN t : (n + j > i => t[j] \notin S) /\ (n + j > k => t[j] \notin R)
    BY <1>1, <2>1
  <2>3. \A j \in DOMAIN q : (j > i => q[j] \notin S) /\ (j > k => q[j] \notin R)
    BY <1>1, <2>1
  <2>4. CASE i \in DOMAIN q /\ k \in DOMAIN q
    BY <1>1, <1>2, <2>1, <2>2, <2>3, <2>4 DEF Leads, Waits
  <2>5. CASE i \in DOMAIN q /\ k - n \in DOMAIN t /\ u[k] = t[k - n]
    <3>1. Stands(q, p, S) /\ ~Waits(t, S)
      BY <1>1, <1>2, <2>1, <2>2, <2>3, <2>5 DEF Stands, Waits
    <3>2. Stands(t, r, R)
      BY <1>2, <2>1, <2>2, <2>5 DEF Stands
    <3> QED
      BY <3>1, <3>2
  <2>6. CASE i - n \in DOMAIN t /\ u[i] = t[i - n] /\ k - n \in DOMAIN t /\ u[k] = t[k - n]
    <3>1. \A j \in DOMAIN t : (j > i - n => t[j] \notin S) /\ (j > k - n => t[j] \notin R)
      BY <1>2, <2>1, <2>2
    <3> QED
      BY <1>2, <2>1, <2>6, <3>1 DEF Leads
  <2>7. ~(k \in DOMAIN q /\ i > n)
    BY <1>1, <2>1
  <2> QED
    BY <1>1, <2>4, <2>5, <2>6, <2>7
<1>5. ASSUME Leads(t, p, S, r, R) PROVE Leads(u, p, S, r, R)
  <2>1. PICK i \in DOMAIN t, k \in DOMAIN t :
           /\ t[i] = p /\ t[k] = r /\ i < k
           /\ \A j \in DOMAIN t : (j > i => t[j] \notin S) /\ (j > k => t[j] \notin R)
    BY <1>5 DEF Leads
  <2>2. /\ n + i \in DOMAIN u /\ u[n + i] = p /\ n + k \in DOMAIN u /\ u[n + k] = r
        /\ n + i < n + k
    BY <1>1, <1>2, <2>1
  <2>3. \A j \in DOMAIN u : j > n + i \/ j > n + k => j \notin DOMAIN q
    <3>1. i \in Nat /\ k \in Nat /\ n \in Nat
      BY <1>1, <2>1
    <3>2. \A j \in Nat : j > n + i \/ j > n + k => ~(j <= n)
      BY <3>1
    <3> QED
      BY <1>1, <3>2
  <2>4. \A j \in DOMAIN u : (j > n + i => u[j] \notin S) /\ (j > n + k => u[j] \notin R)
    BY <1>1, <1>2, <2>1, <2>3
  <2> QED
    BY <2>2, <2>4 DEF Leads
<1>6. ASSUME Stands(q, p, S), ~Waits(t, S), Stands(t, r, R) PROVE Leads(u, p, S, r, R)
  <2>1. PICK i \in DOMAIN q : q[i] = p /\ \A j \in DOMAIN q : j > i => q[j] \notin S
    BY <1>6 DEF Stands
  <2>2. PICK k \in DOMAIN t : t[k] = r /\ \A j \in DOMAIN t : j > k => t[j] \notin R
    BY <1>6 DEF Stands
  <2>3. \A j \in DOMAIN u : j > n + k => j \notin DOMAIN q
    <3>1. k \in Nat /\ n \in Nat
      BY <1>1, <2>2
    <3>2. \A j \in Nat : j > n + k => ~(j <= n)
      BY <3>1
    <3> QED
      BY <1>1, <3>2
  <2>4. \A j \in DOMAIN u : (j > i => u[j] \notin S) /\ (j > n + k => u[j] \notin R)
    BY <1>1, <1>2, <1>6, <2>1, <2>2, <2>3 DEF Waits
  <2>5. i \in DOMAIN u /\ u[i] = p /\ n + k \in DOMAIN u /\ u[n + k] = r /\ i < n + k
    BY <1>1, <1>2, <2>1, <2>2
  <2> QED
    BY <2>4, <2>5 DEF Leads
<1>7. ASSUME Leads(q, p, S, r, R), ~Waits(t, S), ~Waits(t, R) PROVE Leads(u, p, S, r, R)
  <2>1. PICK i \in DOMAIN q, k \in DOMAIN q :
           /\ q[i] = p /\ q[k] = r /\ i < k
           /\ \A j \in DOMAIN q : (j > i => q[j] \notin S) /\ (j > k => q[j] \notin R)
    BY <1>7 DEF Leads
  <2>2. \A j \in DOMAIN u : (j > i => u[j] \notin S) /\ (j > k => u[j] \notin R)
    BY <1>1, <1>7, <2>1 DEF Waits
  <2>3. i \in DOMAIN u /\ u[i] = p /\ k \in DOMAIN u /\ u[k] = r
    BY <1>1, <2>1
  <2> QED
    BY <2>1, <2>2, <2>3 DEF Leads
<1> QED
  BY <1>4, <1>5, <1>6, <1>7 DEF u

\* One push.
LEMMA OnePush ==
    ASSUME NEW e
    PROVE  /\ \A S : Waits(<<e>>, S) <=> e \in S
           /\ \A p, S : Stands(<<e>>, p, S) <=> e = p
           /\ \A p, S, r, R : ~Leads(<<e>>, p, S, r, R)
<1>1. DOMAIN <<e>> = {1} /\ <<e>>[1] = e
  OBVIOUS
<1> QED
  BY <1>1 DEF Waits, Stands, Leads

-----------------------------------------------------------------------------
(* Which push is of which set. *)

\* A push is its kind and what it is of.
LEMMA PushParts ==
    \A k, x, l, y : Push(k, x) = Push(l, y) <=> k = l /\ x = y
  BY DEF Push

\* The pushes of Others(c).
LEMMA OthersHas ==
    \A c, k, x : Push(k, x) \in Others(c) <=>
                    \/ k \in StateKinds \ {sv[c]} /\ x = c
                    \/ k \in LifecycleKinds /\ x = NetOf[c]
<1> TAKE c, k, x
<1>1. Push(k, x) \in {Push(l, c) : l \in StateKinds \ {sv[c]}} <=> k \in StateKinds \ {sv[c]} /\ x = c
  BY PushParts
<1>2. Push(k, x) \in Lifecycle(NetOf[c]) <=> k \in LifecycleKinds /\ x = NetOf[c]
  BY PushParts DEF Lifecycle
<1> QED
  BY <1>1, <1>2 DEF Others

\* The pushes of Shows(c) and Asks(c).
LEMMA ShowsHas ==
    \A c, k, x : /\ Push(k, x) \in Shows(c) <=> k \in StateKinds \ {"declined"} /\ x = c
                 /\ Push(k, x) \in Asks(c) <=> k \in StateKinds \ {"declined", "joined"} /\ x = c
  BY PushParts DEF Shows, Asks

\* The pushes of Lifecycle(n).
LEMMA LifecycleHas ==
    \A n, k, x : Push(k, x) \in Lifecycle(n) <=> k \in LifecycleKinds /\ x = n
  BY PushParts DEF Lifecycle

\* The pushes of NetPushes(n).
LEMMA NetPushesHas ==
    \A n, k, x : Push(k, x) \in NetPushes(n) <=>
                    \/ k \in LifecycleKinds \cup {"welcome"} /\ x = n
                    \/ k = "status" /\ \E t \in Status : x = [net |-> n, to |-> t]
<1> TAKE n, k, x
<1>1. Push(k, x) \in {StatusOf(n, t) : t \in Status} <=> k = "status" /\ \E t \in Status : x = [net |-> n, to |-> t]
  <2>1. \A t : Push(k, x) = StatusOf(n, t) <=> k = "status" /\ x = [net |-> n, to |-> t]
    BY PushParts DEF StatusOf
  <2> QED
    BY <2>1
<1>2. Push(k, x) \in {Push("welcome", n)} <=> k = "welcome" /\ x = n
  BY PushParts
<1> QED
  BY <1>1, <1>2, LifecycleHas DEF NetPushes

\* The signal.
LEMMA ChangedHas ==
    \A k, x : Push(k, x) \in {Changed} <=> k = "changed" /\ x = ServerWindow
  BY PushParts DEF Changed

\* The first push, by its kind.
LEMMA HeadIs ==
    ASSUME NEW q \in Seq(Pushes), q # << >>
    PROVE  LET p == Head(q)
           IN /\ p = Push(p.kind, p.of) /\ p \in Pushes
              /\ p.kind \in StateKinds \cup {"seeded"} => p.of \in Channel
              /\ p.kind \in LifecycleKinds \cup {"connecting", "welcome"} => p.of \in Network
              /\ p.kind = "status" => p.of \in [net : Network, to : Status]
              /\ p.kind = "changed" => p.of = ServerWindow
<1>1. PICK p : p = Head(q)
  OBVIOUS
<1>2. p \in Pushes
  BY <1>1
<1>3. CASE p \in [kind : StateKinds \cup {"seeded"}, of : Channel]
  BY <1>1, <1>2, <1>3 DEF StateKinds, LifecycleKinds, Push
<1>4. CASE p \in [kind : LifecycleKinds \cup {"connecting", "welcome"}, of : Network]
  BY <1>1, <1>2, <1>4 DEF StateKinds, LifecycleKinds, Push
<1>5. CASE p \in [kind : {"status"}, of : [net : Network, to : Status]]
  BY <1>1, <1>2, <1>5 DEF StateKinds, LifecycleKinds, Push
<1>6. CASE p \in [kind : {"changed", "lost", "up"}, of : {ServerWindow}]
  BY <1>1, <1>2, <1>6 DEF StateKinds, LifecycleKinds, Push
<1> QED
  BY <1>2, <1>3, <1>4, <1>5, <1>6 DEF Pushes

\* The pushes that the handlers and Grappa send.
LEMMA PushTypes ==
    /\ \A k \in StateKinds \cup {"seeded"}, c \in Channel : Push(k, c) \in Pushes
    /\ \A k \in LifecycleKinds \cup {"connecting", "welcome"}, n \in Network : Push(k, n) \in Pushes
    /\ \A n \in Network, t \in Status : StatusOf(n, t) \in Pushes
    /\ \A k \in {"changed", "lost", "up"} : Push(k, ServerWindow) \in Pushes
  BY DEF Pushes, Push, StatusOf

-----------------------------------------------------------------------------
(* What Grappa says of channels. *)

\* Every element of a finite set is in its sequence.
LEMMA SetToSeqFacts ==
    ASSUME NEW S, IsFiniteSet(S)
    PROVE  /\ SetToSeq(S) \in Seq(S)
           /\ \A e \in S : \E i \in DOMAIN SetToSeq(S) : SetToSeq(S)[i] = e
<1> DEFINE n == Cardinality(S)
           F == {f \in [1 .. n -> S] : IsInjective(f)}
           s == SetToSeq(S)
<1>1. n \in Nat /\ ExistsBijection(1 .. n, S)
  BY FS_CardinalityType
<1>2. \E f \in [1 .. n -> S] : IsInjective(f)
  BY <1>1 DEF ExistsBijection, Bijection, Injection, IsInjective
<1>3. s \in [1 .. n -> S] /\ IsInjective(s)
  BY <1>2 DEF SetToSeq
<1>4. s \in Seq(S)
  BY <1>1, <1>3
<1>5. s \in Surjection(1 .. n, S)
  <2>1. s \in Injection(1 .. n, S)
    BY <1>3 DEF Injection
  <2>2. Cardinality(1 .. n) = n
    BY <1>1, FS_Interval
  <2> QED
    BY <2>1, <2>2, FS_Injection
<1> QED
  BY <1>3, <1>4, <1>5 DEF Surjection

\* A sequence that says of channels what Grappa holds, or seeds their rosters.
Quiet(t) ==
    /\ t \in Seq(Pushes)
    /\ \A i \in DOMAIN t : \E c \in Channel :
          t[i] = Push("seeded", c) \/ (t[i] = Push(sv[c], c) /\ sv[c] # "out")

\* What Grappa tells of channels is quiet and names each of them.
LEMMA ToldFacts ==
    ASSUME Types, NEW cs \in SUBSET Channel
    PROVE  /\ (\A c \in cs : sv[c] # "out") => Quiet(Told(cs))
           /\ Quiet(Rosters(cs))
           /\ \A c \in cs : \E i \in DOMAIN Told(cs) : Told(cs)[i] = Push(sv[c], c)
<1> DEFINE s == SetToSeq(cs)
<1>1. IsFiniteSet(cs)
  BY WindowsConstants, FS_Subset DEF Channel
<1>2. s \in Seq(cs) /\ \A c \in cs : \E i \in DOMAIN s : s[i] = c
  BY <1>1, SetToSeqFacts
<1>3. /\ Told(cs) = [i \in DOMAIN s |-> Push(sv[s[i]], s[i])]
      /\ Rosters(cs) = [i \in DOMAIN s |-> Push("seeded", s[i])]
  BY DEF Told, Rosters
<1> HIDE DEF s
<1>4. PICK n \in Nat : DOMAIN s = 1 .. n
  BY <1>2
<1>5. \A i \in 1 .. n : s[i] \in cs /\ s[i] \in Channel
  BY <1>2, <1>4
<1>6. \A c \in Channel : sv[c] # "out" => sv[c] \in StateKinds
  BY DEF Types, SvStates, StateKinds
<1>7. ASSUME \A c \in cs : sv[c] # "out" PROVE Quiet(Told(cs))
  <2>1. \A i \in 1 .. n : Push(sv[s[i]], s[i]) \in Pushes
    BY <1>5, <1>6, <1>7, PushTypes
  <2>2. Told(cs) \in Seq(Pushes)
    BY <1>3, <1>4, <2>1
  <2> QED
    BY <1>3, <1>4, <1>5, <1>7, <2>2 DEF Quiet
<1>8. Quiet(Rosters(cs))
  <2>1. \A i \in 1 .. n : Push("seeded", s[i]) \in Pushes
    BY <1>5, PushTypes
  <2>2. Rosters(cs) \in Seq(Pushes)
    BY <1>3, <1>4, <2>1
  <2> QED
    BY <1>3, <1>4, <1>5, <2>2 DEF Quiet
<1> QED
  BY <1>2, <1>3, <1>7, <1>8

\* Two quiet answers are a quiet one.
LEMMA QuietCat ==
    ASSUME NEW t, NEW u, Quiet(t), Quiet(u)
    PROVE  Quiet(t \o u)
<1>1. t \in Seq(Pushes) /\ u \in Seq(Pushes)
  BY DEF Quiet
<1>2. t \o u \in Seq(Pushes)
  BY <1>1
<1>3. ASSUME NEW i \in DOMAIN (t \o u)
      PROVE  (i \in DOMAIN t /\ (t \o u)[i] = t[i])
                \/ (i - Len(t) \in DOMAIN u /\ (t \o u)[i] = u[i - Len(t)])
  BY <1>1
<1> QED
  BY <1>2, <1>3 DEF Quiet

\* Nothing in a quiet sequence leads the client away.
LEMMA QuietFacts ==
    ASSUME Types, NEW t, Quiet(t)
    PROVE  /\ t \in Seq(Pushes)
           /\ \A c \in Channel : ~Waits(t, Others(c))
           /\ \A c \in Channel : sv[c] = "out" => ~Waits(t, Shows(c)) /\ ~Waits(t, Asks(c))
           /\ \A n : ~Waits(t, Lifecycle(n)) /\ ~Waits(t, NetPushes(n))
           /\ ~Waits(t, {Changed}) /\ \A S : S = {} => ~Waits(t, S)
<1>1. ASSUME NEW i \in DOMAIN t
      PROVE  \E k \in StateKinds \cup {"seeded"}, d \in Channel :
                t[i] = Push(k, d) /\ (k = "seeded" \/ (k = sv[d] /\ k # "out"))
  BY DEF Quiet, Types, SvStates, StateKinds
<1>2. ASSUME NEW c \in Channel, NEW i \in DOMAIN t
      PROVE  t[i] \notin Others(c) /\ (sv[c] = "out" => t[i] \notin Shows(c) \cup Asks(c))
  BY <1>1, OthersHas, ShowsHas DEF StateKinds, LifecycleKinds
<1>3. ASSUME NEW n, NEW i \in DOMAIN t
      PROVE  t[i] \notin Lifecycle(n) \cup NetPushes(n) \cup {Changed}
  BY <1>1, LifecycleHas, NetPushesHas, ChangedHas DEF StateKinds, LifecycleKinds
<1> QED
  BY <1>2, <1>3 DEF Quiet, Waits

-----------------------------------------------------------------------------
(* What is quiet changes nothing. *)

\* A quiet answer changes nothing about a network.
LEMMA QuietNetwork ==
    ASSUME Types, NEW q \in Seq(Pushes), NEW t, Quiet(t), NEW n, NetworkInv(q, n)
    PROVE  NetworkInv(q \o t, n)
<1>1. /\ t \in Seq(Pushes) /\ ~Waits(t, Lifecycle(n)) /\ ~Waits(t, NetPushes(n))
  BY QuietFacts
<1>2. /\ Waits(q \o t, Lifecycle(n)) <=> Waits(q, Lifecycle(n))
      /\ Waits(q \o t, NetPushes(n)) <=> Waits(q, NetPushes(n))
  BY <1>1, CatWaits
<1>3. ASSUME NEW p, NEW S, p \in S, ~Waits(t, S), Stands(q \o t, p, S)
      PROVE  Stands(q, p, S)
  <2>1. Stands(t, p, S) => Waits(t, S)
    BY <1>3 DEF Stands, Waits
  <2> QED
    BY <1>1, <1>3, <2>1, CatStands
<1>4. /\ Push("attached", n) \in Lifecycle(n) /\ Push("detached", n) \in Lifecycle(n)
      /\ \A to \in Status : StatusOf(n, to) \in NetPushes(n)
  BY DEF Lifecycle, LifecycleKinds, NetPushes
<1> QED
  BY <1>1, <1>2, <1>3, <1>4 DEF NetworkInv

\* A quiet answer keeps the channel on its way.
LEMMA QuietChannel ==
    ASSUME Types, NEW q \in Seq(Pushes), NEW t, Quiet(t), NEW c \in Channel, ChannelInv(q, c),
           q # << >> \/ t = << >> \/ link = "up"
    PROVE  ChannelInv(q \o t, c)
<1>1. /\ t \in Seq(Pushes) /\ ~Waits(t, Others(c)) /\ ~Waits(t, {Changed}) /\ ~Waits(t, {})
      /\ sv[c] = "out" => ~Waits(t, Shows(c)) /\ ~Waits(t, Asks(c))
  BY QuietFacts
<1>2. \A S : ~Waits(t, S) => /\ Waits(q \o t, S) <=> Waits(q, S)
                             /\ \A p : Stands(q, p, S) => Stands(q \o t, p, S)
                             /\ \A p, r, R : ~Waits(t, R) /\ Leads(q, p, S, r, R)
                                                 => Leads(q \o t, p, S, r, R)
  BY <1>1, CatWaits, CatStands, CatLeads
<1>3. q = << >> => (q \o t = << >> <=> t = << >>)
  BY <1>1
<1>4. AskedInv(q \o t, c)
  BY <1>1, <1>2 DEF ChannelInv, AskedInv, Comes
<1>5. JoinedInv(q \o t, c)
  BY <1>1, <1>2 DEF ChannelInv, JoinedInv
<1>6. EndedInv(q \o t, c)
  BY <1>1, <1>2, <1>3 DEF ChannelInv, EndedInv, Comes
<1>7. OutInv(q \o t, c)
  BY <1>1, <1>2 DEF ChannelInv, OutInv
<1> QED
  BY <1>4, <1>5, <1>6, <1>7 DEF ChannelInv

\* The snapshots of the topics that are joined.
LEMMA SnapshotsQuiet ==
    ASSUME Types, NEW cs \in SUBSET Channel
    PROVE  /\ Quiet(Snapshots(cs))
           /\ \A c \in cs : sv[c] \in {"joined", "failed", "kicked"} =>
                 \E i \in DOMAIN Snapshots(cs) : Snapshots(cs)[i] = Push(sv[c], c)
<1> DEFINE A == {c \in cs : sv[c] \in {"joined", "failed", "kicked"}}
           B == {c \in cs : sv[c] = "joined"}
<1>1. Quiet(Told(A)) /\ \A c \in A : \E i \in DOMAIN Told(A) : Told(A)[i] = Push(sv[c], c)
  BY ToldFacts
<1>2. Quiet(Rosters(B))
  BY ToldFacts
<1>3. Snapshots(cs) = Told(A) \o Rosters(B)
  BY DEF Snapshots
<1>4. Told(A) \in Seq(Pushes) /\ Rosters(B) \in Seq(Pushes)
  BY <1>1, <1>2 DEF Quiet
<1>5. \A i \in DOMAIN Told(A) : /\ i \in DOMAIN (Told(A) \o Rosters(B))
                                /\ (Told(A) \o Rosters(B))[i] = Told(A)[i]
  BY <1>4
<1> QED
  BY <1>1, <1>2, <1>3, <1>5, QuietCat

\* What the user topic replays is quiet and names each channel that waits.
LEMMA ReplayedQuiet ==
    ASSUME Types
    PROVE  /\ Quiet(Replayed)
           /\ \A c \in Channel : sv[c] \in {"pending", "invited"} =>
                 \E i \in DOMAIN Replayed : Replayed[i] = Push(sv[c], c)
  BY ToldFacts DEF Replayed

\* The first push is read before or after more are added.
LEMMA TailCat ==
    ASSUME NEW T, NEW q \in Seq(T), NEW t \in Seq(T), q # << >>
    PROVE  Tail(q) \o t = Tail(q \o t)
<1> DEFINE a == Tail(q) \o t
           b == Tail(q \o t)
<1>1. q \o t \in Seq(T) /\ q \o t # << >> /\ Len(q \o t) = Len(q) + Len(t) /\ Tail(q) \in Seq(T)
  OBVIOUS
<1>2. /\ a \in Seq(T) /\ Len(a) = Len(q) - 1 + Len(t)
      /\ b \in Seq(T) /\ Len(b) = Len(q) - 1 + Len(t)
  BY <1>1
<1>3. \A i \in 1 .. Len(q) - 1 + Len(t) : b[i] = (q \o t)[i + 1]
  BY <1>1
<1>4. \A i \in 1 .. Len(q) - 1 + Len(t) : a[i] = (q \o t)[i + 1]
  BY <1>1
<1> HIDE DEF a, b
<1>5. a = b
  BY <1>2, <1>3, <1>4
<1> QED
  BY <1>5 DEF a, b

\* A handler reads the first push and asks for snapshots: as if they had waited
\* behind the queue before.
LEMMA TopicsQueue ==
    ASSUME Types, NEW leave, NEW join \in SUBSET Channel, queue # << >>, Topics(Tail(queue), leave, join)
    PROVE  \E t : Quiet(t) /\ queue' = Tail(queue \o t)
<1>1. CASE session /\ link = "up"
  <2>1. Quiet(Snapshots(join \ held))
    BY SnapshotsQuiet
  <2>2. Snapshots(join \ held) \in Seq(Pushes) /\ queue \in Seq(Pushes)
    BY <2>1 DEF Quiet, Types
  <2>3. Tail(queue) \o Snapshots(join \ held) = Tail(queue \o Snapshots(join \ held))
    BY <2>2, TailCat
  <2> QED
    BY <1>1, <2>1, <2>3 DEF Topics
<1>2. CASE ~(session /\ link = "up")
  <2>1. Quiet(<< >>)
    BY DEF Quiet
  <2>2. queue \o << >> = queue
    BY DEF Types
  <2> QED
    BY <1>2, <2>1, <2>2 DEF Topics
<1> QED
  BY <1>1, <1>2

\* A queue q whose rest the handler leaves.
Rest(q) ==
    /\ q \in Seq(Pushes) /\ q # << >> /\ Head(q) = Head(queue)
    /\ \A n \in Network : NetworkInv(q, n)
    /\ \A c \in Channel : ChannelInv(q, c)

\* The queue with a quiet answer behind it.
LEMMA QuietRest ==
    ASSUME Types, Synced, session, ~missed, queue # << >>, NEW t, Quiet(t)
    PROVE  Rest(queue \o t)
<1>1. t \in Seq(Pushes) /\ queue \in Seq(Pushes)
  BY DEF Quiet, Types
<1>2. queue \o t \in Seq(Pushes) /\ queue \o t # << >> /\ Head(queue \o t) = Head(queue)
  BY <1>1
<1> QED
  BY <1>1, <1>2, QuietNetwork, QuietChannel DEF Rest, Synced

\* The queue as it is.
LEMMA ReadRest ==
    ASSUME Types, Synced, session, ~missed, queue # << >>
    PROVE  Rest(queue)
  BY DEF Types, Synced, Rest

-----------------------------------------------------------------------------
(* Lists of channels. *)

\* A set of naturals has a least element.
LEMMA LeastNat ==
    ASSUME NEW S \in SUBSET Nat, S # {}
    PROVE  \E x \in S : \A y \in S : x <= y
<1>1. PICK x \in S : \A y \in S : ~(<<y, x>> \in OpToRel(<, Nat))
  BY NatLessThanWellFounded, WFMin, Zenon
<1>2. \A y \in S : ~(y < x)
  BY <1>1 DEF OpToRel
<1> QED
  BY <1>2

\* The positions of a list.
LEMMA PositionsAreFinite ==
    ASSUME NEW n \in Nat, NEW S \in SUBSET (1 .. n)
    PROVE  IsFiniteSet(S) /\ Cardinality(S) \in Nat
<1>1. IsFiniteSet(1 .. n)
  BY FS_Interval
<1> QED
  BY <1>1, FS_Subset, FS_CardinalityType

\* A set of positions has a k-th one.
LEMMA KthPosition ==
    ASSUME NEW n \in Nat, NEW at \in SUBSET (1 .. n), NEW k \in 1 .. Cardinality(at)
    PROVE  \E i \in at : Cardinality({j \in at : j <= i}) = k
<1> DEFINE B(i) == {j \in at : j <= i}
           M == {i \in Nat : Cardinality(B(i)) >= k}
<1>1. \A i : B(i) \in SUBSET (1 .. n)
  OBVIOUS
<1>2. B(n) = at /\ B(0) = {}
  <2>1. \A j \in at : j <= n /\ ~(j <= 0)
    OBVIOUS
  <2> QED
    BY <2>1
<1>3. \A i \in Nat : i \in M <=> Cardinality(B(i)) >= k
  OBVIOUS
<1>4. M \in SUBSET Nat
  OBVIOUS
<1> HIDE DEF B, M
<1>5. \A i : IsFiniteSet(B(i)) /\ Cardinality(B(i)) \in Nat
  BY <1>1, PositionsAreFinite
<1>6. k \in Nat /\ k > 0 /\ k <= Cardinality(B(n))
  <2>1. Cardinality(at) \in Nat
    BY PositionsAreFinite
  <2> QED
    BY <1>2, <2>1
<1>7. n \in M
  BY <1>3, <1>5, <1>6
<1>8. PICK m \in M : \A i \in M : m <= i
  BY <1>4, <1>7, LeastNat
<1>9. m \in Nat /\ Cardinality(B(m)) >= k
  BY <1>3, <1>4, <1>8
<1>10. m # 0
  BY <1>2, <1>6, <1>9, FS_EmptySet
<1>11. m - 1 \in Nat /\ ~(m <= m - 1)
  BY <1>9, <1>10
<1>12. Cardinality(B(m - 1)) < k
  BY <1>3, <1>5, <1>6, <1>8, <1>11
<1>13. B(m) = B(m - 1) \/ (m \in at /\ B(m) = B(m - 1) \cup {m})
  <2>1. \A j \in at : j <= m <=> j <= m - 1 \/ j = m
    BY <1>9, <1>10
  <2>2. CASE m \in at
    BY <2>1, <2>2 DEF B
  <2>3. CASE m \notin at
    BY <2>1, <2>3 DEF B
  <2> QED
    BY <2>2, <2>3
<1>14. Cardinality(B(m - 1) \cup {m}) <= Cardinality(B(m - 1)) + 1
  <2>1. PICK b : b = B(m - 1)
    OBVIOUS
  <2>2. IsFiniteSet(b) /\ Cardinality(b) \in Nat
    BY <1>5, <2>1
  <2>3. Cardinality(b \cup {m}) = IF m \in b THEN Cardinality(b) ELSE Cardinality(b) + 1
    BY <2>2, FS_AddElement
  <2> QED
    BY <2>1, <2>2, <2>3
<1>15. Cardinality(B(m)) = k /\ B(m) # B(m - 1)
  <2>1. Cardinality(B(m)) <= Cardinality(B(m - 1)) + 1
    <3>1. Cardinality(B(m - 1)) <= Cardinality(B(m - 1)) + 1
      BY <1>5
    <3>2. CASE B(m) = B(m - 1)
      BY <3>1, <3>2
    <3>3. CASE B(m) = B(m - 1) \cup {m}
      BY <1>14, <3>3
    <3> QED
      BY <1>13, <3>2, <3>3
  <2> QED
    BY <1>5, <1>6, <1>9, <1>12, <2>1
<1> QED
  BY <1>13, <1>15 DEF B

\* What is left of a list is a list.
LEMMA OnlyFacts ==
    ASSUME NEW T, NEW s \in Seq(T), NEW S
    PROVE  Only(s, S) \in Seq(T)
<1> DEFINE at == {i \in DOMAIN s : s[i] \in S}
           At(k) == CHOOSE i \in at : Cardinality({j \in at : j <= i}) = k
<1>1. Len(s) \in Nat /\ at \in SUBSET (1 .. Len(s)) /\ \A i \in at : s[i] \in T
  OBVIOUS
<1>2. Only(s, S) = [k \in 1 .. Cardinality(at) |-> s[At(k)]]
  BY DEF Only
<1> HIDE DEF at
<1>3. Cardinality(at) \in Nat
  BY <1>1, PositionsAreFinite
<1>4. ASSUME NEW k \in 1 .. Cardinality(at) PROVE At(k) \in at
  <2>1. \E i \in at : Cardinality({j \in at : j <= i}) = k
    BY <1>1, KthPosition
  <2> QED
    BY <2>1
<1> HIDE DEF At
<1>5. \A k \in 1 .. Cardinality(at) : s[At(k)] \in T
  BY <1>1, <1>4
<1>6. [k \in 1 .. Cardinality(at) |-> s[At(k)]] \in Seq(T)
  BY <1>3, <1>5
<1> QED
  BY <1>2, <1>6

-----------------------------------------------------------------------------
(* Types. *)

\* The first push and what it is of.
LEMMA WaitingFacts ==
    ASSUME Types, NEW k, Waiting(k)
    PROVE  /\ session /\ queue # << >> /\ queue \in Seq(Pushes) /\ Tail(queue) \in Seq(Pushes)
           /\ Head(queue) = Push(k, Of)
           /\ k \in StateKinds \cup {"seeded"} => Of \in Channel
           /\ k \in LifecycleKinds \cup {"connecting", "welcome"} => Of \in Network
           /\ k = "status" => Of \in [net : Network, to : Status]
           /\ k = "changed" => Of = ServerWindow
<1>1. session /\ queue # << >> /\ queue \in Seq(Pushes) /\ Head(queue).kind = k
  BY DEF Waiting, Types
<1>2. Tail(queue) \in Seq(Pushes)
  BY <1>1
<1> QED
  BY <1>1, <1>2, HeadIs DEF Of

\* Topics that are left and joined.
LEMMA TopicsTypes ==
    ASSUME Types, NEW q \in Seq(Pushes), NEW leave, NEW join \in SUBSET Channel,
           Topics(q, leave, join)
    PROVE  queue' \in Seq(Pushes) /\ held' \subseteq Channel
<1>1. Snapshots(join \ held) \in Seq(Pushes)
  BY SnapshotsQuiet DEF Quiet
<1>2. q \o Snapshots(join \ held) \in Seq(Pushes)
  BY <1>1
<1> QED
  BY <1>2 DEF Topics, Types, TypeOK

\* The rows that a list leaves are channels.
LEMMA ReconcileTypes ==
    ASSUME Types, NEW next \in SUBSET Channel, Rows(next), joined' \subseteq JoinedAfter(next)
    PROVE  /\ entries' \subseteq Channel /\ ctopics' \subseteq Channel /\ joined' \subseteq Channel
           /\ Leaves(next) \subseteq Channel /\ Joins(next) \subseteq Channel
  BY DEF Types, TypeOK, Rows, JoinedAfter, Leaves, Joins

\* The rows that stay are channels.
LEMMA KeptTypes ==
    ASSUME Types, NEW list \in SUBSET Channel, NEW known
    PROVE  Kept(list, known) \subseteq Channel
  BY DEF Types, TypeOK, Kept

\* The types of the client, which a handler keeps, and of what is outside.
ClientTypes ==
    /\ nets \subseteq Network /\ conn \in [Network -> Status]
    /\ entries \subseteq Channel /\ ws \in [Channel -> Unlisted \cup {"none", "joined"}]
    /\ ctopics \subseteq Channel /\ joined \subseteq Channel
    /\ current \in Channel \cup {"home"} /\ recents \in Seq(Channel)
PathTypes == held \subseteq Channel /\ queue \in Seq(Pushes)
OutsideTypes ==
    /\ session \in BOOLEAN /\ link \in {"up", "down"} /\ (~session => link = "down")
    /\ sv \in [Channel -> SvStates] /\ auto \subseteq Channel
    /\ snets \subseteq Network /\ sconn \in [Network -> Status]

\* The types, by who changes them.
LEMMA TypesParts ==
    Types <=> ClientTypes /\ PathTypes /\ OutsideTypes /\ missed \in BOOLEAN
  BY DEF Types, TypeOK, ClientTypes, PathTypes, OutsideTypes

\* The types of the next state, by who changes them.
LEMMA TypesNext ==
    (ClientTypes /\ PathTypes /\ OutsideTypes /\ missed \in BOOLEAN)' => Types'
  BY DEF Types, TypeOK, ClientTypes, PathTypes, OutsideTypes

\* A handler leaves Grappa alone.
LEMMA OutsideKept ==
    ASSUME Types, UNCHANGED <<session, server, link>>
    PROVE  OutsideTypes'
  BY TypesParts DEF OutsideTypes, server

\* The types after /boot is read.
LEMMA RestRefreshTypes ==
    ASSUME Types, queue # << >>, RestRefresh
    PROVE  /\ nets' \subseteq Network /\ conn' \in [Network -> Status]
           /\ entries' \subseteq Channel /\ ws' \in [Channel -> Unlisted \cup {"none", "joined"}]
           /\ ctopics' \subseteq Channel /\ joined' \subseteq Channel
           /\ recents' \in Seq(Channel) /\ PathTypes'
<1> DEFINE next == Kept(BootRows, BootNets)
           lost == Obsolete(JoinedAfter(next))
<1>1. next \subseteq Channel
  BY KeptTypes DEF BootRows
<1>2. /\ entries' \subseteq Channel /\ ctopics' \subseteq Channel /\ joined' \subseteq Channel
      /\ Leaves(next) \subseteq Channel /\ Joins(next) \subseteq Channel
  BY <1>1, ReconcileTypes DEF RestRefresh
<1>3. Topics(Tail(queue), Leaves(next) \cup lost, Joins(next))
  BY DEF RestRefresh
<1>4. Tail(queue) \in Seq(Pushes)
  BY DEF Types
<1>5. PathTypes'
  BY <1>2, <1>3, <1>4, TopicsTypes DEF PathTypes, Obsolete
<1>6. recents' \in Seq(Channel)
  BY OnlyFacts DEF RestRefresh, Types, TypeOK
<1>7. ws' \in [Channel -> Unlisted \cup {"none", "joined"}]
  BY DEF RestRefresh, BootStates, Types, TypeOK
<1> QED
  BY <1>2, <1>5, <1>6, <1>7 DEF RestRefresh, BootNets, Types

\* The types after a push is read.
LEMMA FramesTypes ==
    ASSUME Types, Frames
    PROVE  Types'
<1>1. ASSUME NEW k, Waiting(k), Read PROVE PathTypes'
  BY <1>1, WaitingFacts DEF Read, PathTypes, Types, TypeOK
<1>2. ASSUME UNCHANGED <<books, networks, view>> PROVE ClientTypes'
  BY <1>2, TypesParts DEF ClientTypes, books, networks, view
<1>3. ASSUME Ignored, NEW k, Waiting(k) PROVE ClientTypes' /\ PathTypes' /\ missed' \in BOOLEAN
  BY <1>1, <1>2, <1>3 DEF Ignored, Types
<1>4. ASSUME OutsideStays PROVE OutsideTypes'
  BY <1>4, OutsideKept DEF OutsideStays
<1>5. ASSUME WindowPending PROVE Types'
  <2>1. Waiting("pending") /\ OutsideStays
    BY <1>5 DEF WindowPending
  <2>2. Of \in Channel /\ Tail(queue) \in Seq(Pushes)
    BY <2>1, WaitingFacts DEF StateKinds
  <2>3. CASE Ignored
    BY <1>3, <1>4, <2>1, <2>3, TypesNext
  <2>4. CASE ~Ignored
    <3>1. SetPending(Of) /\ Upsert(Of) /\ Register(Of) /\ Topics(Tail(queue), {}, {Of} \ joined)
          /\ NetworkStays /\ UNCHANGED <<view, missed>>
      BY <1>5, <2>4 DEF WindowPending
    <3>2. PathTypes'
      BY <2>2, <3>1, TopicsTypes DEF PathTypes
    <3>3. ClientTypes' /\ missed' \in BOOLEAN
      BY <2>2, <3>1 DEF ClientTypes, Types, TypeOK, SetPending, Upsert, Register, NetworkStays,
                       networks, view, Unlisted
    <3> QED
      BY <1>4, <2>1, <3>2, <3>3, TypesNext
  <2> QED
    BY <2>3, <2>4
<1>6. ASSUME WindowInvited PROVE Types'
  <2>1. Waiting("invited") /\ OutsideStays
    BY <1>6 DEF WindowInvited
  <2>2. Of \in Channel /\ Tail(queue) \in Seq(Pushes)
    BY <2>1, WaitingFacts DEF StateKinds
  <2>3. CASE Ignored
    BY <1>3, <1>4, <2>1, <2>3, TypesNext
  <2>4. CASE ~Ignored
    <3>1. SetInvited(Of) /\ Upsert(Of) /\ Register(Of) /\ Topics(Tail(queue), {}, {Of} \ joined)
          /\ NetworkStays /\ UNCHANGED <<view, missed>>
      BY <1>6, <2>4 DEF WindowInvited
    <3>2. PathTypes'
      BY <2>2, <3>1, TopicsTypes DEF PathTypes
    <3>3. ClientTypes' /\ missed' \in BOOLEAN
      BY <2>2, <3>1 DEF ClientTypes, Types, TypeOK, SetInvited, Upsert, Register, NetworkStays,
                       networks, view, Unlisted
    <3> QED
      BY <1>4, <2>1, <3>2, <3>3, TypesNext
  <2> QED
    BY <2>3, <2>4
<1>7. ASSUME InviteDeclined PROVE Types'
  <2>1. Waiting("declined") /\ OutsideStays
    BY <1>7 DEF InviteDeclined
  <2>2. Of \in Channel /\ Tail(queue) \in Seq(Pushes)
    BY <2>1, WaitingFacts DEF StateKinds
  <2>3. CASE Ignored
    BY <1>3, <1>4, <2>1, <2>3, TypesNext
  <2>4. CASE ~Ignored
    <3>1. ClearWindow(Of) /\ entries' = entries \ {Of} /\ ctopics' = ctopics \ {Of}
          /\ joined' = joined \ {Of} /\ Topics(Tail(queue), {Of}, {})
          /\ NetworkStays /\ UNCHANGED <<view, missed>>
      BY <1>7, <2>4 DEF InviteDeclined
    <3>2. PathTypes'
      <4>1. {} \in SUBSET Channel
        OBVIOUS
      <4> QED
        BY <2>2, <3>1, <4>1, TopicsTypes DEF PathTypes
    <3>3. ClientTypes' /\ missed' \in BOOLEAN
      BY <2>2, <3>1 DEF ClientTypes, Types, TypeOK, ClearWindow, NetworkStays, networks, view, Unlisted
    <3> QED
      BY <1>4, <2>1, <3>2, <3>3, TypesNext
  <2> QED
    BY <2>3, <2>4
<1>8. ASSUME WindowJoined \/ JoinFailed \/ WindowKicked PROVE Types'
  <2>1. PICK k \in {"joined", "failed", "kicked"} : Waiting(k) /\ OutsideStays /\ Read /\ NetworkStays
    BY <1>8 DEF WindowJoined, JoinFailed, WindowKicked
  <2>2. Of \in Channel
    BY <2>1, WaitingFacts DEF StateKinds
  <2>3. ClientTypes' /\ missed' \in BOOLEAN
    BY <1>8, <2>1, <2>2 DEF ClientTypes, Types, TypeOK, WindowJoined, JoinFailed, WindowKicked, SetJoined,
                       SetFailed, SetKicked, Upsert, NetworkStays, networks, view, Unlisted
  <2> QED
    BY <1>1, <1>4, <2>1, <2>3, TypesNext
<1>9. ASSUME MembersSeeded PROVE Types'
  <2>1. Waiting("seeded") /\ OutsideStays /\ Read
    BY <1>9 DEF MembersSeeded
  <2>2. ClientTypes' /\ missed' \in BOOLEAN
    BY <1>9 DEF ClientTypes, Types, TypeOK, MembersSeeded, NetworkStays, networks, books
  <2> QED
    BY <1>1, <1>4, <2>1, <2>2, TypesNext
<1>10. ASSUME ChannelsChanged PROVE Types'
  <2> DEFINE next == Kept({c \in BootRows : NetOf[c] \in nets}, nets)
  <2>1. Waiting("changed") /\ OutsideStays /\ Reconcile(next)
        /\ Topics(Tail(queue), Leaves(next), Joins(next)) /\ NetworkStays
        /\ UNCHANGED <<view, ws, missed>>
    BY <1>10 DEF ChannelsChanged
  <2>2. next \subseteq Channel
    BY KeptTypes DEF BootRows
  <2> HIDE DEF next
  <2>3. /\ entries' \subseteq Channel /\ ctopics' \subseteq Channel /\ joined' \subseteq Channel
        /\ Leaves(next) \subseteq Channel /\ Joins(next) \subseteq Channel
    BY <2>1, <2>2, ReconcileTypes DEF Reconcile
  <2>4. PathTypes'
    BY <2>1, <2>3, WaitingFacts, TopicsTypes DEF PathTypes
  <2>5. ClientTypes' /\ missed' \in BOOLEAN
    BY <2>1, <2>3 DEF ClientTypes, Types, TypeOK, NetworkStays, networks, view
  <2> QED
    BY <1>4, <2>1, <2>4, <2>5, TypesNext
<1>11. ASSUME ChannelsNotRead \/ LifecycleNotRead PROVE Types'
  <2>1. PICK k \in {"changed", "attached", "detached"} : Waiting(k) /\ OutsideStays /\ Read
    BY <1>11 DEF ChannelsNotRead, LifecycleNotRead
  <2>2. UNCHANGED <<books, networks, view>> /\ missed' \in BOOLEAN
    BY <1>11 DEF ChannelsNotRead, LifecycleNotRead, NetworkStays
  <2> QED
    BY <1>1, <1>2, <1>4, <2>1, <2>2, TypesNext
<1>12. ASSUME NetworkLifecycle PROVE Types'
  <2>1. PICK k \in {"attached", "detached"} :
           /\ Waiting(k) /\ OutsideStays
           /\ Ignored \/ (RestRefresh /\ Left(Of) /\ UNCHANGED missed)
    BY <1>12 DEF NetworkLifecycle
  <2>2. CASE Ignored
    BY <1>3, <1>4, <2>1, <2>2, TypesNext
  <2>3. CASE RestRefresh /\ Left(Of) /\ UNCHANGED missed
    <3>1. queue # << >>
      BY <2>1, WaitingFacts
    <3>2. current' \in Channel \cup {"home"} /\ missed' \in BOOLEAN
      BY <2>3 DEF Left, Types, TypeOK
    <3>3. ClientTypes' /\ PathTypes'
      BY <2>3, <3>1, <3>2, RestRefreshTypes DEF ClientTypes
    <3> QED
      BY <1>4, <2>1, <3>2, <3>3, TypesNext
  <2> QED
    BY <2>1, <2>2, <2>3
<1>14. ASSUME NEW next \in [Network -> Status], Recorded(next), UNCHANGED <<books, nets>>
       PROVE  ClientTypes'
  BY <1>14 DEF Recorded, ClientTypes, Types, TypeOK, books
<1>15. [n \in Network |-> IF n \in snets THEN sconn[n] ELSE conn[n]] \in [Network -> Status]
  BY DEF Types, TypeOK
<1>16. ASSUME ConnectionState PROVE Types'
  <2>1. Waiting("status") /\ OutsideStays /\ Read
    BY <1>16 DEF ConnectionState, Ignored
  <2>2. CASE Ignored
    BY <1>3, <1>4, <2>1, <2>2, TypesNext
  <2>3. CASE ~Ignored
    <3>1. PICK read \in BOOLEAN :
               Recorded(IF read THEN [n \in Network |-> IF n \in snets THEN sconn[n] ELSE conn[n]]
                        ELSE [conn EXCEPT ![Of.net] = Of.to])
      BY <1>16, <2>3 DEF ConnectionState
    <3>2. [conn EXCEPT ![Of.net] = Of.to] \in [Network -> Status]
      BY <2>1, WaitingFacts DEF Types, TypeOK
    <3>3. UNCHANGED <<books, nets, missed>>
      BY <1>16, <2>3 DEF ConnectionState
    <3>4. ClientTypes'
      BY <1>14, <1>15, <3>1, <3>2, <3>3
    <3>5. missed' \in BOOLEAN
      BY <3>3 DEF Types
    <3> QED
      BY <1>1, <1>4, <2>1, <3>4, <3>5, TypesNext
  <2> QED
    BY <2>2, <2>3
<1>17. ASSUME ConnectionProgress PROVE Types'
  <2>1. PICK k \in {"connecting", "welcome"} : Waiting(k) /\ OutsideStays /\ Read
    BY <1>17 DEF ConnectionProgress
  <2>2. missed' \in BOOLEAN /\ UNCHANGED <<books, nets>>
    BY <1>17 DEF ConnectionProgress, Types
  <2>3. \/ UNCHANGED <<conn, view>>
        \/ Recorded([n \in Network |-> IF n \in snets THEN sconn[n] ELSE conn[n]])
    BY <1>17 DEF ConnectionProgress
  <2>4. ClientTypes'
    BY <1>14, <1>15, <2>2, <2>3 DEF ClientTypes, Types, TypeOK, books, view
  <2> QED
    BY <1>1, <1>4, <2>1, <2>2, <2>4, TypesNext
<1>18. ASSUME SessionLost \/ SessionConnected PROVE Types'
  <2>1. PICK k \in {"lost", "up"} : Waiting(k) /\ OutsideStays /\ Read
    BY <1>18 DEF SessionLost, SessionConnected
  <2>2. ClientTypes' /\ missed' \in BOOLEAN
    BY <1>18 DEF SessionLost, SessionConnected, ClientTypes, Types, TypeOK, books, view, networks
  <2> QED
    BY <1>1, <1>4, <2>1, <2>2, TypesNext
<1> QED
  BY <1>5, <1>6, <1>7, <1>8, <1>9, <1>10, <1>11, <1>12, <1>16, <1>17, <1>18 DEF Frames

\* The types after a selection.
LEMMA SelectedTypes ==
    ASSUME Types, NEW c \in Channel, Selected(c)
    PROVE  current' \in Channel /\ recents' \in Seq(Channel)
<1>1. Only(recents, Channel \ {c}) \in Seq(Channel)
  BY OnlyFacts DEF Types, TypeOK
<1>2. <<c>> \o Only(recents, Channel \ {c}) \in Seq(Channel)
  BY <1>1
<1> QED
  BY <1>2 DEF Selected

\* The types after one more push.
LEMMA AppendTypes ==
    ASSUME Types, NEW p \in Pushes, queue' \in {queue, Append(queue, p)}
    PROVE  queue' \in Seq(Pushes)
  BY DEF Types

\* The types after a command.
LEMMA CommandsTypes ==
    ASSUME Types, Commands
    PROVE  Types'
<1>1. ASSUME NEW c \in Channel, SelectChannel(c) PROVE Types'
  <2>1. current' \in Channel /\ recents' \in Seq(Channel)
    BY <1>1, SelectedTypes DEF SelectChannel
  <2>2. PathTypes' /\ joined' \subseteq Channel
    <3>1. CASE session
      <4>1. {c} \ joined \in SUBSET Channel /\ queue \in Seq(Pushes) /\ Topics(queue, {}, {c} \ joined)
        BY <1>1, <3>1 DEF SelectChannel, Types
      <4> QED
        BY <1>1, <3>1, <4>1, TopicsTypes DEF PathTypes, SelectChannel, Types, TypeOK
    <3>2. CASE ~session
      BY <1>1, <3>2 DEF PathTypes, SelectChannel, Types, TypeOK
    <3> QED
      BY <3>1, <3>2
  <2>3. ClientTypes' /\ OutsideTypes' /\ missed' \in BOOLEAN
    BY <1>1, <2>1, <2>2 DEF SelectChannel, ClientTypes, OutsideTypes, Types, TypeOK, NetworkStays, OutsideStays,
                            networks, server
  <2> QED
    BY <2>2, <2>3, TypesNext
<1>2. ASSUME NEW c \in Channel, PartChannel(c) PROVE Types'
  <2> DEFINE next == Kept(entries \ {c}, nets)
  <2>1. next \subseteq Channel /\ Reconcile(next)
    BY <1>2, KeptTypes DEF PartChannel, Types, TypeOK
  <2>2. /\ entries' \subseteq Channel /\ ctopics' \subseteq Channel /\ joined' \subseteq Channel
    BY <2>1, ReconcileTypes DEF Reconcile
  <2>3. recents' \in Seq(Channel)
    BY <1>2, OnlyFacts DEF PartChannel, Types, TypeOK
  <2>4. PathTypes'
    <3>1. queue' \in {queue, Append(queue, Push("changed", ServerWindow))}
      BY <1>2 DEF PartChannel
    <3> QED
      BY <1>2, <3>1, AppendTypes, PushTypes DEF PartChannel, PathTypes, Types, TypeOK
  <2>5. ws' = [ws EXCEPT ![c] = "none"] /\ sv' = [sv EXCEPT ![c] = "out"] /\ auto' = auto \ {c}
        /\ current' \in {current, "home"} /\ missed' \in BOOLEAN
        /\ UNCHANGED <<session, networks, snets, sconn, link>>
    BY <1>2 DEF PartChannel, ClearWindow
  <2>6. ClientTypes' /\ OutsideTypes'
    BY <2>2, <2>3, <2>5 DEF ClientTypes, OutsideTypes, Types, TypeOK, networks, SvStates, Unlisted
  <2> QED
    BY <2>4, <2>5, <2>6, TypesNext
<1>3. ASSUME NEW c \in Channel, DismissKicked(c) PROVE Types'
  <2>1. current' \in Channel \cup {"home"} /\ recents' \in Seq(Channel)
    <3> DEFINE next == NextAfter(entries \ {c})
    <3>1. CASE current = c /\ next \in Channel
      BY <1>3, <3>1, SelectedTypes DEF DismissKicked
    <3>2. CASE ~(current = c /\ next \in Channel)
      BY <1>3, <3>2 DEF DismissKicked, Types, TypeOK
    <3> QED
      BY <3>1, <3>2
  <2>2. ws' = [ws EXCEPT ![c] = "none"] /\ entries' = entries \ {c}
        /\ NetworkStays /\ UNCHANGED <<session, ctopics, joined, held, server, link, queue, missed>>
    BY <1>3 DEF DismissKicked, ClearWindow, bounds
  <2>3. ClientTypes' /\ PathTypes' /\ OutsideTypes' /\ missed' \in BOOLEAN
    BY <2>1, <2>2 DEF ClientTypes, PathTypes, OutsideTypes, Types, TypeOK, NetworkStays, networks, server,
                      Unlisted
  <2> QED
    BY <2>3, TypesNext
<1>4. ASSUME NEW c \in Channel, DeclineInvite(c) PROVE Types'
  <2>1. queue' \in {queue, Append(queue, Push("declined", c))} /\ sv' = [sv EXCEPT ![c] = "out"]
        /\ missed' \in BOOLEAN /\ NetworkStays
        /\ UNCHANGED <<session, books, view, held, auto, snets, sconn, link>>
    BY <1>4 DEF DeclineInvite
  <2>2. queue' \in Seq(Pushes)
    BY <2>1, AppendTypes, PushTypes DEF StateKinds
  <2>3. ClientTypes' /\ PathTypes' /\ OutsideTypes'
    BY <2>1, <2>2 DEF ClientTypes, PathTypes, OutsideTypes, Types, TypeOK, NetworkStays, networks, books, view,
                      SvStates
  <2> QED
    BY <2>1, <2>3, TypesNext
<1>5. ASSUME SignIn PROVE Types'
  <2>1. ws' \in [Channel -> Unlisted \cup {"none", "joined"}]
    BY <1>5 DEF SignIn, BootStates
  <2>2. nets' \subseteq Network /\ conn' \in [Network -> Status] /\ BootRows \subseteq Channel
    BY <1>5 DEF SignIn, BootNets, BootRows, Types
  <2>3. recents' = << >> /\ queue' = << >> /\ current' = "home" /\ session' = TRUE /\ missed' = FALSE
        /\ entries' = BootRows /\ ctopics' = BootRows /\ joined' = BootRows /\ held' = BootRows
        /\ UNCHANGED <<server, link>>
    BY <1>5 DEF SignIn
  <2>4. << >> \in Seq(Channel) /\ << >> \in Seq(Pushes)
    OBVIOUS
  <2>5. ClientTypes'
    BY <2>1, <2>2, <2>3, <2>4 DEF ClientTypes
  <2>6. PathTypes'
    BY <2>2, <2>3, <2>4 DEF PathTypes
  <2>7. ClientTypes' /\ PathTypes' /\ OutsideTypes' /\ missed' \in BOOLEAN
    BY <2>3, <2>5, <2>6 DEF OutsideTypes, Types, TypeOK, server
  <2> QED
    BY <2>7, TypesNext
<1>6. ASSUME SessionRefused PROVE Types'
  <2>1. ClientTypes' /\ PathTypes' /\ OutsideTypes' /\ missed' \in BOOLEAN
    BY <1>6 DEF SessionRefused, ClientTypes, PathTypes, OutsideTypes, Types, TypeOK, NetworkStays, networks,
                books, view, server, bounds
  <2> QED
    BY <2>1, TypesNext
<1> QED
  BY <1>1, <1>2, <1>3, <1>4, <1>5, <1>6 DEF Commands

\* The types after Grappa sent pushes.
LEMMA PushedTypes ==
    ASSUME Types, NEW s \in Seq(Pushes), Pushed(s)
    PROVE  queue' \in Seq(Pushes) /\ missed' \in BOOLEAN
<1>1. queue \o s \in Seq(Pushes)
  BY DEF Types
<1> QED
  BY <1>1 DEF Pushed, Types

\* The types after a step of Grappa or the socket.
LEMMA OutsideStepTypes ==
    ASSUME Types, Outside
    PROVE  Types'
<1>1. ASSUME ClientStays, queue' \in Seq(Pushes), missed' \in BOOLEAN, session' = session, OutsideTypes' PROVE Types'
  <2>1. ClientTypes' /\ PathTypes'
    BY <1>1 DEF ClientStays, ClientTypes, PathTypes, Types, TypeOK, networks, books, view
  <2> QED
    BY <1>1, <2>1, TypesNext
<1>2. ASSUME NEW c \in Channel, ServerMoves(c) PROVE Types'
  <2>1. PICK to \in Moves(c) :
           /\ sv' = [sv EXCEPT ![c] = to]
           /\ auto' = IF to = "joined" THEN auto \cup {c} ELSE IF to = "out" THEN auto \ {c} ELSE auto
           /\ Pushed(CASE to = "out" /\ sv[c] = "invited" -> <<Push("declined", c)>>
                     [] to = "out" /\ sv[c] # "invited" -> <<Push("changed", ServerWindow)>>
                     [] to = "joined" -> <<Push("joined", c), Push("changed", ServerWindow)>>
                                         \o (IF c \in held THEN <<Push("seeded", c)>> ELSE << >>)
                     [] to = "kicked" -> <<Push("kicked", c), Push("changed", ServerWindow)>>
                     [] OTHER -> <<Push(to, c)>>)
    BY <1>2 DEF ServerMoves
  <2>2. to \in SvStates
    BY DEF Moves, SvStates
  <2>3. queue' \in Seq(Pushes) /\ missed' \in BOOLEAN
    <3>1. Changed \in Pushes /\ Changed = Push("changed", ServerWindow)
          /\ \A k \in StateKinds \cup {"seeded"} : Push(k, c) \in Pushes
      BY PushTypes DEF Changed
    <3>2. CASE to = "out" /\ sv[c] = "invited"
      <4>1. <<Push("declined", c)>> \in Seq(Pushes)
        BY <3>1 DEF StateKinds
      <4> QED
        BY <2>1, <3>2, <4>1, PushedTypes
    <3>3. CASE to = "out" /\ sv[c] # "invited"
      <4>1. <<Push("changed", ServerWindow)>> \in Seq(Pushes)
        BY <3>1
      <4> QED
        BY <2>1, <3>3, <4>1, PushedTypes
    <3>4. CASE to = "joined"
      <4>1. <<Push("joined", c), Changed>> \o (IF c \in held THEN <<Push("seeded", c)>> ELSE << >>)
               \in Seq(Pushes)
        BY <3>1 DEF StateKinds
      <4> QED
        BY <2>1, <3>1, <3>4, <4>1, PushedTypes
    <3>5. CASE to = "kicked"
      <4>1. <<Push("kicked", c), Push("changed", ServerWindow)>> \in Seq(Pushes)
        BY <3>1 DEF StateKinds
      <4> QED
        BY <2>1, <3>5, <4>1, PushedTypes
    <3>6. CASE to \in {"pending", "invited", "failed"}
      <4>1. <<Push(to, c)>> \in Seq(Pushes)
        BY <3>1, <3>6 DEF StateKinds
      <4> QED
        BY <2>1, <3>6, <4>1, PushedTypes
    <3> QED
      BY <2>2, <3>2, <3>3, <3>4, <3>5, <3>6 DEF SvStates
  <2>4. session' = session /\ ClientStays /\ UNCHANGED <<snets, sconn, link>>
    BY <1>2 DEF ServerMoves, ClientStays
  <2>5. OutsideTypes'
    BY <2>1, <2>2, <2>4 DEF OutsideTypes, Types, TypeOK
  <2> QED
    BY <1>1, <2>3, <2>4, <2>5
<1>3. ASSUME NEW c \in Channel, BackgroundPart(c) PROVE Types'
  <2>1. queue' \in {queue, Append(queue, Push("changed", ServerWindow))} /\ missed' \in BOOLEAN
        /\ session' = session /\ ClientStays /\ UNCHANGED <<snets, sconn, link>>
        /\ sv' \in {sv, [sv EXCEPT ![c] = "out"]} /\ auto' \in {auto, auto \ {c}}
    BY <1>3 DEF BackgroundPart, ClientStays
  <2>2. queue' \in Seq(Pushes)
    BY <2>1, AppendTypes, PushTypes
  <2>3. OutsideTypes'
    BY <2>1 DEF OutsideTypes, Types, TypeOK, SvStates
  <2> QED
    BY <1>1, <2>1, <2>2, <2>3
<1>4. ASSUME NEW n \in Network, ServerAttaches(n) PROVE Types'
  <2>1. Pushed(<<Push(IF n \in snets THEN "detached" ELSE "attached", n)>>)
    BY <1>4 DEF ServerAttaches
  <2>2. queue' \in Seq(Pushes) /\ missed' \in BOOLEAN
    <3>1. <<Push(IF n \in snets THEN "detached" ELSE "attached", n)>> \in Seq(Pushes)
      BY PushTypes DEF LifecycleKinds
    <3> QED
      BY <2>1, <3>1, PushedTypes
  <2>3. session' = session /\ ClientStays /\ link' = link
        /\ snets' \in {snets \ {n}, snets \cup {n}}
        /\ sv' = [c \in Channel |-> IF NetOf[c] = n THEN "out" ELSE sv[c]]
        /\ auto' \subseteq auto /\ sconn' = [sconn EXCEPT ![n] = "connected"]
    BY <1>4 DEF ServerAttaches, ClientStays
  <2>4. OutsideTypes'
    BY <2>3 DEF OutsideTypes, Types, TypeOK, SvStates, Status
  <2> QED
    BY <1>1, <2>2, <2>3, <2>4
<1>5. ASSUME NEW n \in Network, ServerConnects(n) PROVE Types'
  <2>1. \E k \in {"parked", "failed", "connected"} :
           /\ sconn' = [sconn EXCEPT ![n] = k]
           /\ \/ Pushed(<<Push("status", [net |-> n, to |-> k]), Push("changed", ServerWindow)>>)
              \/ Pushed(<<Push("connecting", n), Push("welcome", n)>>)
    BY <1>5 DEF ServerConnects
  <2>2. queue' \in Seq(Pushes) /\ missed' \in BOOLEAN /\ sconn' \in [Network -> Status]
    <3>1. PICK k \in {"parked", "failed", "connected"} :
           /\ sconn' = [sconn EXCEPT ![n] = k]
           /\ \/ Pushed(<<Push("status", [net |-> n, to |-> k]), Push("changed", ServerWindow)>>)
              \/ Pushed(<<Push("connecting", n), Push("welcome", n)>>)
      BY <2>1
    <3>2. <<Push("status", [net |-> n, to |-> k]), Push("changed", ServerWindow)>> \in Seq(Pushes)
      <4>1. k \in Status
        BY DEF Status
      <4>2. Push("status", [net |-> n, to |-> k]) \in Pushes /\ Push("changed", ServerWindow) \in Pushes
        BY <4>1, PushTypes DEF StatusOf
      <4> QED
        BY <4>2
    <3>3. <<Push("connecting", n), Push("welcome", n)>> \in Seq(Pushes)
      BY PushTypes
    <3>4. sconn' \in [Network -> Status]
      BY <3>1 DEF Types, Status
    <3> QED
      BY <3>1, <3>2, <3>3, <3>4, PushedTypes
  <2>3. session' = session /\ ClientStays /\ UNCHANGED <<auto, snets, link>>
        /\ sv' \in {sv, [c \in Channel |-> IF NetOf[c] = n /\ sv[c] = "joined" THEN "out" ELSE sv[c]]}
    BY <1>5 DEF ServerConnects, ClientStays
  <2>4. OutsideTypes'
    BY <2>2, <2>3 DEF OutsideTypes, Types, TypeOK, SvStates
  <2> QED
    BY <1>1, <2>2, <2>3, <2>4
<1>6. ASSUME LinkLost PROVE Types'
  <2>1. PICK k \in 0 .. Len(queue) :
           /\ queue' = Append(SubSeq(queue, 1, k), Push("lost", ServerWindow))
           /\ missed' = (missed \/ k < Len(queue))
    BY <1>6 DEF LinkLost
  <2>2. queue' \in Seq(Pushes)
    <3>1. Push("lost", ServerWindow) \in Pushes /\ queue \in Seq(Pushes)
      BY PushTypes DEF Types
    <3>2. SubSeq(queue, 1, k) \in Seq(Pushes)
      BY <3>1
    <3> QED
      BY <2>1, <3>1, <3>2
  <2>3. session' = session /\ ClientStays /\ link' = "down" /\ UNCHANGED server /\ missed' \in BOOLEAN
    BY <1>6, <2>1 DEF LinkLost, ClientStays
  <2>4. OutsideTypes'
    BY <2>3 DEF OutsideTypes, Types, TypeOK, server
  <2> QED
    BY <1>1, <2>2, <2>3, <2>4
<1>7. ASSUME LinkBack PROVE Types'
  <2>1. queue' \in Seq(Pushes)
    <3>1. <<Push("up", ServerWindow)>> \in Seq(Pushes) /\ queue \in Seq(Pushes)
      BY PushTypes DEF Types
    <3>2. Replayed \in Seq(Pushes) /\ Snapshots(held) \in Seq(Pushes)
      BY ReplayedQuiet, SnapshotsQuiet DEF Quiet, Types, TypeOK
    <3>3. queue \o <<Push("up", ServerWindow)>> \o Replayed \o Snapshots(held) \in Seq(Pushes)
      BY <3>1, <3>2
    <3> QED
      BY <1>7, <3>3 DEF LinkBack
  <2>2. session /\ session' = session /\ ClientStays /\ link' = "up" /\ UNCHANGED server
        /\ missed' \in BOOLEAN
    BY <1>7 DEF LinkBack, ClientStays, bounds, Types
  <2>3. OutsideTypes'
    BY <2>2 DEF OutsideTypes, Types, TypeOK, server
  <2> QED
    BY <1>1, <2>1, <2>2, <2>3
<1> QED
  BY <1>2, <1>3, <1>4, <1>5, <1>6, <1>7 DEF Outside

\* Every step keeps the types.
LEMMA TypesKept ==
    ASSUME Types, [Next]_vars
    PROVE  Types'
<1>1. CASE UNCHANGED vars
  BY <1>1 DEF Types, TypeOK, vars, view, networks, books, server, bounds
<1> QED
  BY <1>1, FramesTypes, CommandsTypes, OutsideStepTypes DEF Next

-----------------------------------------------------------------------------
(* The metadata of the windows. *)

\* Every step keeps the metadata with the states.
LEMMA MetaKept ==
    ASSUME Types, Meta, [Next]_vars
    PROVE  Meta'
<1> USE DEF Meta
<1>1. ASSUME UNCHANGED books PROVE Meta'
  BY <1>1 DEF books
<1>2. ASSUME NEW k, Waiting(k), k \in StateKinds, NEW to \in {"pending", "invited", "none", "joined", "failed", "kicked"},
             ws' = [ws EXCEPT ![Of] = to],
             failures' = IF to = "failed" THEN failures \cup {Of} ELSE failures \ {Of},
             kicks' = IF to = "kicked" THEN kicks \cup {Of} ELSE kicks \ {Of},
             inviters' = IF to = "invited" THEN inviters \cup {Of} ELSE inviters \ {Of}
      PROVE  Meta'
  <2>1. Of \in Channel /\ ws \in [Channel -> Unlisted \cup {"none", "joined"}]
    BY <1>2, WaitingFacts DEF Types, TypeOK
  <2> QED
    BY <1>2, <2>1
<1>3. ASSUME NEW c \in Channel, ClearWindow(c) PROVE Meta'
  <2>1. ws \in [Channel -> Unlisted \cup {"none", "joined"}]
    BY DEF Types, TypeOK
  <2> QED
    BY <1>3, <2>1 DEF ClearWindow
<1>4. CASE WindowPending
  BY <1>1, <1>2, <1>4 DEF WindowPending, SetPending, Ignored, StateKinds
<1>5. CASE WindowInvited
  BY <1>1, <1>2, <1>5 DEF WindowInvited, SetInvited, Ignored, StateKinds
<1>6. CASE InviteDeclined
  BY <1>1, <1>2, <1>6 DEF InviteDeclined, ClearWindow, Ignored, StateKinds
<1>7. CASE WindowJoined
  BY <1>2, <1>7 DEF WindowJoined, SetJoined, StateKinds
<1>8. CASE JoinFailed
  BY <1>2, <1>8 DEF JoinFailed, SetFailed, StateKinds
<1>9. CASE WindowKicked
  BY <1>2, <1>9 DEF WindowKicked, SetKicked, StateKinds
<1>10. CASE RestRefresh
  <2>1. ws \in [Channel -> Unlisted \cup {"none", "joined"}]
    BY DEF Types, TypeOK
  <2> QED
    BY <1>10, <2>1 DEF RestRefresh, BootStates, Unlisted
<1>11. CASE NetworkLifecycle
  BY <1>1, <1>10, <1>11 DEF NetworkLifecycle, Ignored
<1>12. CASE MembersSeeded \/ ChannelsNotRead \/ LifecycleNotRead \/ ConnectionState \/ ConnectionProgress
            \/ SessionLost \/ SessionConnected
  BY <1>1, <1>12 DEF MembersSeeded, ChannelsNotRead, LifecycleNotRead, ConnectionState, ConnectionProgress,
                     SessionLost, SessionConnected, Ignored
<1>13. CASE ChannelsChanged
  BY <1>13 DEF ChannelsChanged
<1>14. CASE Commands
  <2>1. ASSUME NEW c \in Channel, SelectChannel(c) PROVE Meta'
    BY <2>1 DEF SelectChannel
  <2>2. ASSUME NEW c \in Channel, PartChannel(c) \/ DismissKicked(c) PROVE Meta'
    BY <1>3, <2>2 DEF PartChannel, DismissKicked
  <2>3. ASSUME NEW c \in Channel, DeclineInvite(c) PROVE Meta'
    BY <1>1, <2>3 DEF DeclineInvite
  <2>4. CASE SignIn
    BY <2>4 DEF SignIn, BootStates
  <2>5. CASE SessionRefused
    BY <1>1, <2>5 DEF SessionRefused
  <2> QED
    BY <1>14, <2>1, <2>2, <2>3, <2>4, <2>5 DEF Commands
<1>15. CASE Outside
  BY <1>1, <1>15 DEF Outside, ServerMoves, BackgroundPart, ServerAttaches, ServerConnects, LinkLost, LinkBack,
                     ClientStays
<1>16. CASE UNCHANGED vars
  BY <1>1, <1>16 DEF vars
<1> QED
  BY <1>4, <1>5, <1>6, <1>7, <1>8, <1>9, <1>11, <1>12, <1>13, <1>14, <1>15, <1>16 DEF Next, Frames

-----------------------------------------------------------------------------
(* What Grappa holds. *)

\* Every step keeps what Grappa holds on the networks that it has.
LEMMA ServerKept ==
    ASSUME Types, ServerInv, [Next]_vars
    PROVE  ServerInv'
<1> USE DEF ServerInv
<1>1. ASSUME UNCHANGED <<sv, auto, snets>> PROVE ServerInv'
  BY <1>1
<1>2. sv \in [Channel -> SvStates] /\ auto \subseteq Channel /\ snets \subseteq Network
  BY DEF Types
<1>3. ASSUME NEW c \in Channel, sv' = [sv EXCEPT ![c] = "out"], auto' \subseteq auto,
             auto \ auto' \subseteq {c}, snets' = snets
      PROVE  ServerInv'
  BY <1>2, <1>3
<1>4. CASE Frames
  <2>1. OutsideStays
    BY <1>4 DEF Frames, WindowPending, WindowInvited, InviteDeclined, WindowJoined, JoinFailed, WindowKicked,
         MembersSeeded, ChannelsChanged, ChannelsNotRead, NetworkLifecycle, LifecycleNotRead, ConnectionState,
         ConnectionProgress, SessionLost, SessionConnected
  <2> QED
    BY <1>1, <2>1 DEF OutsideStays, server
<1>5. CASE Commands
  <2>1. ASSUME NEW c \in Channel, SelectChannel(c) PROVE ServerInv'
    BY <1>1, <2>1 DEF SelectChannel, OutsideStays, server
  <2>2. ASSUME NEW c \in Channel, PartChannel(c) PROVE ServerInv'
    BY <1>3, <2>2 DEF PartChannel
  <2>3. ASSUME NEW c \in Channel, DismissKicked(c) PROVE ServerInv'
    BY <1>1, <2>3 DEF DismissKicked, server
  <2>4. ASSUME NEW c \in Channel, DeclineInvite(c) PROVE ServerInv'
    BY <1>3, <2>4 DEF DeclineInvite
  <2>5. CASE SignIn \/ SessionRefused
    BY <1>1, <2>5 DEF SignIn, SessionRefused, server
  <2> QED
    BY <1>5, <2>1, <2>2, <2>3, <2>4, <2>5 DEF Commands
<1>6. CASE Outside
  <2>1. ASSUME NEW c \in Channel, ServerMoves(c) PROVE ServerInv'
    <3>1. PICK to \in Moves(c) :
             /\ sv' = [sv EXCEPT ![c] = to]
             /\ auto' = IF to = "joined" THEN auto \cup {c} ELSE IF to = "out" THEN auto \ {c} ELSE auto
      BY <2>1 DEF ServerMoves
    <3>2. NetOf[c] \in snets /\ snets' = snets
      BY <2>1 DEF ServerMoves
    <3>3. sv[c] = "joined" => to \in {"kicked", "out"}
      BY DEF Moves
    <3> QED
      BY <1>2, <3>1, <3>2, <3>3
  <2>2. ASSUME NEW c \in Channel, BackgroundPart(c) PROVE ServerInv'
    BY <1>1, <1>3, <2>2 DEF BackgroundPart
  <2>3. ASSUME NEW n \in Network, ServerAttaches(n) PROVE ServerInv'
    BY <1>2, <2>3 DEF ServerAttaches
  <2>4. ASSUME NEW n \in Network, ServerConnects(n) PROVE ServerInv'
    <3>1. /\ sv' \in {sv, [c \in Channel |-> IF NetOf[c] = n /\ sv[c] = "joined" THEN "out" ELSE sv[c]]}
          /\ UNCHANGED <<auto, snets>>
      BY <2>4 DEF ServerConnects
    <3> QED
      BY <1>2, <3>1
  <2>5. CASE LinkLost \/ LinkBack
    BY <1>1, <2>5 DEF LinkLost, LinkBack, server
  <2> QED
    BY <1>6, <2>1, <2>2, <2>3, <2>4, <2>5 DEF Outside
<1>7. CASE UNCHANGED vars
  BY <1>1, <1>7 DEF vars, server
<1> QED
  BY <1>4, <1>5, <1>6, <1>7 DEF Next

-----------------------------------------------------------------------------
(* What the first push leaves behind. *)

\* What the first push says of a channel, and what the rest does.
LEMMA ReadChannel ==
    ASSUME NEW q \in Seq(Pushes), q # << >>, NEW u, u = Tail(q), NEW c
    PROVE  /\ Waits(q, Others(c)) <=> Head(q) \in Others(c) \/ Waits(u, Others(c))
           /\ Waits(q, {Changed}) <=> Head(q) = Changed \/ Waits(u, {Changed})
           /\ Waits(q, Shows(c)) <=> Head(q) \in Shows(c) \/ Waits(u, Shows(c))
           /\ Waits(q, Asks(c)) <=> Head(q) \in Asks(c) \/ Waits(u, Asks(c))
           /\ Comes(q, c) <=> (Head(q) = Push(sv[c], c) /\ ~Waits(u, Others(c))) \/ Comes(u, c)
           /\ Stands(q, Push("declined", c), Shows(c)) <=>
                 \/ Head(q) = Push("declined", c) /\ ~Waits(u, Shows(c))
                 \/ Stands(u, Push("declined", c), Shows(c))
           /\ Stands(q, Changed, Shows(c)) <=>
                 (Head(q) = Changed /\ ~Waits(u, Shows(c))) \/ Stands(u, Changed, Shows(c))
           /\ Leads(q, Push("joined", c), Others(c), Changed, {}) <=>
                 \/ Head(q) = Push("joined", c) /\ ~Waits(u, Others(c)) /\ Waits(u, {Changed})
                 \/ Leads(u, Push("joined", c), Others(c), Changed, {})
           /\ Leads(q, Push("joined", c), Asks(c), Changed, Shows(c)) <=>
                 \/ Head(q) = Push("joined", c) /\ ~Waits(u, Asks(c)) /\ Stands(u, Changed, Shows(c))
                 \/ Leads(u, Push("joined", c), Asks(c), Changed, Shows(c))
<1>1. \A S : Waits(q, S) <=> Head(q) \in S \/ Waits(u, S)
  BY ReadWaits
<1>2. \A p, S : Stands(q, p, S) <=> (Head(q) = p /\ ~Waits(u, S)) \/ Stands(u, p, S)
  BY ReadStands
<1>3. \A p, S, r, R : Leads(q, p, S, r, R) <=>
         (Head(q) = p /\ ~Waits(u, S) /\ Stands(u, r, R)) \/ Leads(u, p, S, r, R)
  BY ReadLeads
<1>4. Stands(u, Changed, {}) <=> Waits(u, {Changed})
  BY DEF Stands, Waits
<1> QED
  BY <1>1, <1>2, <1>3, <1>4 DEF Comes

\* What the first push says of a network, and what the rest does.
LEMMA ReadNetwork ==
    ASSUME NEW q \in Seq(Pushes), q # << >>, NEW u, u = Tail(q), NEW n
    PROVE  /\ Waits(q, Lifecycle(n)) <=> Head(q) \in Lifecycle(n) \/ Waits(u, Lifecycle(n))
           /\ Waits(q, NetPushes(n)) <=> Head(q) \in NetPushes(n) \/ Waits(u, NetPushes(n))
           /\ \A p : Stands(q, p, Lifecycle(n)) <=>
                        \/ Head(q) = p /\ ~Waits(u, Lifecycle(n))
                        \/ Stands(u, p, Lifecycle(n))
           /\ \A p : Stands(q, p, NetPushes(n)) <=>
                        \/ Head(q) = p /\ ~Waits(u, NetPushes(n))
                        \/ Stands(u, p, NetPushes(n))
  BY ReadWaits, ReadStands

\* How the sets of pushes hang together.
LEMMA SetsNested ==
    ASSUME NEW q, NEW c
    PROVE  /\ Waits(q, Asks(c)) => Waits(q, Shows(c))
           /\ Waits(q, Lifecycle(NetOf[c])) => Waits(q, Others(c))
           /\ Waits(q, Lifecycle(NetOf[c])) => Waits(q, NetPushes(NetOf[c]))
           /\ Stands(q, Changed, Shows(c)) => Waits(q, {Changed})
<1>1. Asks(c) \subseteq Shows(c) /\ Lifecycle(NetOf[c]) \subseteq Others(c)
      /\ Lifecycle(NetOf[c]) \subseteq NetPushes(NetOf[c])
  BY DEF Asks, Shows, Others, NetPushes
<1> QED
  BY <1>1 DEF Waits, Stands

\* The variables of a channel that a handler does not touch.
SameOutside == UNCHANGED <<sv, auto, snets, again, parts, link>>
SameRow(c) ==
    /\ ws'[c] = ws[c] /\ (c \in entries' <=> c \in entries)
    /\ (c \in ctopics' <=> c \in ctopics) /\ (c \in joined' <=> c \in joined)

\* The sets of pushes depend on Grappa only.
LEMMA SameSets ==
    ASSUME SameOutside, NEW c
    PROVE  /\ Others(c)' = Others(c) /\ Shows(c)' = Shows(c) /\ Asks(c)' = Asks(c)
           /\ \A q : Comes(q, c)' <=> Comes(q, c)
<1>1. Others(c)' = Others(c) /\ Shows(c)' = Shows(c) /\ Asks(c)' = Asks(c)
  BY DEF SameOutside, Others, Shows, Asks
<1> QED
  BY <1>1 DEF SameOutside, Comes

\* A push that is not about the channel.
LEMMA ReadOther ==
    ASSUME Types, NEW q, Rest(q), queue' = Tail(q), SameOutside,
           NEW c \in Channel, SameRow(c), NEW k, NEW x, Head(q) = Push(k, x),
           ~(k \in StateKinds /\ x = c), ~(k \in LifecycleKinds /\ x = NetOf[c]), k # "changed"
    PROVE  ChannelInv(queue, c)'
<1>1. q \in Seq(Pushes) /\ q # << >> /\ ChannelInv(q, c)
  BY DEF Rest
<1>2. sv[c] \in SvStates
  BY DEF Types
<1>3. /\ Head(q) \notin Others(c) /\ Head(q) \notin Shows(c) /\ Head(q) \notin Asks(c)
      /\ Head(q) # Changed /\ Head(q) # Push("declined", c) /\ Head(q) # Push("joined", c)
      /\ sv[c] # "out" => Head(q) # Push(sv[c], c)
  BY <1>2, OthersHas, ShowsHas, PushParts DEF StateKinds, Changed, SvStates
<1> DEFINE u == Tail(q)
<1>4. /\ Waits(q, Others(c)) <=> Waits(u, Others(c))
      /\ Waits(q, {Changed}) <=> Waits(u, {Changed})
      /\ Waits(q, Shows(c)) <=> Waits(u, Shows(c))
      /\ Waits(q, Asks(c)) <=> Waits(u, Asks(c))
      /\ sv[c] # "out" => (Comes(q, c) <=> Comes(u, c))
      /\ Stands(q, Push("declined", c), Shows(c)) <=> Stands(u, Push("declined", c), Shows(c))
      /\ Stands(q, Changed, Shows(c)) <=> Stands(u, Changed, Shows(c))
      /\ Leads(q, Push("joined", c), Others(c), Changed, {}) <=>
            Leads(u, Push("joined", c), Others(c), Changed, {})
      /\ Leads(q, Push("joined", c), Asks(c), Changed, Shows(c)) <=>
            Leads(u, Push("joined", c), Asks(c), Changed, Shows(c))
  BY <1>1, <1>3, ReadChannel
<1>5. queue' = u
  OBVIOUS
<1> HIDE DEF u
<1>6. AskedInv(queue, c)'
  BY <1>1, <1>4, <1>5, SameSets DEF ChannelInv, AskedInv, SameOutside, SameRow
<1>7. JoinedInv(queue, c)'
  BY <1>1, <1>4, <1>5, SameSets DEF ChannelInv, JoinedInv, SameOutside, SameRow
<1>8. EndedInv(queue, c)'
  BY <1>1, <1>4, <1>5, SameSets DEF ChannelInv, EndedInv, SameOutside, SameRow
<1>9. OutInv(queue, c)'
  BY <1>1, <1>4, <1>5, SameSets DEF ChannelInv, OutInv, SameOutside, SameRow
<1> QED
  BY <1>6, <1>7, <1>8, <1>9 DEF ChannelInv

\* A push that is about no network.
LEMMA ReadOtherNetwork ==
    ASSUME Types, NEW q, Rest(q), queue' = Tail(q), UNCHANGED <<snets, sconn, again, nets, conn>>,
           NEW n \in Network, NEW k, NEW x, Head(q) = Push(k, x),
           k \notin LifecycleKinds \cup {"welcome", "status"}
    PROVE  NetworkInv(queue, n)'
<1>1. q \in Seq(Pushes) /\ q # << >> /\ NetworkInv(q, n)
  BY DEF Rest
<1>2. Head(q) \notin Lifecycle(n) /\ Head(q) \notin NetPushes(n)
  BY LifecycleHas, NetPushesHas
<1>3. Head(q) # Push("attached", n) /\ Head(q) # Push("detached", n)
      /\ \A t : Head(q) # StatusOf(n, t)
  BY PushParts DEF LifecycleKinds, StatusOf
<1> DEFINE u == Tail(q)
<1>4. /\ Waits(q, Lifecycle(n)) <=> Waits(u, Lifecycle(n))
      /\ Waits(q, NetPushes(n)) <=> Waits(u, NetPushes(n))
      /\ Stands(q, Push("attached", n), Lifecycle(n)) <=> Stands(u, Push("attached", n), Lifecycle(n))
      /\ Stands(q, Push("detached", n), Lifecycle(n)) <=> Stands(u, Push("detached", n), Lifecycle(n))
      /\ \A t : Stands(q, StatusOf(n, t), NetPushes(n)) <=> Stands(u, StatusOf(n, t), NetPushes(n))
  BY <1>1, <1>2, <1>3, ReadNetwork
<1> HIDE DEF u
<1>5. /\ Lifecycle(n)' = Lifecycle(n) /\ NetPushes(n)' = NetPushes(n)
      /\ \A t : StatusOf(n, t)' = StatusOf(n, t)
  BY DEF Lifecycle, NetPushes, StatusOf
<1>6. queue' = u
  BY DEF u
<1> QED
  BY <1>1, <1>4, <1>5, <1>6 DEF NetworkInv

-----------------------------------------------------------------------------
(* The reports of a window. *)

\* What the handler of a push makes of the row of its channel.
RowAfter(k, c) ==
    \/ k \in {"pending", "invited", "declined"} /\ NetOf[c] \notin nets /\ SameRow(c)
    \/ k \in {"pending", "invited"} /\ ws'[c] = k /\ c \in entries' /\ c \in ctopics' /\ c \in joined'
    \/ k = "declined" /\ ws'[c] = "none" /\ c \notin entries'
    \/ /\ k \in {"joined", "failed", "kicked"} /\ ws'[c] = k /\ c \in entries'
       /\ (c \in ctopics' <=> c \in ctopics) /\ (c \in joined' <=> c \in joined)

\* A report of the channel is read.
LEMMA ReadOwn ==
    ASSUME Types, ServerInv, NEW q, Rest(q), queue' = Tail(q), SameOutside,
           NEW c \in Channel, NEW k \in StateKinds, Head(q) = Push(k, c), RowAfter(k, c)
    PROVE  ChannelInv(queue, c)'
<1>1. q \in Seq(Pushes) /\ q # << >> /\ ChannelInv(q, c) /\ NetOf[c] \in Network
      /\ NetworkInv(q, NetOf[c])
  BY WindowsConstants DEF Rest, Channel
<1>2. sv[c] \in SvStates /\ (sv[c] # "out" => NetOf[c] \in snets)
  BY DEF Types, ServerInv
<1>3. /\ Head(q) \in Others(c) <=> k # sv[c]
      /\ Head(q) \in Shows(c) <=> k # "declined"
      /\ Head(q) \in Asks(c) <=> k \notin {"declined", "joined"}
      /\ Head(q) # Changed
      /\ \A l : Head(q) = Push(l, c) <=> k = l
      /\ Head(q) \notin Lifecycle(NetOf[c])
  BY OthersHas, ShowsHas, LifecycleHas, PushParts DEF StateKinds, LifecycleKinds, Changed
<1> DEFINE u == Tail(q)
<1>4. /\ Waits(q, Others(c)) <=> k # sv[c] \/ Waits(u, Others(c))
      /\ Waits(q, {Changed}) <=> Waits(u, {Changed})
      /\ Waits(q, Shows(c)) <=> k # "declined" \/ Waits(u, Shows(c))
      /\ Waits(q, Asks(c)) <=> k \notin {"declined", "joined"} \/ Waits(u, Asks(c))
      /\ Comes(q, c) <=> (k = sv[c] /\ ~Waits(u, Others(c))) \/ Comes(u, c)
      /\ Stands(q, Push("declined", c), Shows(c)) <=>
            (k = "declined" /\ ~Waits(u, Shows(c))) \/ Stands(u, Push("declined", c), Shows(c))
      /\ Stands(q, Changed, Shows(c)) <=> Stands(u, Changed, Shows(c))
      /\ Leads(q, Push("joined", c), Others(c), Changed, {}) <=>
            \/ k = "joined" /\ ~Waits(u, Others(c)) /\ Waits(u, {Changed})
            \/ Leads(u, Push("joined", c), Others(c), Changed, {})
      /\ Leads(q, Push("joined", c), Asks(c), Changed, Shows(c)) <=>
            \/ k = "joined" /\ ~Waits(u, Asks(c)) /\ Stands(u, Changed, Shows(c))
            \/ Leads(u, Push("joined", c), Asks(c), Changed, Shows(c))
  BY <1>1, <1>3, ReadChannel
<1>5. /\ ~Waits(u, Others(c)) => (NetOf[c] \in nets <=> NetOf[c] \in snets)
      /\ NetOf[c] \in snets /\ NetOf[c] \notin again => NetOf[c] \in nets
  <2>1. Waits(q, Lifecycle(NetOf[c])) <=> Waits(u, Lifecycle(NetOf[c]))
    BY <1>1, <1>3, ReadNetwork
  <2>2. Waits(u, Lifecycle(NetOf[c])) => Waits(u, Others(c))
    BY SetsNested
  <2> QED
    BY <1>1, <2>1, <2>2 DEF NetworkInv
<1>6. queue' = u
  OBVIOUS
<1> HIDE DEF u
<1>7. AskedInv(queue, c)'
  BY <1>1, <1>2, <1>4, <1>5, <1>6, SameSets DEF ChannelInv, AskedInv, SameOutside, SameRow, RowAfter
<1>8. JoinedInv(queue, c)'
  BY <1>1, <1>2, <1>4, <1>5, <1>6, SameSets DEF ChannelInv, JoinedInv, SameOutside, SameRow, RowAfter
<1>9. EndedInv(queue, c)'
  BY <1>1, <1>2, <1>4, <1>5, <1>6, SameSets DEF ChannelInv, EndedInv, SameOutside, SameRow, RowAfter
<1>10. OutInv(queue, c)'
  BY <1>1, <1>2, <1>4, <1>5, <1>6, SameSets DEF ChannelInv, OutInv, SameOutside, SameRow, RowAfter, Unlisted
<1> QED
  BY <1>7, <1>8, <1>9, <1>10 DEF ChannelInv

-----------------------------------------------------------------------------
(* The lists of channels and networks. *)

\* A signal that is read, or a push about a network that is.
LEMMA ReadLists ==
    ASSUME Types, ServerInv, NEW q, Rest(q), queue' = Tail(q), SameOutside, NEW c \in Channel,
           NEW list, NEW known, Rows(Kept(list, known)), c \in Kept(list, known) => c \in joined',
           c \in list <=> NetOf[c] \in known /\ (sv[c] = "joined" \/ c \in auto),
           NetOf[c] \in known <=> \/ NetOf[c] \in nets /\ Head(q) = Changed
                                  \/ NetOf[c] \in snets /\ Head(q) # Changed,
           \/ Head(q) = Changed /\ ws'[c] = ws[c]
           \/ /\ \E k \in LifecycleKinds : \E n : Head(q) = Push(k, n)
              /\ ws'[c] = IF ws[c] \in Unlisted /\ NetOf[c] \in snets /\ sv[c] # "joined" THEN ws[c]
                          ELSE IF sv[c] = "joined" /\ NetOf[c] \in snets THEN "joined" ELSE "none"
    PROVE  ChannelInv(queue, c)'
<1>1. q \in Seq(Pushes) /\ q # << >> /\ ChannelInv(q, c) /\ NetOf[c] \in Network
      /\ NetworkInv(q, NetOf[c])
  BY WindowsConstants DEF Rest, Channel
<1>2. sv[c] \in SvStates /\ (sv[c] # "out" \/ c \in auto => NetOf[c] \in snets)
      /\ (sv[c] = "joined" => c \in auto)
  BY DEF Types, ServerInv
<1>3. PICK k, x : Head(q) = Push(k, x) /\ k \in LifecycleKinds \cup {"changed"}
                  /\ (k = "changed" <=> Head(q) = Changed)
  BY PushParts DEF Changed, LifecycleKinds
<1>4. /\ Head(q) \notin Shows(c) /\ Head(q) \notin Asks(c) /\ Head(q) # Push("joined", c)
      /\ Head(q) # Push("declined", c) /\ Head(q) # Push(sv[c], c)
      /\ Head(q) = Changed => Head(q) \notin Others(c) /\ Head(q) \notin Lifecycle(NetOf[c])
      /\ Head(q) \in Others(c) <=> Head(q) \in Lifecycle(NetOf[c])
  <2>1. k \notin StateKinds /\ k # "joined" /\ k # "declined" /\ k # sv[c]
    BY <1>2, <1>3 DEF StateKinds, LifecycleKinds, SvStates
  <2>2. k = "changed" => k \notin LifecycleKinds
    BY DEF LifecycleKinds
  <2> QED
    BY <1>3, <2>1, <2>2, OthersHas, ShowsHas, LifecycleHas, PushParts
<1> DEFINE u == Tail(q)
<1>5. /\ Waits(q, Others(c)) <=> Head(q) \in Others(c) \/ Waits(u, Others(c))
      /\ Waits(q, {Changed}) <=> Head(q) = Changed \/ Waits(u, {Changed})
      /\ Waits(q, Shows(c)) <=> Waits(u, Shows(c))
      /\ Waits(q, Asks(c)) <=> Waits(u, Asks(c))
      /\ Comes(q, c) <=> Comes(u, c)
      /\ Stands(q, Push("declined", c), Shows(c)) <=> Stands(u, Push("declined", c), Shows(c))
      /\ Stands(q, Changed, Shows(c)) <=>
            (Head(q) = Changed /\ ~Waits(u, Shows(c))) \/ Stands(u, Changed, Shows(c))
      /\ Leads(q, Push("joined", c), Others(c), Changed, {}) <=>
            Leads(u, Push("joined", c), Others(c), Changed, {})
      /\ Leads(q, Push("joined", c), Asks(c), Changed, Shows(c)) <=>
            Leads(u, Push("joined", c), Asks(c), Changed, Shows(c))
  BY <1>1, <1>4, ReadChannel
<1>6. /\ ~Waits(q, Others(c)) => (NetOf[c] \in nets <=> NetOf[c] \in snets)
      /\ NetOf[c] \in snets /\ NetOf[c] \notin again => Head(q) \notin Lifecycle(NetOf[c])
  <2>1. Head(q) \in Lifecycle(NetOf[c]) => Waits(q, Lifecycle(NetOf[c]))
    BY <1>1, ReadNetwork
  <2>2. Waits(q, Lifecycle(NetOf[c])) => Waits(q, Others(c))
    BY SetsNested
  <2> QED
    BY <1>1, <2>1, <2>2 DEF NetworkInv
<1> DEFINE next == Kept(list, known)
<1>7. /\ c \in next <=> c \in list \/ (c \in entries /\ ws[c] \in Unlisted /\ NetOf[c] \in known)
      /\ c \in entries' <=> c \in next
      /\ c \in ctopics' <=> c \in next
      /\ c \in next => c \in joined'
  BY DEF Kept, Rows
<1>8. queue' = u
  OBVIOUS
<1> HIDE DEF u, next
<1>9. AskedInv(queue, c)'
  BY <1>1, <1>2, <1>4, <1>5, <1>6, <1>7, <1>8, SameSets DEF ChannelInv, AskedInv, SameOutside, Unlisted
<1>10. JoinedInv(queue, c)'
  BY <1>1, <1>2, <1>4, <1>5, <1>6, <1>7, <1>8, SameSets DEF ChannelInv, JoinedInv, SameOutside
<1>11. EndedInv(queue, c)'
  BY <1>1, <1>2, <1>4, <1>5, <1>6, <1>7, <1>8, SameSets DEF ChannelInv, EndedInv, SameOutside, Unlisted
<1>12. OutInv(queue, c)'
  BY <1>1, <1>2, <1>4, <1>5, <1>6, <1>7, <1>8, SameSets DEF ChannelInv, OutInv, SameOutside, Unlisted
<1> QED
  BY <1>9, <1>10, <1>11, <1>12 DEF ChannelInv

\* A push about the network of the channel that is stale.
LEMMA ReadStale ==
    ASSUME Types, ServerInv, NEW q, Rest(q), queue' = Tail(q), SameOutside, NEW c \in Channel, SameRow(c),
           NEW k \in LifecycleKinds, NEW n, Head(q) = Push(k, n)
    PROVE  ChannelInv(queue, c)'
<1>1. CASE n # NetOf[c]
  BY <1>1, ReadOther DEF LifecycleKinds, StateKinds
<1>2. CASE n = NetOf[c]
  <2>1. q \in Seq(Pushes) /\ q # << >> /\ ChannelInv(q, c) /\ NetOf[c] \in Network
        /\ NetworkInv(q, NetOf[c])
    BY WindowsConstants DEF Rest, Channel
  <2>2. sv[c] \in SvStates
    BY DEF Types
  <2>3. /\ Head(q) # Push("joined", c) /\ Head(q) # Push(sv[c], c)
        /\ Head(q) \in Others(c) /\ Head(q) \in Lifecycle(NetOf[c])
    BY <1>2, <2>2, OthersHas, LifecycleHas, PushParts DEF SvStates, LifecycleKinds
  <2> DEFINE u == Tail(q)
  <2>4. /\ Waits(q, Others(c)) /\ Waits(q, Lifecycle(NetOf[c]))
        /\ Comes(q, c) <=> Comes(u, c)
        /\ Leads(q, Push("joined", c), Others(c), Changed, {}) <=>
              Leads(u, Push("joined", c), Others(c), Changed, {})
    BY <2>1, <2>3, ReadChannel, ReadNetwork
  <2>5. ~(NetOf[c] \in snets /\ NetOf[c] \notin again)
    BY <2>1, <2>4 DEF NetworkInv
  <2>6. queue' = u
    OBVIOUS
  <2> HIDE DEF u
  <2>7. AskedInv(queue, c)'
    BY <2>1, <2>4, <2>6, SameSets DEF ChannelInv, AskedInv, SameOutside
  <2>8. JoinedInv(queue, c)'
    BY <2>1, <2>4, <2>6, SameSets DEF ChannelInv, JoinedInv, SameOutside
  <2>9. EndedInv(queue, c)'
    BY <2>1, <2>4, <2>6, SameSets DEF ChannelInv, EndedInv, SameOutside
  <2>10. OutInv(queue, c)'
    BY <2>5 DEF OutInv, SameOutside
  <2> QED
    BY <2>7, <2>8, <2>9, <2>10 DEF ChannelInv
<1> QED
  BY <1>1, <1>2

\* The networks after a push about one of them.
LEMMA ReadNetworks ==
    ASSUME Types, NEW q, Rest(q), queue' = Tail(q), UNCHANGED <<snets, sconn, again>>,
           NEW n \in Network,
           \* The list of networks was read, or the push does not bear on it.
           \/ nets' = snets /\ conn' = sconn
           \/ /\ nets' = nets /\ conn' = conn
              /\ Head(q) \in Lifecycle(n) => \/ Head(q) = Push("attached", n) /\ n \notin snets
                                             \/ Head(q) = Push("detached", n) /\ n \notin nets
              /\ Head(q) \in NetPushes(n) \ Lifecycle(n) => n \notin nets
           \/ /\ nets' = nets /\ Head(q) \notin Lifecycle(n)
              /\ Head(q) \in NetPushes(n) => n \in nets
              /\ \/ conn'[n] = IF n \in nets /\ n \in snets THEN sconn[n] ELSE conn[n]
                 \/ \E m \in Network, t \in Status : /\ Head(q) = StatusOf(m, t)
                                         /\ conn'[n] = IF n = m THEN t ELSE conn[n]
    PROVE  NetworkInv(queue, n)'
<1>1. q \in Seq(Pushes) /\ q # << >> /\ NetworkInv(q, n)
  BY DEF Rest
<1> DEFINE u == Tail(q)
<1>2. /\ Waits(q, Lifecycle(n)) <=> Head(q) \in Lifecycle(n) \/ Waits(u, Lifecycle(n))
      /\ Waits(q, NetPushes(n)) <=> Head(q) \in NetPushes(n) \/ Waits(u, NetPushes(n))
      /\ Stands(q, Push("attached", n), Lifecycle(n)) <=>
            \/ Head(q) = Push("attached", n) /\ ~Waits(u, Lifecycle(n))
            \/ Stands(u, Push("attached", n), Lifecycle(n))
      /\ Stands(q, Push("detached", n), Lifecycle(n)) <=>
            \/ Head(q) = Push("detached", n) /\ ~Waits(u, Lifecycle(n))
            \/ Stands(u, Push("detached", n), Lifecycle(n))
      /\ \A t : Stands(q, StatusOf(n, t), NetPushes(n)) <=>
            \/ Head(q) = StatusOf(n, t) /\ ~Waits(u, NetPushes(n))
            \/ Stands(u, StatusOf(n, t), NetPushes(n))
  BY <1>1, ReadNetwork
<1>3. /\ Lifecycle(n)' = Lifecycle(n) /\ NetPushes(n)' = NetPushes(n)
      /\ \A t : StatusOf(n, t)' = StatusOf(n, t)
  BY DEF Lifecycle, NetPushes, StatusOf
<1>4. Waits(u, Lifecycle(n)) => Waits(u, NetPushes(n))
  BY DEF Waits, NetPushes
<1>5. Head(q) \in Lifecycle(n) => Head(q) \in NetPushes(n)
  BY DEF NetPushes
<1>6. \A m, t : t \in Status /\ Head(q) = StatusOf(m, t) /\ Head(q) \in NetPushes(n) => m = n
  <2>1. ASSUME NEW m, NEW t, t \in Status, StatusOf(m, t) \in NetPushes(n) PROVE m = n
    <3>1. \E s \in Status : [net |-> m, to |-> t] = [net |-> n, to |-> s]
      BY <2>1, NetPushesHas DEF StatusOf, LifecycleKinds
    <3> QED
      BY <3>1
  <2> QED
    BY <2>1
<1>7. queue' = u
  OBVIOUS
<1> HIDE DEF u
<1>8. CASE nets' = snets /\ conn' = sconn
  BY <1>1, <1>2, <1>3, <1>7, <1>8 DEF NetworkInv
<1>9. CASE /\ nets' = nets /\ conn' = conn
           /\ Head(q) \in Lifecycle(n) => \/ Head(q) = Push("attached", n) /\ n \notin snets
                                          \/ Head(q) = Push("detached", n) /\ n \notin nets
           /\ Head(q) \in NetPushes(n) \ Lifecycle(n) => n \notin nets
  BY <1>1, <1>2, <1>3, <1>4, <1>5, <1>7, <1>9 DEF NetworkInv
<1>10. CASE /\ nets' = nets /\ Head(q) \notin Lifecycle(n)
            /\ Head(q) \in NetPushes(n) => n \in nets
            /\ conn'[n] = IF n \in nets /\ n \in snets THEN sconn[n] ELSE conn[n]
  BY <1>1, <1>2, <1>3, <1>4, <1>5, <1>7, <1>10 DEF NetworkInv
<1>11. CASE /\ nets' = nets /\ Head(q) \notin Lifecycle(n)
            /\ Head(q) \in NetPushes(n) => n \in nets
            /\ \E m \in Network, t \in Status : /\ Head(q) = StatusOf(m, t)
                                    /\ conn'[n] = IF n = m THEN t ELSE conn[n]
  <2>1. PICK m \in Network, t \in Status : Head(q) = StatusOf(m, t) /\ conn'[n] = IF n = m THEN t ELSE conn[n]
    BY <1>11
  <2>2. CASE m = n
    BY <1>1, <1>2, <1>3, <1>4, <1>5, <1>7, <1>11, <2>1, <2>2 DEF NetworkInv
  <2>3. CASE m # n
    <3>1. Head(q) \notin NetPushes(n)
      BY <1>6, <2>1, <2>3
    <3> QED
      BY <1>1, <1>2, <1>3, <1>4, <1>5, <1>7, <1>11, <2>1, <2>3, <3>1 DEF NetworkInv
  <2> QED
    BY <2>2, <2>3
<1> QED
  BY <1>8, <1>9, <1>10, <1>11

-----------------------------------------------------------------------------
(* The handlers keep the client on its way to what Grappa holds. *)

\* What Synced says once a push is read.
Led == /\ \A n \in Network : NetworkInv(queue, n)
       /\ \A c \in Channel : ChannelInv(queue, c)

\* What a handler leaves alone.
LEMMA StaysFacts ==
    ASSUME OutsideStays
    PROVE  SameOutside /\ UNCHANGED <<session, sconn>>
  BY DEF OutsideStays, SameOutside, server

\* A report of a window.
LEMMA ReportSynced ==
    ASSUME Types, ServerInv, NEW k \in StateKinds, Waiting(k), NEW q, Rest(q), queue' = Tail(q),
           OutsideStays, NetworkStays, RowAfter(k, Of), \A c \in Channel \ {Of} : SameRow(c)
    PROVE  Led'
<1>1. Head(q) = Push(k, Of) /\ Of \in Channel
  BY WaitingFacts DEF Rest
<1>2. SameOutside /\ UNCHANGED <<sconn, nets, conn>>
  BY StaysFacts DEF NetworkStays, networks
<1>3. ASSUME NEW n \in Network PROVE NetworkInv(queue, n)'
  <2>1. k \notin LifecycleKinds \cup {"welcome", "status"}
    BY DEF StateKinds, LifecycleKinds
  <2> QED
    BY <1>1, <1>2, <2>1, ReadOtherNetwork DEF SameOutside
<1>4. ASSUME NEW c \in Channel PROVE ChannelInv(queue, c)'
  <2>1. CASE c = Of
    <3> DEFINE d == Of
    <3>1. Head(q) = Push(k, d) /\ d \in Channel /\ c = d /\ RowAfter(k, d)
      BY <1>1, <2>1
    <3> HIDE DEF d
    <3>2. Head(q) = Push(k, c) /\ RowAfter(k, c)
      BY <3>1
    <3> QED
      BY <1>2, <3>2, ReadOwn
  <2>2. CASE c # Of
    <3>1. SameRow(c)
      BY <2>2
    <3>2. k \notin LifecycleKinds /\ k # "changed"
      BY DEF StateKinds, LifecycleKinds
    <3> QED
      BY <1>1, <1>2, <2>2, <3>1, <3>2, ReadOther
  <2> QED
    BY <2>1, <2>2
<1> QED
  BY <1>3, <1>4 DEF Led

\* The six reports of a window.
LEMMA ReportsLed ==
    ASSUME Types, ServerInv, Synced, session, ~missed,
           \/ WindowPending \/ WindowInvited \/ InviteDeclined
           \/ WindowJoined \/ JoinFailed \/ WindowKicked
    PROVE  Led'
<1>1. ASSUME NEW k \in StateKinds, Waiting(k), OutsideStays, NetOf[Of] \notin nets, Ignored,
             k \in {"pending", "invited", "declined"}
      PROVE  Led'
  <2>1. Rest(queue) /\ queue' = Tail(queue) /\ NetworkStays
    BY <1>1, WaitingFacts, ReadRest DEF Ignored, Read, NetworkStays
  <2>2. \A c : SameRow(c)
    BY <1>1 DEF Ignored, books, SameRow
  <2>3. RowAfter(k, Of)
    BY <1>1, <2>2 DEF RowAfter
  <2> QED
    BY <1>1, <2>1, <2>2, <2>3, ReportSynced
<1>2. ASSUME NEW k \in StateKinds, Waiting(k), OutsideStays, NetworkStays,
             NEW leave, NEW join \in SUBSET Channel, Topics(Tail(queue), leave, join),
             RowAfter(k, Of), \A c \in Channel \ {Of} : SameRow(c)
      PROVE  Led'
  <2>1. queue # << >>
    BY <1>2, WaitingFacts
  <2>2. PICK t : Quiet(t) /\ queue' = Tail(queue \o t)
    BY <1>2, <2>1, TopicsQueue
  <2>3. Rest(queue \o t)
    BY <2>1, <2>2, QuietRest
  <2> QED
    BY <1>2, <2>2, <2>3, ReportSynced
<1>3. ASSUME NEW k \in StateKinds, Waiting(k), OutsideStays, NetworkStays, Read,
             RowAfter(k, Of), \A c \in Channel \ {Of} : SameRow(c)
      PROVE  Led'
  <2>1. Rest(queue) /\ queue' = Tail(queue)
    BY <1>3, WaitingFacts, ReadRest DEF Read
  <2> QED
    BY <1>3, <2>1, ReportSynced
<1>4. /\ {"pending", "invited", "declined", "joined", "failed", "kicked"} \subseteq StateKinds
      /\ \A k \in StateKinds : Waiting(k) => Of \in Channel
      /\ ws \in [Channel -> Unlisted \cup {"none", "joined"}]
  BY WaitingFacts DEF StateKinds, Types, TypeOK
<1>5. CASE WindowPending
  <2>1. Waiting("pending") /\ OutsideStays /\ Of \in Channel
    BY <1>4, <1>5 DEF WindowPending
  <2>2. CASE NetOf[Of] \notin nets /\ Ignored
    BY <1>1, <1>4, <2>1, <2>2
  <2>3. CASE /\ NetOf[Of] \in nets
             /\ SetPending(Of) /\ Upsert(Of) /\ Register(Of)
             /\ Topics(Tail(queue), {}, {Of} \ joined)
             /\ NetworkStays /\ UNCHANGED <<view, missed>>
    <3>1. RowAfter("pending", Of) /\ \A c \in Channel \ {Of} : SameRow(c)
      BY <1>4, <2>1, <2>3 DEF SetPending, Upsert, Register, RowAfter, SameRow
    <3> QED
      BY <1>2, <1>4, <2>1, <2>3, <3>1
  <2> QED
    BY <1>5, <2>2, <2>3 DEF WindowPending
<1>6. CASE WindowInvited
  <2>1. Waiting("invited") /\ OutsideStays /\ Of \in Channel
    BY <1>4, <1>6 DEF WindowInvited
  <2>2. CASE NetOf[Of] \notin nets /\ Ignored
    BY <1>1, <1>4, <2>1, <2>2
  <2>3. CASE /\ NetOf[Of] \in nets
             /\ SetInvited(Of) /\ Upsert(Of) /\ Register(Of)
             /\ Topics(Tail(queue), {}, {Of} \ joined)
             /\ NetworkStays /\ UNCHANGED <<view, missed>>
    <3>1. RowAfter("invited", Of) /\ \A c \in Channel \ {Of} : SameRow(c)
      BY <1>4, <2>1, <2>3 DEF SetInvited, Upsert, Register, RowAfter, SameRow
    <3> QED
      BY <1>2, <1>4, <2>1, <2>3, <3>1
  <2> QED
    BY <1>6, <2>2, <2>3 DEF WindowInvited
<1>7. CASE InviteDeclined
  <2>1. Waiting("declined") /\ OutsideStays /\ Of \in Channel
    BY <1>4, <1>7 DEF InviteDeclined
  <2>2. CASE NetOf[Of] \notin nets /\ Ignored
    BY <1>1, <1>4, <2>1, <2>2
  <2>3. CASE /\ NetOf[Of] \in nets
             /\ ClearWindow(Of) /\ entries' = entries \ {Of}
             /\ ctopics' = ctopics \ {Of} /\ joined' = joined \ {Of}
             /\ Topics(Tail(queue), {Of}, {})
             /\ NetworkStays /\ UNCHANGED <<view, missed>>
    <3>1. RowAfter("declined", Of) /\ \A c \in Channel \ {Of} : SameRow(c)
      BY <1>4, <2>1, <2>3 DEF ClearWindow, RowAfter, SameRow
    <3> QED
      BY <1>2, <1>4, <2>1, <2>3, <3>1
  <2> QED
    BY <1>7, <2>2, <2>3 DEF InviteDeclined
<1>8. CASE WindowJoined
  <2>1. Waiting("joined") /\ OutsideStays /\ Of \in Channel /\ NetworkStays /\ Read
    BY <1>4, <1>8 DEF WindowJoined
  <2>2. RowAfter("joined", Of) /\ \A c \in Channel \ {Of} : SameRow(c)
    BY <1>4, <1>8, <2>1 DEF WindowJoined, SetJoined, Upsert, RowAfter, SameRow
  <2> QED
    BY <1>3, <1>4, <2>1, <2>2
<1>9. CASE JoinFailed
  <2>1. Waiting("failed") /\ OutsideStays /\ Of \in Channel /\ NetworkStays /\ Read
    BY <1>4, <1>9 DEF JoinFailed
  <2>2. RowAfter("failed", Of) /\ \A c \in Channel \ {Of} : SameRow(c)
    BY <1>4, <1>9, <2>1 DEF JoinFailed, SetFailed, Upsert, RowAfter, SameRow
  <2> QED
    BY <1>3, <1>4, <2>1, <2>2
<1>10. CASE WindowKicked
  <2>1. Waiting("kicked") /\ OutsideStays /\ Of \in Channel /\ NetworkStays /\ Read
    BY <1>4, <1>10 DEF WindowKicked
  <2>2. RowAfter("kicked", Of) /\ \A c \in Channel \ {Of} : SameRow(c)
    BY <1>4, <1>10, <2>1 DEF WindowKicked, SetKicked, Upsert, RowAfter, SameRow
  <2> QED
    BY <1>3, <1>4, <2>1, <2>2
<1> QED
  BY <1>5, <1>6, <1>7, <1>8, <1>9, <1>10

\* A push that is about no channel.
LEMMA RowsLed ==
    ASSUME Types, NEW k, Waiting(k), NEW q, Rest(q), queue' = Tail(q), OutsideStays,
           UNCHANGED books, k \notin StateKinds \cup {"changed"} \cup LifecycleKinds
    PROVE  \A c \in Channel : ChannelInv(queue, c)'
<1>1. Head(q) = Push(k, Of)
  BY WaitingFacts DEF Rest
<1>2. SameOutside
  BY StaysFacts
<1> SUFFICES ASSUME NEW c \in Channel
             PROVE  ChannelInv(queue, c)'
  OBVIOUS
<1>3. SameRow(c)
  BY DEF books, SameRow
<1> QED
  BY <1>1, <1>2, <1>3, ReadOther

\* The roster and the state of the socket.
LEMMA PlainLed ==
    ASSUME Types, Synced, session, ~missed,
           NEW k \in {"seeded", "connecting", "lost", "up"}, Waiting(k), OutsideStays, Read,
           UNCHANGED <<books, nets, conn>>
    PROVE  Led'
<1>1. Rest(queue) /\ queue' = Tail(queue) /\ Head(queue) = Push(k, Of)
  BY WaitingFacts, ReadRest DEF Read
<1>2. k \notin StateKinds \cup {"changed"} \cup LifecycleKinds /\ k \notin LifecycleKinds \cup {"welcome", "status"}
  BY DEF StateKinds, LifecycleKinds
<1>3. \A c \in Channel : ChannelInv(queue, c)'
  BY <1>1, <1>2, RowsLed
<1>4. UNCHANGED <<snets, sconn, again, nets, conn>>
  BY StaysFacts DEF SameOutside
<1>5. \A n \in Network : NetworkInv(queue, n)'
  BY <1>1, <1>2, <1>4, ReadOtherNetwork
<1> QED
  BY <1>3, <1>5 DEF Led

\* The lists of the known networks are read.
LEMMA ChangedLed ==
    ASSUME Types, ServerInv, Synced, session, ~missed, ChannelsChanged
    PROVE  Led'
<1>1. Waiting("changed") /\ OutsideStays /\ NetworkStays /\ queue # << >>
      /\ Head(queue) = Changed /\ Head(queue) = Push("changed", Of)
  BY WaitingFacts DEF ChannelsChanged, Changed
<1> DEFINE list == {c \in BootRows : NetOf[c] \in nets}
           next == Kept(list, nets)
<1>2. Reconcile(next) /\ Topics(Tail(queue), Leaves(next), Joins(next)) /\ UNCHANGED ws
  BY DEF ChannelsChanged
<1>3. next \subseteq Channel /\ Joins(next) \subseteq Channel
  <2>1. list \in SUBSET Channel
    BY DEF BootRows
  <2> HIDE DEF list
  <2>2. next \in SUBSET Channel
    BY <2>1, KeptTypes
  <2> HIDE DEF next
  <2> QED
    BY <1>2, <2>2, ReconcileTypes DEF Reconcile
<1>4. SameOutside /\ UNCHANGED <<snets, sconn, again, nets, conn>>
  BY <1>1, StaysFacts DEF SameOutside, NetworkStays, networks
<1>5. PICK t : Quiet(t) /\ queue' = Tail(queue \o t)
  <2> HIDE DEF next
  <2> QED
    BY <1>1, <1>2, <1>3, TopicsQueue
<1> DEFINE q == queue \o t
<1>6. Rest(q) /\ queue' = Tail(q)
  BY <1>1, <1>5, QuietRest
<1>7. Head(q) = Head(queue)
  BY <1>6 DEF Rest
<1> HIDE DEF q
<1>8. ASSUME NEW c \in Channel PROVE ChannelInv(queue, c)'
  <2>1. NetOf[c] \in nets => (sv[c] = "joined" \/ c \in auto => NetOf[c] \in snets)
    <3>1. sv[c] # "out" \/ c \in auto => NetOf[c] \in snets
      BY DEF ServerInv
    <3> QED
      BY <3>1
  <2>2. c \in list <=> NetOf[c] \in nets /\ (sv[c] = "joined" \/ c \in auto)
    BY <2>1 DEF BootRows
  <2>3. Rows(next) /\ (c \in next => c \in joined')
    BY <1>2 DEF Reconcile, JoinedAfter
  <2> HIDE DEF list
  <2> QED
    BY <1>1, <1>4, <1>6, <1>7, <1>2, <2>2, <2>3, ReadLists
<1>9. ASSUME NEW n \in Network PROVE NetworkInv(queue, n)'
  <2>1. "changed" \notin LifecycleKinds \cup {"welcome", "status"}
    BY DEF LifecycleKinds
  <2> QED
    BY <1>1, <1>4, <1>6, <1>7, <2>1, ReadOtherNetwork
<1> QED
  BY <1>8, <1>9 DEF Led

\* A network was attached or detached.
LEMMA LifecycleLed ==
    ASSUME Types, ServerInv, Synced, session, ~missed, NetworkLifecycle
    PROVE  Led'
<1>1. PICK k \in LifecycleKinds :
         /\ Waiting(k) /\ OutsideStays
         /\ \/ Stale(k, Of) /\ Ignored
            \/ ~Stale(k, Of) /\ RestRefresh
  BY DEF NetworkLifecycle, LifecycleKinds
<1>2. Head(queue) = Push(k, Of) /\ Of \in Network /\ queue # << >>
  BY <1>1, WaitingFacts
<1>3. SameOutside /\ UNCHANGED <<snets, sconn, again>>
  BY <1>1, StaysFacts DEF SameOutside
<1>4. CASE Stale(k, Of) /\ Ignored
  <2>1. Rest(queue) /\ queue' = Tail(queue) /\ UNCHANGED <<nets, conn>>
    BY <1>2, <1>4, ReadRest DEF Ignored, Read, networks
  <2>2. \A c \in Channel : SameRow(c)
    BY <1>4 DEF Ignored, books, SameRow
  <2>3. \A c \in Channel : ChannelInv(queue, c)'
    BY <1>2, <1>3, <2>1, <2>2, ReadStale
  <2>4. ASSUME NEW n \in Network PROVE NetworkInv(queue, n)'
    <3>1. Head(queue) \in Lifecycle(n) => n = Of
      BY <1>2, LifecycleHas
    <3>2. Head(queue) \in Lifecycle(n) => \/ Head(queue) = Push("attached", n) /\ n \notin snets
                                          \/ Head(queue) = Push("detached", n) /\ n \notin nets
      BY <1>2, <1>4, <3>1 DEF Stale, LifecycleKinds, BootNets
    <3>3. Head(queue) \notin NetPushes(n) \ Lifecycle(n)
      BY <1>2, NetPushesHas, LifecycleHas DEF LifecycleKinds
    <3> QED
      BY <1>3, <2>1, <3>2, <3>3, ReadNetworks
  <2> QED
    BY <2>3, <2>4 DEF Led
<1>5. CASE ~Stale(k, Of) /\ RestRefresh
  <2> DEFINE next == Kept(BootRows, BootNets)
             lost == Obsolete(JoinedAfter(next))
  <2>1. /\ Rows(next) /\ joined' = JoinedAfter(next) \ lost
        /\ Topics(Tail(queue), Leaves(next) \cup lost, Joins(next))
        /\ ws' = [c \in Channel |->
                    IF ws[c] \in Unlisted /\ NetOf[c] \in BootNets /\ BootStates[c] = "none"
                    THEN ws[c] ELSE BootStates[c]]
        /\ nets' = snets /\ conn' = sconn
    BY <1>5 DEF RestRefresh, BootNets
  <2>2. next \subseteq Channel /\ Joins(next) \subseteq Channel
    <3>1. next \in SUBSET Channel
      BY KeptTypes DEF BootRows
    <3> HIDE DEF next
    <3> QED
      BY <2>1, <3>1, ReconcileTypes
  <2>3. PICK t : Quiet(t) /\ queue' = Tail(queue \o t)
    <3> HIDE DEF next, lost
    <3> QED
      BY <1>2, <2>1, <2>2, TopicsQueue
  <2> DEFINE q == queue \o t
  <2>4. Rest(q) /\ queue' = Tail(q)
    BY <1>2, <2>3, QuietRest
  <2>5. Head(q) = Head(queue)
    BY <2>4 DEF Rest
  <2> HIDE DEF q
  <2>6. Head(q) # Changed
    BY <1>2, <2>5, PushParts DEF Changed, LifecycleKinds
  <2>7. ASSUME NEW c \in Channel PROVE ChannelInv(queue, c)'
    <3>1. c \in BootRows <=> NetOf[c] \in BootNets /\ (sv[c] = "joined" \/ c \in auto)
      BY DEF BootRows, BootNets
    <3>2. ws'[c] = IF ws[c] \in Unlisted /\ NetOf[c] \in snets /\ sv[c] # "joined" THEN ws[c]
                   ELSE IF sv[c] = "joined" /\ NetOf[c] \in snets THEN "joined" ELSE "none"
      BY <2>1 DEF BootStates, BootNets, Unlisted
    <3>3. \E l \in LifecycleKinds : \E n : Head(q) = Push(l, n)
      BY <1>2, <2>5
    <3>4. NetOf[c] \in BootNets <=> NetOf[c] \in snets
      BY DEF BootNets
    <3>5. c \in next => c \in joined'
      BY <2>1, <3>1 DEF Kept, JoinedAfter, Obsolete
    <3> QED
      BY <1>3, <2>1, <2>4, <2>6, <3>1, <3>2, <3>3, <3>4, <3>5, ReadLists
  <2>8. ASSUME NEW n \in Network PROVE NetworkInv(queue, n)'
    BY <1>3, <2>1, <2>4, ReadNetworks
  <2> QED
    BY <2>7, <2>8 DEF Led
<1> QED
  BY <1>1, <1>4, <1>5

\* The status of a network.
LEMMA StatusLed ==
    ASSUME Types, Synced, session, ~missed, ~missed', ConnectionState \/ ConnectionProgress
    PROVE  Led'
<1>1. CASE ConnectionState
  <2>1. Waiting("status") /\ OutsideStays
    BY <1>1 DEF ConnectionState
  <2>2. Head(queue) = Push("status", Of) /\ Of \in [net : Network, to : Status] /\ queue # << >>
    BY <2>1, WaitingFacts
  <2>3. Rest(queue) /\ queue' = Tail(queue) /\ UNCHANGED <<books, nets>>
    BY <1>1, <2>2, ReadRest DEF ConnectionState, Ignored, Read, networks
  <2>4. SameOutside /\ UNCHANGED <<snets, sconn, again>>
    BY <2>1, StaysFacts DEF SameOutside
  <2>5. \A c \in Channel : ChannelInv(queue, c)'
    <3>1. "status" \notin StateKinds \cup {"changed"} \cup LifecycleKinds
      BY DEF StateKinds, LifecycleKinds
    <3> QED
      BY <2>1, <2>3, <3>1, RowsLed
  <2> DEFINE m == Of.net
             s == Of.to
  <2>6. Head(queue) = StatusOf(m, s) /\ m \in Network /\ s \in Status
    BY <2>2 DEF StatusOf
  <2>7. ASSUME NEW n \in Network PROVE NetworkInv(queue, n)'
    <3>1. Head(queue) \notin Lifecycle(n)
      BY <2>2, LifecycleHas DEF LifecycleKinds
    <3>2. Head(queue) \in NetPushes(n) => n = m
      BY <2>2, <2>6, NetPushesHas DEF LifecycleKinds
    <3>3. CASE m \notin nets /\ Ignored
      <4>1. UNCHANGED conn
        BY <3>3 DEF Ignored, networks
      <4> QED
        BY <2>3, <2>4, <3>1, <3>2, <3>3, <4>1, ReadNetworks
    <3>4. CASE m \in nets /\ \E read \in BOOLEAN :
                 Recorded(IF read THEN [l \in Network |-> IF l \in snets THEN sconn[l] ELSE conn[l]]
                          ELSE [conn EXCEPT ![m] = s])
      <4>1. \/ conn'[n] = IF n \in nets /\ n \in snets THEN sconn[n] ELSE conn[n]
            \/ conn'[n] = IF n = m THEN s ELSE conn[n]
        <5>1. conn \in [Network -> Status]
          BY DEF Types, TypeOK
        <5>2. PICK read \in BOOLEAN :
                 Recorded(IF read THEN [l \in Network |-> IF l \in snets THEN sconn[l] ELSE conn[l]]
                          ELSE [conn EXCEPT ![m] = s])
          BY <3>4
        <5> DEFINE told == IF read THEN [l \in Network |-> IF l \in snets THEN sconn[l] ELSE conn[l]]
                           ELSE [conn EXCEPT ![m] = s]
        <5>3. conn' = [l \in Network |-> IF l \in nets THEN told[l] ELSE conn[l]]
          BY <5>2 DEF Recorded
        <5>4. CASE read
          BY <5>3, <5>4
        <5>5. CASE ~read
          BY <3>4, <5>1, <5>3, <5>5
        <5> QED
          BY <5>4, <5>5
      <4>2. \/ conn'[n] = IF n \in nets /\ n \in snets THEN sconn[n] ELSE conn[n]
            \/ \E l \in Network, t \in Status :
                  /\ Head(queue) = StatusOf(l, t)
                  /\ conn'[n] = IF n = l THEN t ELSE conn[n]
        BY <2>6, <4>1
      <4>3. nets' = nets /\ (Head(queue) \in NetPushes(n) => n \in nets)
        BY <2>3, <3>2, <3>4
      <4> QED
        BY <2>3, <2>4, <3>1, <4>2, <4>3, ReadNetworks
    <3> QED
      BY <1>1, <3>3, <3>4 DEF ConnectionState
  <2> QED
    BY <2>5, <2>7 DEF Led
<1>2. CASE /\ Waiting("connecting") /\ OutsideStays /\ Read /\ UNCHANGED <<books, view, nets, conn, missed>>
  BY <1>2, PlainLed
<1>3. CASE /\ Waiting("welcome") /\ OutsideStays /\ Read /\ UNCHANGED <<books, nets>>
           /\ \E read \in BOOLEAN :
                /\ IF read /\ Of \in nets
                   THEN Recorded([n \in Network |-> IF n \in snets THEN sconn[n] ELSE conn[n]])
                   ELSE UNCHANGED <<conn, view>>
                /\ missed' = (missed \/ ~read)
  <2>1. Head(queue) = Push("welcome", Of) /\ Of \in Network /\ queue # << >>
    BY <1>3, WaitingFacts DEF LifecycleKinds
  <2>2. Rest(queue) /\ queue' = Tail(queue) /\ UNCHANGED nets
    BY <1>3, <2>1, ReadRest DEF Read
  <2>3. SameOutside /\ UNCHANGED <<snets, sconn, again>>
    BY <1>3, StaysFacts DEF SameOutside
  <2>4. \A c \in Channel : ChannelInv(queue, c)'
    <3>1. "welcome" \notin StateKinds \cup {"changed"} \cup LifecycleKinds
      BY DEF StateKinds, LifecycleKinds
    <3> QED
      BY <1>3, <2>2, <3>1, RowsLed
  <2>5. IF Of \in nets
        THEN Recorded([n \in Network |-> IF n \in snets THEN sconn[n] ELSE conn[n]])
        ELSE UNCHANGED conn
    BY <1>3
  <2>6. ASSUME NEW n \in Network PROVE NetworkInv(queue, n)'
    <3>1. Head(queue) \notin Lifecycle(n)
      BY <2>1, LifecycleHas DEF LifecycleKinds
    <3>2. Head(queue) \in NetPushes(n) => n = Of
      BY <2>1, NetPushesHas DEF LifecycleKinds
    <3>3. CASE Of \notin nets
      BY <2>2, <2>3, <2>5, <3>1, <3>2, <3>3, ReadNetworks
    <3>4. CASE Of \in nets
      <4>1. conn'[n] = IF n \in nets /\ n \in snets THEN sconn[n] ELSE conn[n]
        BY <2>5, <3>4 DEF Recorded
      <4> QED
        BY <2>2, <2>3, <3>1, <3>2, <3>4, <4>1, ReadNetworks
    <3> QED
      BY <3>3, <3>4
  <2> QED
    BY <2>4, <2>6 DEF Led
<1> QED
  BY <1>1, <1>2, <1>3 DEF ConnectionProgress

\* Every handler of a push keeps the client on its way.
LEMMA FramesSynced ==
    ASSUME Types, ServerInv, Synced, Frames
    PROVE  Synced'
<1>1. session
  BY DEF Frames, Waiting, WindowPending, WindowInvited, InviteDeclined, WindowJoined, JoinFailed,
         WindowKicked, MembersSeeded, ChannelsChanged, ChannelsNotRead, NetworkLifecycle,
         LifecycleNotRead, ConnectionState, ConnectionProgress, SessionLost, SessionConnected
<1>2. CASE WindowPending \/ WindowInvited \/ InviteDeclined \/ WindowJoined \/ JoinFailed \/ WindowKicked
  <2>1. missed' = missed
    BY <1>2 DEF WindowPending, WindowInvited, InviteDeclined, WindowJoined, JoinFailed, WindowKicked, Ignored
  <2> QED
    BY <1>1, <1>2, <2>1, ReportsLed DEF Synced, Led
<1>3. CASE MembersSeeded \/ SessionLost \/ SessionConnected
  <2>1. PICK k \in {"seeded", "connecting", "lost", "up"} :
           Waiting(k) /\ OutsideStays /\ Read /\ UNCHANGED <<books, nets, conn, missed>>
    BY <1>3 DEF MembersSeeded, SessionLost, SessionConnected, NetworkStays, networks
  <2> QED
    BY <1>1, <2>1, PlainLed DEF Synced, Led
<1>4. CASE ChannelsChanged
  <2>1. missed' = missed
    BY <1>4 DEF ChannelsChanged
  <2> QED
    BY <1>1, <1>4, <2>1, ChangedLed DEF Synced, Led
<1>5. CASE ChannelsNotRead \/ LifecycleNotRead
  <2>1. missed' = TRUE
    BY <1>5 DEF ChannelsNotRead, LifecycleNotRead
  <2> QED
    BY <2>1 DEF Synced
<1>6. CASE NetworkLifecycle
  <2>1. missed' = missed
    BY <1>6 DEF NetworkLifecycle, Ignored
  <2> QED
    BY <1>1, <1>6, <2>1, LifecycleLed DEF Synced, Led
<1>7. CASE ConnectionState \/ ConnectionProgress
  <2>1. ~missed' => ~missed
    BY <1>7 DEF ConnectionState, ConnectionProgress, Ignored
  <2> QED
    BY <1>1, <1>7, <2>1, StatusLed DEF Synced, Led
<1> QED
  BY <1>2, <1>3, <1>4, <1>5, <1>6, <1>7 DEF Frames

-----------------------------------------------------------------------------
(* What a command, or Grappa, adds to the queue. *)

\* The row of the channel, and what Grappa holds of it, stay.
KeepsRow(c) ==
    /\ ws'[c] = ws[c] /\ (c \in entries' <=> c \in entries)
    /\ c \in entries /\ c \in ctopics => c \in ctopics'
    /\ c \in entries /\ c \in joined => c \in joined'
    /\ c \in held => c \in held' \/ link' = "up"
    /\ c \in parts => c \in parts'

KeepsServer(c) ==
    /\ sv'[c] = sv[c] /\ (c \in auto' <=> c \in auto)
    /\ NetOf[c] \in snets' <=> NetOf[c] \in snets
    /\ NetOf[c] \in again' <=> NetOf[c] \in again

\* Nothing is added.
LEMMA EmptyTail ==
    ASSUME NEW q \in Seq(Pushes)
    PROVE  q \o << >> = q /\ << >> \in Seq(Pushes) /\ \A S : ~Waits(<< >>, S)
  BY DEF Waits

\* Pushes that are not about the channel.
LEMMA AsideChannel ==
    ASSUME Types, NEW q \in Seq(Pushes), NEW t \in Seq(Pushes), NEW c \in Channel,
           ChannelInv(q, c), queue' = q \o t, ~Waits(t, Others(c)), ~Waits(t, Shows(c)),
           KeepsRow(c), KeepsServer(c), link = "up" \/ t = << >>, link' \in {link, "down"}
    PROVE  ChannelInv(queue, c)'
<1> DEFINE u == q \o t
<1>1. ~Waits(t, Asks(c)) /\ ~Waits(t, {})
  BY SetsNested DEF Waits
<1>2. /\ Waits(u, Others(c)) <=> Waits(q, Others(c))
      /\ Waits(q, {Changed}) => Waits(u, {Changed})
      /\ Waits(u, Shows(c)) <=> Waits(q, Shows(c))
      /\ Waits(u, Asks(c)) <=> Waits(q, Asks(c))
  <2>1. \A S : Waits(u, S) <=> Waits(q, S) \/ Waits(t, S)
    BY CatWaits
  <2> QED
    BY <1>1, <2>1
<1>3. /\ Comes(q, c) => Comes(u, c)
      /\ Stands(q, Push("declined", c), Shows(c)) => Stands(u, Push("declined", c), Shows(c))
      /\ Stands(q, Changed, Shows(c)) => Stands(u, Changed, Shows(c))
  BY CatStands DEF Comes
<1>4. /\ Leads(q, Push("joined", c), Others(c), Changed, {}) =>
            Leads(u, Push("joined", c), Others(c), Changed, {})
      /\ Leads(q, Push("joined", c), Asks(c), Changed, Shows(c)) =>
            Leads(u, Push("joined", c), Asks(c), Changed, Shows(c))
  BY <1>1, CatLeads
<1>5. q = << >> /\ t = << >> => u = << >>
  BY EmptyTail
<1>6. /\ Others(c)' = Others(c) /\ Shows(c)' = Shows(c) /\ Asks(c)' = Asks(c)
      /\ \A p : Comes(p, c)' <=> Comes(p, c)
  <2>1. Others(c)' = Others(c) /\ Shows(c)' = Shows(c) /\ Asks(c)' = Asks(c)
    BY DEF KeepsServer, Others, Shows, Asks
  <2> QED
    BY <2>1 DEF KeepsServer, Comes
<1>7. queue' = u
  OBVIOUS
<1>8. link \in {"up", "down"}
  BY DEF Types, TypeOK
<1> HIDE DEF u
<1>9. AskedInv(queue, c)'
  BY <1>2, <1>3, <1>6, <1>7, <1>8 DEF ChannelInv, AskedInv, KeepsRow, KeepsServer
<1>10. JoinedInv(queue, c)'
  BY <1>2, <1>4, <1>6, <1>7 DEF ChannelInv, JoinedInv, KeepsRow, KeepsServer
<1>11. EndedInv(queue, c)'
  BY <1>2, <1>3, <1>5, <1>6, <1>7, <1>8 DEF ChannelInv, EndedInv, KeepsRow, KeepsServer
<1>12. OutInv(queue, c)'
  BY <1>2, <1>3, <1>4, <1>6, <1>7 DEF ChannelInv, OutInv, KeepsRow, KeepsServer
<1> QED
  BY <1>9, <1>10, <1>11, <1>12 DEF ChannelInv

\* Pushes that are not about the network.
LEMMA AsideNetwork ==
    ASSUME Types, NEW q \in Seq(Pushes), NEW t \in Seq(Pushes), NEW n \in Network,
           NetworkInv(q, n), queue' = q \o t, ~Waits(t, NetPushes(n)), UNCHANGED <<nets, conn>>,
           n \in snets' <=> n \in snets, sconn'[n] = sconn[n], n \in again' <=> n \in again
    PROVE  NetworkInv(queue, n)'
<1> DEFINE u == q \o t
<1>1. ~Waits(t, Lifecycle(n))
  BY DEF Waits, NetPushes
<1>2. /\ Waits(u, Lifecycle(n)) <=> Waits(q, Lifecycle(n))
      /\ Waits(u, NetPushes(n)) <=> Waits(q, NetPushes(n))
  BY <1>1, CatWaits
<1>3. /\ ~Stands(t, Push("attached", n), Lifecycle(n))
      /\ ~Stands(t, Push("detached", n), Lifecycle(n))
      /\ \A s \in Status : ~Stands(t, StatusOf(n, s), NetPushes(n))
  BY <1>1 DEF Waits, Stands, Lifecycle, LifecycleKinds, NetPushes
<1>4. /\ Stands(u, Push("attached", n), Lifecycle(n)) => Stands(q, Push("attached", n), Lifecycle(n))
      /\ Stands(u, Push("detached", n), Lifecycle(n)) => Stands(q, Push("detached", n), Lifecycle(n))
      /\ \A s \in Status : Stands(u, StatusOf(n, s), NetPushes(n)) => Stands(q, StatusOf(n, s), NetPushes(n))
  BY <1>3, CatStands
<1>5. /\ Lifecycle(n)' = Lifecycle(n) /\ NetPushes(n)' = NetPushes(n)
      /\ \A s : StatusOf(n, s)' = StatusOf(n, s)
  BY DEF Lifecycle, NetPushes, StatusOf
<1>6. queue' = u
  OBVIOUS
<1> HIDE DEF u
<1> QED
  BY <1>2, <1>4, <1>5, <1>6 DEF NetworkInv

\* A joined channel is left.
LEMMA JoinedGone ==
    ASSUME Types, NEW c \in Channel, ChannelInv(queue, c), queue' = queue \o <<Changed>>,
           sv[c] = "joined", sv'[c] = "out", ws'[c] \in {ws[c], "none"}
    PROVE  ChannelInv(queue, c)'
<1> DEFINE t == <<Changed>>
           u == queue \o t
<1>1. queue \in Seq(Pushes) /\ t \in Seq(Pushes)
  BY PushTypes DEF Types, Changed
<1>2. /\ Asks(c) \subseteq Others(c) /\ Changed \notin Shows(c) /\ Changed \notin Asks(c)
  <2>1. Asks(c) \subseteq Others(c)
    BY DEF Asks, Others
  <2> QED
    BY <2>1, ShowsHas DEF Changed, StateKinds
<1>3. /\ ~Waits(t, Asks(c)) /\ Stands(t, Changed, Shows(c))
  BY <1>2, OnePush
<1>4. Stands(u, Changed, Shows(c)) /\ (Waits(u, Asks(c)) <=> Waits(queue, Asks(c)))
  BY <1>1, <1>3, CatStands, CatWaits
<1>5. \A p : Stands(queue, p, Asks(c)) => Leads(u, p, Asks(c), Changed, Shows(c))
  BY <1>1, <1>3, CatLeads
<1>6. Leads(queue, Push("joined", c), Others(c), Changed, {}) => Stands(queue, Push("joined", c), Asks(c))
  BY <1>2 DEF Leads, Stands
<1>7. Waits(queue, Asks(c)) => Waits(queue, Others(c))
  BY <1>2 DEF Waits
<1>8. queue' = u /\ Shows(c)' = Shows(c) /\ Asks(c)' = Asks(c)
  BY DEF Shows, Asks
<1> HIDE DEF u
<1>9. OutInv(queue, c)'
  BY <1>4, <1>5, <1>6, <1>7, <1>8 DEF ChannelInv, JoinedInv, OutInv, Unlisted
<1> QED
  BY <1>9 DEF ChannelInv, AskedInv, JoinedInv, EndedInv

-----------------------------------------------------------------------------
(* The commands. *)

\* The signal is about no channel and no network.
LEMMA ChangedAside ==
    /\ <<Changed>> \in Seq(Pushes)
    /\ \A c : ~Waits(<<Changed>>, Others(c)) /\ ~Waits(<<Changed>>, Shows(c))
    /\ \A n : ~Waits(<<Changed>>, NetPushes(n))
<1>1. Changed \in Pushes
  BY PushTypes DEF Changed
<1>2. /\ \A c : Changed \notin Others(c) /\ Changed \notin Shows(c)
      /\ \A n : Changed \notin NetPushes(n)
  BY OthersHas, ShowsHas, NetPushesHas DEF Changed, StateKinds, LifecycleKinds
<1> QED
  BY <1>1, <1>2, OnePush

\* The window is selected, and its topic is joined.
LEMMA SelectLed ==
    ASSUME Types, Synced, session, ~missed, NEW x \in Channel, SelectChannel(x)
    PROVE  Led'
<1>1. queue \in Seq(Pushes) /\ OutsideStays /\ NetworkStays
      /\ UNCHANGED <<entries, ws, ctopics>> /\ joined' = joined \cup {x}
      /\ Topics(queue, {}, {x} \ joined)
  BY DEF SelectChannel, Types
<1>2. PICK t : Quiet(t) /\ queue' = queue \o t /\ (link = "up" \/ t = << >>)
  <2>1. Quiet(Snapshots(({x} \ joined) \ held))
    BY SnapshotsQuiet
  <2>2. Quiet(<< >>)
    BY DEF Quiet
  <2> QED
    BY <1>1, <2>1, <2>2, EmptyTail DEF Topics
<1>3. t \in Seq(Pushes) /\ queue \o t \in Seq(Pushes)
  BY <1>1, <1>2, QuietFacts
<1>4. held \subseteq held' /\ SameOutside /\ UNCHANGED <<snets, sconn, again, nets, conn, link>>
  BY <1>1, StaysFacts DEF Topics, SameOutside, NetworkStays, networks
<1>5. queue' = (queue \o t) \o << >>
  BY <1>2, <1>3, EmptyTail
<1> DEFINE q == queue \o t
<1>6. ASSUME NEW c \in Channel PROVE ChannelInv(queue, c)'
  <2>1. ChannelInv(q, c)
    BY <1>1, <1>2, QuietChannel DEF Synced
  <2>2. KeepsRow(c) /\ KeepsServer(c)
    BY <1>1, <1>4 DEF KeepsRow, KeepsServer, SameOutside
  <2> HIDE DEF q
  <2> QED
    BY <1>3, <1>4, <1>5, <2>1, <2>2, EmptyTail, AsideChannel DEF q
<1>7. ASSUME NEW n \in Network PROVE NetworkInv(queue, n)'
  <2>1. NetworkInv(q, n)
    BY <1>1, <1>2, QuietNetwork DEF Synced
  <2> QED
    BY <1>3, <1>4, <1>5, <2>1, EmptyTail, AsideNetwork
<1> QED
  BY <1>6, <1>7 DEF Led

\* The window is parted.
LEMMA PartLed ==
    ASSUME Types, Synced, session, ~missed, ~missed', NEW x \in Channel, PartChannel(x)
    PROVE  Led'
<1>0. link = "up"
  BY DEF PartChannel
<1>1. queue \in Seq(Pushes) /\ link' = link /\ queue' = queue \o <<Changed>>
      /\ sv \in [Channel -> SvStates] /\ ws \in [Channel -> Unlisted \cup {"none", "joined"}]
      /\ UNCHANGED <<snets, sconn, again, nets, conn, parts>>
      /\ sv' = [sv EXCEPT ![x] = "out"] /\ auto' = auto \ {x}
      /\ ws[x] = "joined" /\ sv[x] = "joined" /\ x \in entries /\ ws' = [ws EXCEPT ![x] = "none"]
  BY <1>0 DEF PartChannel, Types, TypeOK, Changed, ClearWindow, networks
<1> DEFINE next == Kept(entries \ {x}, nets)
<1>2. Reconcile(next) /\ held' = held \ Leaves(next)
  BY DEF PartChannel
<1>3. next = entries \ {x}
  BY <1>1 DEF Kept, Unlisted
<1>4. ASSUME NEW c \in Channel PROVE ChannelInv(queue, c)'
  <2>1. ChannelInv(queue, c)
    BY DEF Synced
  <2>2. CASE c = x
    BY <1>1, <2>1, <2>2, JoinedGone
  <2>3. CASE c # x
    <3>1. sv'[c] = sv[c] /\ ws'[c] = ws[c]
      BY <1>1, <2>3
    <3>2. KeepsServer(c)
      BY <1>1, <2>3, <3>1 DEF KeepsServer
    <3>3. c \in entries' <=> c \in entries
      BY <1>2, <1>3, <2>3 DEF Reconcile, Rows
    <3>4. c \in entries => c \in ctopics' /\ c \in joined'
      BY <1>2, <1>3, <2>3 DEF Reconcile, Rows, JoinedAfter
    <3>5. KeepsRow(c)
      BY <1>0, <1>1, <3>1, <3>3, <3>4 DEF KeepsRow
    <3> QED
      BY <1>0, <1>1, <2>1, <3>2, <3>5, ChangedAside, AsideChannel
  <2> QED
    BY <2>2, <2>3
<1>5. ASSUME NEW n \in Network PROVE NetworkInv(queue, n)'
  <2>1. NetworkInv(queue, n)
    BY DEF Synced
  <2> QED
    BY <1>1, <2>1, ChangedAside, AsideNetwork
<1> QED
  BY <1>4, <1>5 DEF Led

\* An invitation is declined.
LEMMA InviteGone ==
    ASSUME Types, NEW c \in Channel, queue' = queue \o <<Push("declined", c)>>, sv'[c] = "out"
    PROVE  ChannelInv(queue, c)'
<1> DEFINE t == <<Push("declined", c)>>
           u == queue \o t
<1>1. queue \in Seq(Pushes) /\ t \in Seq(Pushes)
  BY PushTypes DEF Types, StateKinds
<1>2. Stands(t, Push("declined", c), Shows(c))
  BY OnePush
<1>3. Stands(u, Push("declined", c), Shows(c))
  BY <1>1, <1>2, CatStands
<1>4. queue' = u /\ Shows(c)' = Shows(c)
  BY DEF Shows
<1> HIDE DEF u
<1>5. OutInv(queue, c)'
  BY <1>3, <1>4 DEF OutInv
<1> QED
  BY <1>5 DEF ChannelInv, AskedInv, JoinedInv, EndedInv

\* The answer to an invitation is about its channel only.
LEMMA DeclinedAside ==
    ASSUME NEW x \in Channel
    PROVE  LET t == <<Push("declined", x)>>
           IN /\ t \in Seq(Pushes)
              /\ \A c \in Channel \ {x} : ~Waits(t, Others(c)) /\ ~Waits(t, Shows(c))
              /\ \A n : ~Waits(t, NetPushes(n))
<1> DEFINE p == Push("declined", x)
<1>1. p \in Pushes
  BY PushTypes DEF StateKinds
<1>2. /\ \A c \in Channel \ {x} : p \notin Others(c) /\ p \notin Shows(c)
      /\ \A n : p \notin NetPushes(n)
  BY OthersHas, ShowsHas, NetPushesHas DEF LifecycleKinds
<1> HIDE DEF p
<1>3. /\ <<p>> \in Seq(Pushes)
      /\ \A c \in Channel \ {x} : ~Waits(<<p>>, Others(c)) /\ ~Waits(<<p>>, Shows(c))
      /\ \A n : ~Waits(<<p>>, NetPushes(n))
  BY <1>1, <1>2, OnePush
<1> QED
  BY <1>3 DEF p

\* The invitation is declined.
LEMMA DeclineLed ==
    ASSUME Types, Synced, session, ~missed, ~missed', NEW x \in Channel, DeclineInvite(x)
    PROVE  Led'
<1>1. link = "up"
  BY DEF DeclineInvite
<1>2. /\ queue \in Seq(Pushes) /\ sv \in [Channel -> SvStates]
      /\ queue' = queue \o <<Push("declined", x)>> /\ sv' = [sv EXCEPT ![x] = "out"]
      /\ UNCHANGED <<link, books, held, parts, auto, snets, sconn, again, nets, conn>>
  <2>1. queue \in Seq(Pushes) /\ sv \in [Channel -> SvStates]
    BY DEF Types
  <2>2. queue' = Append(queue, Push("declined", x))
    BY <1>1 DEF DeclineInvite
  <2>3. /\ sv' = [sv EXCEPT ![x] = "out"]
        /\ UNCHANGED <<link, books, held, parts, auto, snets, sconn, again, nets, conn>>
    BY DEF DeclineInvite, NetworkStays, networks
  <2> QED
    BY <2>1, <2>2, <2>3
<1>3. ASSUME NEW c \in Channel PROVE ChannelInv(queue, c)'
  <2>1. CASE c = x
    BY <1>2, <2>1, InviteGone
  <2>2. CASE c # x
    <3>1. KeepsRow(c) /\ KeepsServer(c)
      BY <1>2, <2>2 DEF KeepsRow, KeepsServer, books
    <3>2. ChannelInv(queue, c)
      BY DEF Synced
    <3> QED
      BY <1>1, <1>2, <2>2, <3>1, <3>2, DeclinedAside, AsideChannel
  <2> QED
    BY <2>1, <2>2
<1>4. ASSUME NEW n \in Network PROVE NetworkInv(queue, n)'
  <2>1. NetworkInv(queue, n)
    BY DEF Synced
  <2> QED
    BY <1>2, <2>1, DeclinedAside, AsideNetwork
<1> QED
  BY <1>3, <1>4 DEF Led

\* The row is dismissed, and its PART runs on.
LEMMA DismissLed ==
    ASSUME Types, Synced, session, ~missed, NEW x \in Channel, DismissKicked(x)
    PROVE  Led'
<1>1. /\ queue \in Seq(Pushes) /\ ws \in [Channel -> Unlisted \cup {"none", "joined"}]
      /\ queue' = queue \o << >> /\ << >> \in Seq(Pushes) /\ \A S : ~Waits(<< >>, S)
      /\ UNCHANGED <<link, held, ctopics, joined, sv, auto, snets, sconn, again, nets, conn>>
      /\ ws[x] = "kicked" /\ x \in entries
      /\ ws' = [ws EXCEPT ![x] = "none"] /\ entries' = entries \ {x} /\ parts' = parts \cup {x}
  <2>1. queue \in Seq(Pushes) /\ ws \in [Channel -> Unlisted \cup {"none", "joined"}]
    BY DEF Types, TypeOK
  <2>2. queue' = queue /\ UNCHANGED <<link, held, ctopics, joined, sv, auto, snets, sconn, again, nets, conn>>
        /\ ws[x] = "kicked" /\ x \in entries
        /\ ws' = [ws EXCEPT ![x] = "none"] /\ entries' = entries \ {x} /\ parts' = parts \cup {x}
    BY DEF DismissKicked, ClearWindow, NetworkStays, networks, server, bounds
  <2> QED
    BY <2>1, <2>2, EmptyTail
<1>2. ASSUME NEW c \in Channel PROVE ChannelInv(queue, c)'
  <2>1. ChannelInv(queue, c)
    BY DEF Synced
  <2>2. CASE c = x
    <3>1. /\ Others(c)' = Others(c) /\ Shows(c)' = Shows(c) /\ Asks(c)' = Asks(c)
          /\ \A p : Comes(p, c)' <=> Comes(p, c)
      <4>1. Others(c)' = Others(c) /\ Shows(c)' = Shows(c) /\ Asks(c)' = Asks(c)
        BY <1>1 DEF Others, Shows, Asks
      <4> QED
        BY <1>1, <4>1 DEF Comes
    <3>2. queue' = queue
      BY <1>1, EmptyTail
    <3>3. ws[c] = "kicked" /\ c \notin entries' /\ c \in entries /\ c \in parts'
      BY <1>1, <2>2
    <3>4. AskedInv(queue, c)'
      BY <1>1, <2>1, <3>1, <3>2, <3>3 DEF ChannelInv, AskedInv
    <3>5. JoinedInv(queue, c)'
      BY <1>1, <2>1, <3>1, <3>2, <3>3 DEF ChannelInv, JoinedInv
    <3>6. EndedInv(queue, c)'
      BY <1>1, <2>1, <3>1, <3>2, <3>3 DEF ChannelInv, EndedInv
    <3>7. OutInv(queue, c)'
      BY <1>1, <2>1, <3>1, <3>2, <3>3 DEF ChannelInv, OutInv, Unlisted
    <3> QED
      BY <3>4, <3>5, <3>6, <3>7 DEF ChannelInv
  <2>3. CASE c # x
    <3>1. KeepsRow(c) /\ KeepsServer(c)
      BY <1>1, <2>3 DEF KeepsRow, KeepsServer
    <3> QED
      BY <1>1, <2>1, <3>1, AsideChannel
  <2> QED
    BY <2>2, <2>3
<1>3. ASSUME NEW n \in Network PROVE NetworkInv(queue, n)'
  <2>1. NetworkInv(queue, n)
    BY DEF Synced
  <2> QED
    BY <1>1, <2>1, AsideNetwork
<1> QED
  BY <1>2, <1>3 DEF Led

\* A session begins with what Grappa holds.
LEMMA SignInLed ==
    ASSUME Types, ServerInv, SignIn
    PROVE  Led'
<1>1. /\ link = "down" /\ UNCHANGED <<sv, auto, snets, sconn, link, parts>>
      /\ queue' = << >> /\ nets' = snets /\ conn' = sconn /\ again' = {}
      /\ entries' = BootRows /\ ctopics' = BootRows /\ joined' = BootRows /\ held' = BootRows
      /\ ws' = BootStates
  BY DEF Types, SignIn, BootNets, server
<1>2. /\ \A S : ~Waits(<< >>, S)
      /\ \A p, S : ~Stands(<< >>, p, S)
  BY DEF Waits, Stands
<1>3. ASSUME NEW n \in Network PROVE NetworkInv(queue, n)'
  BY <1>1, <1>2 DEF NetworkInv
<1>4. ASSUME NEW c \in Channel PROVE ChannelInv(queue, c)'
  <2>1. /\ c \in BootRows <=> NetOf[c] \in snets /\ (sv[c] = "joined" \/ c \in auto)
        /\ BootStates[c] = IF sv[c] = "joined" /\ NetOf[c] \in snets THEN "joined" ELSE "none"
    BY DEF BootRows, BootStates, BootNets
  <2>2. /\ sv[c] # "out" \/ c \in auto => NetOf[c] \in snets
        /\ sv[c] = "joined" => c \in auto
    BY DEF ServerInv
  <2>3. AskedInv(queue, c)'
    BY <1>1 DEF AskedInv
  <2>4. JoinedInv(queue, c)'
    BY <1>1, <1>2, <2>1, <2>2 DEF JoinedInv
  <2>5. EndedInv(queue, c)'
    BY <1>1, <1>2, <2>1, <2>2 DEF EndedInv
  <2>6. OutInv(queue, c)'
    BY <1>1, <1>2, <2>1, <2>2 DEF OutInv
  <2> QED
    BY <2>3, <2>4, <2>5, <2>6 DEF ChannelInv
<1> QED
  BY <1>3, <1>4 DEF Led

\* Every command keeps the client on its way.
LEMMA CommandsSynced ==
    ASSUME Types, ServerInv, Synced, Commands
    PROVE  Synced'
<1>1. CASE \E x \in Channel : SelectChannel(x) \/ PartChannel(x) \/ DismissKicked(x) \/ DeclineInvite(x)
  <2>1. session' = session /\ (~missed' => ~missed)
    <3>1. ASSUME NEW x \in Channel, SelectChannel(x) \/ DismissKicked(x)
          PROVE  session' = session /\ missed' = missed
      BY <3>1 DEF SelectChannel, DismissKicked, OutsideStays, bounds
    <3>2. ASSUME NEW x \in Channel, PartChannel(x) \/ DeclineInvite(x)
          PROVE  session' = session /\ (~missed' => ~missed)
      BY <3>2 DEF PartChannel, DeclineInvite
    <3> QED
      BY <1>1, <3>1, <3>2
  <2> QED
    BY <1>1, <2>1, SelectLed, PartLed, DismissLed, DeclineLed DEF Synced, Led
<1>2. CASE SignIn
  BY <1>2, SignInLed DEF Synced, Led
<1>3. CASE SessionRefused
  BY <1>3 DEF SessionRefused, Synced
<1> QED
  BY <1>1, <1>2, <1>3 DEF Commands

-----------------------------------------------------------------------------
(* Grappa and the socket. *)

\* A report is sent.
LEMMA Reported ==
    ASSUME Types, NEW c \in Channel, NEW t \in Seq(Pushes), queue' = queue \o t,
           \/ /\ sv'[c] \in {"pending", "invited", "failed", "kicked"}
              /\ Stands(t, Push(sv'[c], c), Others(c)')
           \/ /\ sv'[c] = "joined"
              /\ Leads(t, Push("joined", c), Others(c)', Changed, {})
    PROVE  ChannelInv(queue, c)'
<1> DEFINE u == queue \o t
<1>1. queue \in Seq(Pushes)
  BY DEF Types
<1>2. CASE /\ sv'[c] \in {"pending", "invited", "failed", "kicked"}
           /\ Stands(t, Push(sv'[c], c), Others(c)')
  <2>1. \A p, S : Stands(t, p, S) => Stands(u, p, S)
    BY <1>1, CatStands
  <2>2. Stands(u, Push(sv'[c], c), Others(c)')
    BY <1>2, <2>1
  <2>3. queue' = u /\ \A p : Push(sv[c], p)' = Push(sv'[c], p)
    BY DEF Push
  <2> HIDE DEF u
  <2>4. Comes(queue, c)'
    BY <2>2, <2>3 DEF Comes, Push
  <2> QED
    BY <1>2, <2>4 DEF ChannelInv, AskedInv, JoinedInv, EndedInv, OutInv
<1>3. CASE /\ sv'[c] = "joined"
           /\ Leads(t, Push("joined", c), Others(c)', Changed, {})
  <2>1. \A p, S, r, R : Leads(t, p, S, r, R) => Leads(u, p, S, r, R)
    BY <1>1, CatLeads
  <2>2. Leads(u, Push("joined", c), Others(c)', Changed, {})
    BY <1>3, <2>1
  <2>3. queue' = u
    OBVIOUS
  <2> HIDE DEF u
  <2>4. Leads(queue, Push("joined", c), Others(c), Changed, {})'
    BY <2>2, <2>3 DEF Changed, Push
  <2> QED
    BY <1>3, <2>4 DEF ChannelInv, AskedInv, JoinedInv, EndedInv, OutInv
<1> QED
  BY <1>2, <1>3

\* Pushes about the row of one channel.
AboutRow(t, x) ==
    \A i \in DOMAIN t : t[i] = Changed \/ \E k \in StateKinds \cup {"seeded"} : t[i] = Push(k, x)

\* Such pushes are about no other channel and no network.
LEMMA RowAside ==
    ASSUME NEW t, NEW x \in Channel, AboutRow(t, x)
    PROVE  /\ \A c \in Channel \ {x} : ~Waits(t, Others(c)) /\ ~Waits(t, Shows(c))
           /\ \A n : ~Waits(t, NetPushes(n))
<1>1. \A k \in StateKinds \cup {"seeded"} :
         /\ \A c \in Channel \ {x} : Push(k, x) \notin Others(c) /\ Push(k, x) \notin Shows(c)
         /\ \A n : Push(k, x) \notin NetPushes(n)
  <2>1. ASSUME NEW k \in StateKinds \cup {"seeded"}
        PROVE  /\ \A c \in Channel \ {x} : Push(k, x) \notin Others(c) /\ Push(k, x) \notin Shows(c)
               /\ \A n : Push(k, x) \notin NetPushes(n)
    <3>1. k \notin LifecycleKinds \cup {"welcome", "status"}
      BY DEF StateKinds, LifecycleKinds
    <3> QED
      BY <3>1, OthersHas, ShowsHas, NetPushesHas
  <2> QED
    BY <2>1
<1>2. /\ \A c : Changed \notin Others(c) /\ Changed \notin Shows(c)
      /\ \A n : Changed \notin NetPushes(n)
  BY OthersHas, ShowsHas, NetPushesHas DEF Changed, StateKinds, LifecycleKinds
<1> QED
  BY <1>1, <1>2 DEF AboutRow, Waits

\* The other channels and the networks stay where they are.
LEMMA OtherRows ==
    ASSUME Types, Synced, session, ~missed, link = "up", link' \in {link, "down"},
           NEW x \in Channel, NEW t \in Seq(Pushes),
           AboutRow(t, x), queue' = queue \o t, UNCHANGED <<books, held, snets, sconn, again, nets, conn>>,
           parts \ {x} \subseteq parts', \A c \in Channel \ {x} : sv'[c] = sv[c] /\ (c \in auto' <=> c \in auto)
    PROVE  /\ \A c \in Channel \ {x} : ChannelInv(queue, c)'
           /\ \A n \in Network : NetworkInv(queue, n)'
<1>1. queue \in Seq(Pushes)
  BY DEF Types
<1>2. ASSUME NEW c \in Channel \ {x} PROVE ChannelInv(queue, c)'
  <2>1. KeepsRow(c) /\ KeepsServer(c)
    BY DEF KeepsRow, KeepsServer, books
  <2>2. ChannelInv(queue, c)
    BY DEF Synced
  <2>3. ~Waits(t, Others(c)) /\ ~Waits(t, Shows(c))
    BY RowAside
  <2> QED
    BY <1>1, <2>1, <2>2, <2>3, AsideChannel
<1>3. ASSUME NEW n \in Network PROVE NetworkInv(queue, n)'
  <2>1. NetworkInv(queue, n) /\ ~Waits(t, NetPushes(n))
    BY RowAside DEF Synced
  <2> QED
    BY <1>1, <2>1, AsideNetwork
<1> QED
  BY <1>2, <1>3

\* The state of a channel changes at Grappa.
LEMMA ServerMovesLed ==
    ASSUME Types, Synced, session, ~missed, ~missed', NEW x \in Channel, ServerMoves(x)
    PROVE  Led'
<1>1. PICK to \in Moves(x) :
         /\ sv' = [sv EXCEPT ![x] = to]
         /\ auto' = IF to = "joined" THEN auto \cup {x}
                    ELSE IF to = "out" THEN auto \ {x} ELSE auto
         /\ Pushed(CASE to = "out" /\ sv[x] = "invited" -> <<Push("declined", x)>>
                     [] to = "out" /\ sv[x] # "invited" -> <<Push("changed", ServerWindow)>>
                     [] to = "joined" -> <<Push("joined", x), Push("changed", ServerWindow)>>
                                         \o (IF x \in held THEN <<Push("seeded", x)>> ELSE << >>)
                     [] to = "kicked" -> <<Push("kicked", x), Push("changed", ServerWindow)>>
                     [] OTHER -> <<Push(to, x)>>)
  BY DEF ServerMoves
<1>2. link = "up" /\ UNCHANGED <<link, books, held, parts, snets, sconn, again, nets, conn>>
  BY <1>1 DEF ServerMoves, ClientStays, networks, Pushed
<1>3. /\ sv \in [Channel -> SvStates] /\ queue \in Seq(Pushes)
      /\ sv'[x] = to /\ \A c \in Channel \ {x} : sv'[c] = sv[c] /\ (c \in auto' <=> c \in auto)
  BY <1>1 DEF Types
<1>4. /\ to \in {"pending", "invited", "failed", "kicked", "joined", "out"}
      /\ to = "out" => sv[x] \in {"invited", "joined"}
  <2>1. sv[x] \in SvStates
    BY <1>3
  <2> QED
    BY <2>1 DEF Moves, SvStates
<1>5. ASSUME NEW t \in Seq(Pushes), AboutRow(t, x), queue' = queue \o t, ChannelInv(queue, x)'
      PROVE  Led'
  <2>1. parts \ {x} \subseteq parts'
    BY <1>2
  <2>2. /\ \A c \in Channel \ {x} : ChannelInv(queue, c)'
        /\ \A n \in Network : NetworkInv(queue, n)'
    BY <1>2, <1>3, <1>5, <2>1, OtherRows
  <2> QED
    BY <1>5, <2>2 DEF Led
<1>6. ASSUME NEW k \in StateKinds PROVE <<Push(k, x)>> \in Seq(Pushes) /\ AboutRow(<<Push(k, x)>>, x)
  <2> DEFINE p == Push(k, x)
  <2>1. p \in Pushes
    BY PushTypes
  <2> HIDE DEF p
  <2>2. <<p>> \in Seq(Pushes) /\ \A i \in DOMAIN <<p>> : <<p>>[i] = p
    BY <2>1
  <2> QED
    BY <2>2 DEF AboutRow, p
<1>7. CASE to \in {"pending", "invited", "failed"}
  <2>1. queue' = queue \o <<Push(to, x)>>
    BY <1>1, <1>2, <1>7 DEF Pushed
  <2>2. Stands(<<Push(to, x)>>, Push(sv'[x], x), Others(x)')
    BY <1>3, OnePush
  <2>3. <<Push(to, x)>> \in Seq(Pushes) /\ AboutRow(<<Push(to, x)>>, x)
    BY <1>6, <1>7 DEF StateKinds
  <2>4. ChannelInv(queue, x)'
    BY <1>3, <1>7, <2>1, <2>2, <2>3, Reported
  <2> QED
    BY <1>5, <2>1, <2>3, <2>4
<1>8. CASE to = "out" /\ sv[x] = "invited"
  <2>1. queue' = queue \o <<Push("declined", x)>>
    BY <1>1, <1>2, <1>8 DEF Pushed
  <2>2. <<Push("declined", x)>> \in Seq(Pushes) /\ AboutRow(<<Push("declined", x)>>, x)
    BY <1>6 DEF StateKinds
  <2>3. ChannelInv(queue, x)'
    BY <1>3, <1>8, <2>1, InviteGone
  <2> QED
    BY <1>5, <2>1, <2>2, <2>3
<1>9. CASE to = "out" /\ sv[x] # "invited"
  <2>1. queue' = queue \o <<Changed>>
    BY <1>1, <1>2, <1>9 DEF Pushed, Changed
  <2>2. <<Changed>> \in Seq(Pushes) /\ AboutRow(<<Changed>>, x)
    BY ChangedAside DEF AboutRow
  <2>3. ChannelInv(queue, x)'
    <3>1. ChannelInv(queue, x)
      BY DEF Synced
    <3>2. sv[x] = "joined" /\ sv'[x] = "out" /\ ws'[x] \in {ws[x], "none"}
      BY <1>2, <1>3, <1>4, <1>9 DEF books
    <3> QED
      BY <2>1, <3>1, <3>2, JoinedGone
  <2> QED
    BY <1>5, <2>1, <2>2, <2>3
<1>10. /\ Changed \in Pushes /\ Changed \notin Others(x)' /\ Push("seeded", x) \in Pushes
       /\ Push("seeded", x) \notin Others(x)' /\ Push("kicked", x) \in Pushes /\ Push("joined", x) \in Pushes
  <2>1. Changed \in Pushes /\ Push("seeded", x) \in Pushes /\ Push("kicked", x) \in Pushes /\ Push("joined", x) \in Pushes
    BY PushTypes DEF Changed, StateKinds
  <2>2. \A p \in {Changed, Push("seeded", x)} : p \notin Others(x)'
    BY DEF Others, Lifecycle, LifecycleKinds, StateKinds, Push, Changed
  <2> QED
    BY <2>1, <2>2
<1>11. CASE to = "kicked"
  <2> DEFINE p == Push("kicked", x)
             t == <<p, Changed>>
  <2>1. queue' = queue \o t
    BY <1>1, <1>2, <1>11 DEF Pushed, Changed
  <2>2. t \in Seq(Pushes) /\ AboutRow(t, x) /\ Stands(t, p, Others(x)')
    <3>1. p \in Pushes /\ \E k \in StateKinds \cup {"seeded"} : p = Push(k, x)
      BY <1>10 DEF StateKinds
    <3> HIDE DEF p
    <3>2. t \in Seq(Pushes) /\ DOMAIN t = {1, 2} /\ t[1] = p /\ t[2] = Changed
      BY <1>10, <3>1
    <3> HIDE DEF t
    <3>3. AboutRow(t, x)
      BY <3>1, <3>2 DEF AboutRow
    <3>4. Stands(t, p, Others(x)')
      BY <1>10, <3>2 DEF Stands
    <3> QED
      BY <3>2, <3>3, <3>4
  <2>3. p = Push(sv'[x], x)
    BY <1>3, <1>11
  <2> HIDE DEF t, p
  <2>4. ChannelInv(queue, x)'
    BY <1>3, <1>11, <2>1, <2>2, <2>3, Reported
  <2> QED
    BY <1>5, <2>1, <2>2, <2>4
<1>12. CASE to = "joined"
  <2> DEFINE p == Push("joined", x)
             s == <<p, Changed>>
             w == IF x \in held THEN <<Push("seeded", x)>> ELSE << >>
             t == s \o w
  <2>1. queue' = queue \o t
    BY <1>1, <1>2, <1>12 DEF Pushed, Changed
  <2>2. /\ s \in Seq(Pushes) /\ AboutRow(s, x)
        /\ Leads(s, p, Others(x)', Changed, {})
    <3>1. p \in Pushes /\ \E k \in StateKinds \cup {"seeded"} : p = Push(k, x)
      BY <1>10 DEF StateKinds
    <3> HIDE DEF p
    <3>2. s \in Seq(Pushes) /\ DOMAIN s = {1, 2} /\ s[1] = p /\ s[2] = Changed
      BY <1>10, <3>1
    <3> HIDE DEF s
    <3>3. AboutRow(s, x)
      BY <3>1, <3>2 DEF AboutRow
    <3>4. Leads(s, p, Others(x)', Changed, {})
      BY <1>10, <3>2 DEF Leads
    <3> QED
      BY <3>2, <3>3, <3>4
  <2>3. /\ w \in Seq(Pushes) /\ AboutRow(w, x) /\ ~Waits(w, Others(x)') /\ ~Waits(w, {})
    <3> DEFINE r == Push("seeded", x)
    <3>1. <<r>> \in Seq(Pushes) /\ ~Waits(<<r>>, Others(x)') /\ ~Waits(<<r>>, {})
      BY <1>10, OnePush
    <3>2. AboutRow(<<r>>, x)
      BY DEF AboutRow
    <3>3. << >> \in Seq(Pushes) /\ (\A S : ~Waits(<< >>, S)) /\ AboutRow(<< >>, x)
      BY DEF Waits, AboutRow
    <3> HIDE DEF r
    <3>4. w \in {<<r>>, << >>}
      BY DEF r
    <3> HIDE DEF w
    <3> QED
      BY <3>1, <3>2, <3>3, <3>4
  <2> HIDE DEF s, w, p
  <2>4. t \in Seq(Pushes) /\ Leads(t, p, Others(x)', Changed, {})
    BY <2>2, <2>3, CatLeads
  <2>5. AboutRow(t, x)
    BY <2>2, <2>3 DEF AboutRow
  <2>6. p = Push("joined", x)
    BY DEF p
  <2> HIDE DEF t
  <2>7. ChannelInv(queue, x)'
    BY <1>3, <1>12, <2>1, <2>4, <2>6, Reported
  <2> QED
    BY <1>5, <2>1, <2>4, <2>5, <2>7
<1> QED
  BY <1>4, <1>7, <1>8, <1>9, <1>11, <1>12

\* The PART of a dismissed row arrives.
LEMMA BackgroundPartLed ==
    ASSUME Types, Synced, session, ~missed, ~missed', NEW x \in Channel, BackgroundPart(x)
    PROVE  Led'
<1>1. /\ sv[x] \in {"kicked", "joined"} /\ sv' = [sv EXCEPT ![x] = "out"] /\ auto' = auto \ {x}
      /\ link = "up" /\ ~Returned(x) /\ queue' = Append(queue, Changed) /\ parts' = parts \ {x}
      /\ UNCHANGED <<link, books, held, snets, sconn, again, nets, conn>>
  BY DEF BackgroundPart, ClientStays, networks, Changed
<1>2. queue \in Seq(Pushes) /\ sv \in [Channel -> SvStates]
  BY DEF Types
<1>3. queue' = queue \o <<Changed>> /\ <<Changed>> \in Seq(Pushes) /\ AboutRow(<<Changed>>, x)
  <2>1. queue' = queue \o <<Changed>>
    <3>1. \A p \in Pushes : Append(queue, p) = queue \o <<p>>
      BY <1>2
    <3>2. Changed \in Pushes
      BY PushTypes DEF Changed
    <3> QED
      BY <1>1, <3>1, <3>2
  <2>2. <<Changed>> \in Seq(Pushes) /\ AboutRow(<<Changed>>, x)
    BY ChangedAside DEF AboutRow
  <2> QED
    BY <2>1, <2>2
<1>4. ChannelInv(queue, x) /\ x \notin entries /\ ~Waits(queue, {Push("kicked", x)})
  BY <1>1 DEF Returned, Waits, Synced
<1>5. sv'[x] = "out" /\ ws'[x] = ws[x] /\ x \notin entries'
  BY <1>1, <1>2, <1>4 DEF books
<1>6. ChannelInv(queue, x)'
  <2>1. CASE sv[x] = "joined"
    BY <1>3, <1>4, <1>5, <2>1, JoinedGone
  <2>2. CASE sv[x] = "kicked"
    <3>1. ~Waits(queue, Others(x))
      BY <1>1, <1>4, <2>2 DEF ChannelInv, EndedInv, Comes, Waits, Stands
    <3>2. ~Waits(queue, Shows(x))
      BY <1>4, <2>2, <3>1 DEF Waits, Shows, Others
    <3>3. ~Waits(queue \o <<Changed>>, Shows(x))
      BY <1>2, <1>3, <3>2, ChangedAside, CatWaits
    <3>4. Shows(x)' = Shows(x)
      BY DEF Shows
    <3>5. OutInv(queue, x)'
      BY <1>3, <1>5, <3>3, <3>4 DEF OutInv
    <3> QED
      BY <1>5, <3>5 DEF ChannelInv, AskedInv, JoinedInv, EndedInv
  <2> QED
    BY <1>1, <2>1, <2>2
<1>7. /\ \A c \in Channel \ {x} : ChannelInv(queue, c)'
      /\ \A n \in Network : NetworkInv(queue, n)'
  <2>1. \A c \in Channel \ {x} : sv'[c] = sv[c] /\ (c \in auto' <=> c \in auto)
    BY <1>1, <1>2
  <2>2. parts \ {x} \subseteq parts'
    BY <1>1
  <2> QED
    BY <1>1, <1>3, <2>1, <2>2, OtherRows
<1> QED
  BY <1>6, <1>7 DEF Led

\* A network is attached or detached.
LEMMA ServerAttachesLed ==
    ASSUME Types, Synced, session, ~missed, ~missed', NEW x \in Network, ServerAttaches(x)
    PROVE  Led'
<1> DEFINE k == IF x \in snets THEN "detached" ELSE "attached"
           p == Push(k, x)
           t == <<p>>
<1>1. /\ link = "up" /\ queue' = queue \o t
      /\ UNCHANGED <<link, books, held, parts, nets, conn>>
      /\ snets' = IF x \in snets THEN snets \ {x} ELSE snets \cup {x}
      /\ sv' = [c \in Channel |-> IF NetOf[c] = x THEN "out" ELSE sv[c]]
      /\ auto' = {c \in auto : NetOf[c] # x}
      /\ sconn' = [sconn EXCEPT ![x] = "connected"]
      /\ again' = IF x \in snets THEN again ELSE again \cup {x}
  BY DEF ServerAttaches, Pushed, ClientStays, networks
<1>2. queue \in Seq(Pushes) /\ sconn \in [Network -> Status] /\ p \in Pushes /\ k \in LifecycleKinds
  BY PushTypes DEF Types, LifecycleKinds
<1>3. /\ k = "detached" <=> x \in snets
      /\ k = "attached" <=> x \notin snets
  OBVIOUS
<1> HIDE DEF k
<1>4. /\ \A c : NetOf[c] # x => p \notin Others(c)
      /\ \A c : p \notin Shows(c)
      /\ \A n : p \in Lifecycle(n) <=> n = x
      /\ \A n : p \in NetPushes(n) <=> n = x
      /\ \A l, y : p = Push(l, y) <=> k = l /\ x = y
  <2>1. k \notin StateKinds /\ k # "status"
    BY <1>2 DEF StateKinds, LifecycleKinds
  <2> QED
    BY <1>2, <2>1, OthersHas, ShowsHas, LifecycleHas, NetPushesHas, PushParts
<1> HIDE DEF p
<1>5. /\ t \in Seq(Pushes)
      /\ \A S : Waits(t, S) <=> p \in S
      /\ \A r, S : Stands(t, r, S) <=> p = r
  BY <1>2, OnePush
<1> HIDE DEF t
<1>6. ASSUME NEW c \in Channel PROVE ChannelInv(queue, c)'
  <2>1. CASE NetOf[c] = x
    <3>1. sv'[c] = "out" /\ ~(NetOf[c] \in snets' /\ NetOf[c] \notin again')
      BY <1>1, <2>1
    <3> QED
      BY <3>1 DEF ChannelInv, AskedInv, JoinedInv, EndedInv, OutInv
  <2>2. CASE NetOf[c] # x
    <3>1. KeepsRow(c)
      BY <1>1 DEF KeepsRow, books
    <3>2. KeepsServer(c)
      BY <1>1, <2>2 DEF KeepsServer
    <3>3. ~Waits(t, Others(c)) /\ ~Waits(t, Shows(c))
      BY <1>4, <1>5, <2>2
    <3>4. ChannelInv(queue, c)
      BY DEF Synced
    <3> QED
      BY <1>1, <1>2, <1>5, <3>1, <3>2, <3>3, <3>4, AsideChannel
  <2> QED
    BY <2>1, <2>2
<1>7. ASSUME NEW n \in Network PROVE NetworkInv(queue, n)'
  <2>1. CASE n = x
    <3> DEFINE u == queue \o t
    <3>1. Waits(u, Lifecycle(n)) /\ Waits(u, NetPushes(n))
      BY <1>2, <1>4, <1>5, <2>1, CatWaits
    <3>2. /\ \A r : Stands(u, r, Lifecycle(n)) => p = r
          /\ \A r : Stands(u, r, NetPushes(n)) => p = r
      <4>1. Waits(t, Lifecycle(n)) /\ Waits(t, NetPushes(n))
        BY <1>4, <1>5, <2>1
      <4> QED
        BY <1>2, <1>5, <4>1, CatStands
    <3>3. \A s : p # StatusOf(n, s)
      BY <1>2, <1>4 DEF StatusOf, LifecycleKinds
    <3>4. /\ p = Push("attached", n) => n \in snets' /\ n \in again'
          /\ p = Push("detached", n) => n \notin snets'
          /\ n \in snets' => n \in again'
      BY <1>1, <1>3, <1>4, <2>1
    <3>5. /\ Lifecycle(n)' = Lifecycle(n) /\ NetPushes(n)' = NetPushes(n)
          /\ \A s : StatusOf(n, s)' = StatusOf(n, s)
          /\ \A l : Push(l, n)' = Push(l, n)
      BY DEF Lifecycle, NetPushes, StatusOf, Push
    <3>6. queue' = u
      BY <1>1
    <3> HIDE DEF u
    <3> QED
      BY <3>1, <3>2, <3>3, <3>4, <3>5, <3>6 DEF NetworkInv
  <2>2. CASE n # x
    <3>1. NetworkInv(queue, n) /\ ~Waits(t, NetPushes(n))
      BY <1>4, <1>5, <2>2 DEF Synced
    <3>2. (n \in snets' <=> n \in snets) /\ sconn'[n] = sconn[n] /\ (n \in again' <=> n \in again)
      BY <1>1, <1>2, <2>2
    <3> QED
      BY <1>1, <1>2, <1>5, <3>1, <3>2, AsideNetwork
  <2> QED
    BY <2>1, <2>2
<1> QED
  BY <1>6, <1>7 DEF Led

\* A network is parked, fails or connects.
LEMMA ServerConnectsLed ==
    ASSUME Types, ServerInv, Synced, session, ~missed, ~missed', NEW x \in Network, ServerConnects(x)
    PROVE  Led'
<1>1. /\ link = "up" /\ UNCHANGED <<link, books, held, parts, auto, snets, again, nets, conn>>
      /\ queue \in Seq(Pushes) /\ sconn \in [Network -> Status] /\ sv \in [Channel -> SvStates]
  BY DEF ServerConnects, Pushed, ClientStays, networks, Types
<1>2. \E p, r \in Pushes, to \in Status :
         /\ queue' = queue \o <<p, r>>
         /\ sconn' = [sconn EXCEPT ![x] = to]
         /\ \/ p = StatusOf(x, to) /\ r = Changed
               /\ sv' = [c \in Channel |-> IF NetOf[c] = x /\ sv[c] = "joined" THEN "out" ELSE sv[c]]
            \/ p = Push("connecting", x) /\ r = Push("welcome", x) /\ sv' = sv
  <2>1. CASE sconn[x] = "connected"
    <3>1. PICK to \in {"parked", "failed"} :
             /\ sconn' = [sconn EXCEPT ![x] = to]
             /\ Pushed(<<Push("status", [net |-> x, to |-> to]), Push("changed", ServerWindow)>>)
      BY <2>1 DEF ServerConnects
    <3>2. queue' = queue \o <<StatusOf(x, to), Changed>> /\ to \in Status
      BY <1>1, <3>1 DEF Pushed, StatusOf, Changed, Status
    <3>3. StatusOf(x, to) \in Pushes /\ Changed \in Pushes
      BY <3>2, PushTypes DEF Changed
    <3>4. sv' = [c \in Channel |-> IF NetOf[c] = x /\ sv[c] = "joined" THEN "out" ELSE sv[c]]
      BY <2>1 DEF ServerConnects
    <3> QED
      BY <3>1, <3>2, <3>3, <3>4
  <2>2. CASE sconn[x] # "connected"
    <3>1. /\ sconn' = [sconn EXCEPT ![x] = "connected"] /\ sv' = sv
          /\ queue' = queue \o <<Push("connecting", x), Push("welcome", x)>>
      BY <1>1, <2>2 DEF ServerConnects, Pushed
    <3>2. Push("connecting", x) \in Pushes /\ Push("welcome", x) \in Pushes /\ "connected" \in Status
      BY PushTypes DEF Status
    <3> QED
      BY <3>1, <3>2
  <2> QED
    BY <2>1, <2>2
<1>3. PICK p, r \in Pushes, to \in Status :
         /\ queue' = queue \o <<p, r>>
         /\ sconn' = [sconn EXCEPT ![x] = to]
         /\ \/ p = StatusOf(x, to) /\ r = Changed
               /\ sv' = [c \in Channel |-> IF NetOf[c] = x /\ sv[c] = "joined" THEN "out" ELSE sv[c]]
            \/ p = Push("connecting", x) /\ r = Push("welcome", x) /\ sv' = sv
  BY <1>2
<1>4. ASSUME NEW e \in {p, r}
      PROVE  /\ \A c : e \notin Others(c) /\ e \notin Shows(c)
             /\ \A n : e \notin Lifecycle(n) /\ (e \in NetPushes(n) => n = x)
  <2>1. PICK l, y : e = Push(l, y) /\ l \in {"status", "changed", "connecting", "welcome"}
                    /\ (l = "status" => y = [net |-> x, to |-> to]) /\ (l = "welcome" => y = x)
    <3> DEFINE Is(l, y) == /\ e = Push(l, y) /\ l \in {"status", "changed", "connecting", "welcome"}
                           /\ (l = "status" => y = [net |-> x, to |-> to]) /\ (l = "welcome" => y = x)
    <3>1. \/ e = Push("status", [net |-> x, to |-> to]) \/ e = Push("changed", ServerWindow)
          \/ e = Push("connecting", x) \/ e = Push("welcome", x)
      BY <1>3 DEF StatusOf, Changed
    <3>2. \/ Is("status", [net |-> x, to |-> to]) \/ Is("changed", ServerWindow)
          \/ Is("connecting", x) \/ Is("welcome", x)
      BY <3>1
    <3> HIDE DEF Is
    <3>3. \E l, y : Is(l, y)
      BY <3>2
    <3> QED
      BY <3>3 DEF Is
  <2>2. l \notin StateKinds /\ l \notin LifecycleKinds
    BY <2>1 DEF StateKinds, LifecycleKinds
  <2>3. \A c : e \notin Others(c) /\ e \notin Shows(c)
    BY <2>1, <2>2, OthersHas, ShowsHas
  <2>4. \A n : e \notin Lifecycle(n)
    BY <2>1, <2>2, LifecycleHas
  <2>5. ASSUME NEW n, e \in NetPushes(n) PROVE n = x
    <3>1. CASE l = "status"
      <4>1. PICK s \in Status : y = [net |-> n, to |-> s]
        BY <2>1, <2>2, <2>5, <3>1, NetPushesHas
      <4>2. y.net = x /\ y.net = n
        BY <2>1, <3>1, <4>1
      <4> QED
        BY <4>2
    <3>2. CASE l # "status"
      BY <2>1, <2>2, <2>5, <3>2, NetPushesHas
    <3> QED
      BY <3>1, <3>2
  <2> QED
    BY <2>3, <2>4, <2>5
<1> DEFINE t == <<p, r>>
<1>5. t \in Seq(Pushes) /\ DOMAIN t = {1, 2} /\ t[1] = p /\ t[2] = r
  OBVIOUS
<1> HIDE DEF t
<1>6. /\ \A c : ~Waits(t, Others(c)) /\ ~Waits(t, Shows(c))
      /\ \A n : ~Waits(t, Lifecycle(n)) /\ (Waits(t, NetPushes(n)) => n = x)
  BY <1>4, <1>5 DEF Waits
<1>7. queue' = queue \o t
  BY <1>3 DEF t
<1>8. ASSUME NEW c \in Channel PROVE ChannelInv(queue, c)'
  <2>1. CASE sv'[c] = sv[c]
    <3>1. KeepsRow(c) /\ KeepsServer(c)
      BY <1>1, <2>1 DEF KeepsRow, KeepsServer, books
    <3>2. ChannelInv(queue, c)
      BY DEF Synced
    <3> QED
      BY <1>1, <1>5, <1>6, <1>7, <3>1, <3>2, AsideChannel
  <2>2. CASE sv'[c] # sv[c]
    <3>1. sv[c] = "joined" /\ sv'[c] = "out"
      BY <1>3, <2>2
    <3>2. c \in auto'
      BY <1>1, <3>1 DEF ServerInv
    <3> QED
      BY <3>1, <3>2 DEF ChannelInv, AskedInv, JoinedInv, EndedInv, OutInv
  <2> QED
    BY <2>1, <2>2
<1>9. ASSUME NEW n \in Network PROVE NetworkInv(queue, n)'
  <2>1. CASE n # x
    <3>1. NetworkInv(queue, n) /\ sconn'[n] = sconn[n]
      BY <1>1, <1>3, <2>1 DEF Synced
    <3> QED
      BY <1>1, <1>5, <1>6, <1>7, <2>1, <3>1, AsideNetwork
  <2>2. CASE n = x
    <3> DEFINE u == queue \o t
    <3>1. NetworkInv(queue, n) /\ sconn'[n] = to
      BY <1>1, <1>3, <2>2 DEF Synced
    <3>2. /\ Waits(u, Lifecycle(n)) <=> Waits(queue, Lifecycle(n))
          /\ Waits(t, NetPushes(n)) => Waits(u, NetPushes(n))
      BY <1>1, <1>5, <1>6, CatWaits
    <3>3. Waits(t, NetPushes(n))
      <4>1. p \in NetPushes(n) \/ r \in NetPushes(n)
        BY <1>3, <2>2 DEF NetPushes
      <4> QED
        BY <1>5, <4>1 DEF Waits
    <3>4. \A e : Stands(u, Push(e, n), Lifecycle(n)) => Stands(queue, Push(e, n), Lifecycle(n)) \/ Stands(t, Push(e, n), Lifecycle(n))
      BY <1>1, <1>5, CatStands
    <3>5. /\ ~Stands(t, Push("attached", n), Lifecycle(n))
          /\ ~Stands(t, Push("detached", n), Lifecycle(n))
      <4>1. Push("attached", n) \in Lifecycle(n) /\ Push("detached", n) \in Lifecycle(n)
        BY DEF Lifecycle, LifecycleKinds
      <4> QED
        BY <1>6, <4>1 DEF Stands, Waits
    <3>6. \A s : Stands(u, StatusOf(n, s), NetPushes(n)) => Stands(t, StatusOf(n, s), NetPushes(n))
      BY <1>1, <1>5, <3>3, CatStands
    <3>7. ASSUME NEW s, Stands(t, StatusOf(n, s), NetPushes(n)) PROVE s = to
      <4>1. StatusOf(n, s) = p \/ StatusOf(n, s) = r
        BY <1>5, <3>7 DEF Stands
      <4>2. /\ StatusOf(n, s) # Changed /\ StatusOf(n, s) # Push("connecting", x)
            /\ StatusOf(n, s) # Push("welcome", x)
        BY PushParts DEF StatusOf, Changed
      <4>3. StatusOf(n, s) = StatusOf(x, to)
        BY <1>3, <4>1, <4>2
      <4>4. [net |-> n, to |-> s] = [net |-> x, to |-> to]
        BY <4>3, PushParts DEF StatusOf
      <4>5. [net |-> n, to |-> s].to = [net |-> x, to |-> to].to
        BY <4>4
      <4> QED
        BY <4>5
    <3>8. /\ Lifecycle(n)' = Lifecycle(n) /\ NetPushes(n)' = NetPushes(n)
          /\ \A s : StatusOf(n, s)' = StatusOf(n, s)
      BY DEF Lifecycle, NetPushes, StatusOf
    <3>9. queue' = u
      BY <1>7
    <3> HIDE DEF u
    <3> QED
      BY <1>1, <3>1, <3>2, <3>3, <3>4, <3>5, <3>6, <3>7, <3>8, <3>9 DEF NetworkInv
  <2> QED
    BY <2>1, <2>2
<1> QED
  BY <1>8, <1>9 DEF Led

\* The socket is lost after everything was read from it.
LEMMA LinkLostLed ==
    ASSUME Types, Synced, session, ~missed, ~missed', LinkLost
    PROVE  Led'
<1> DEFINE p == Push("lost", ServerWindow)
<1>1. PICK k \in 0 .. Len(queue) :
         /\ queue' = Append(SubSeq(queue, 1, k), p)
         /\ missed' = (missed \/ k < Len(queue))
  BY DEF LinkLost
<1>2. link = "up" /\ link' = "down" /\ UNCHANGED <<books, held, server, parts, again, nets, conn>>
  BY DEF LinkLost, ClientStays, networks
<1>3. queue \in Seq(Pushes) /\ p \in Pushes
  BY PushTypes DEF Types
<1>4. \A c : p \notin Others(c) /\ p \notin Shows(c)
  BY OthersHas, ShowsHas DEF StateKinds, LifecycleKinds
<1>5. \A n : p \notin NetPushes(n)
  BY NetPushesHas DEF LifecycleKinds
<1> HIDE DEF p
<1>6. queue' = queue \o <<p>> /\ <<p>> \in Seq(Pushes)
  <2>1. k = Len(queue)
    <3>1. ~(k < Len(queue))
      BY <1>1
    <3>2. Len(queue) \in Nat
      BY <1>3
    <3> QED
      BY <3>1, <3>2
  <2>2. SubSeq(queue, 1, Len(queue)) = queue
    BY <1>3
  <2> QED
    BY <1>1, <1>3, <2>1, <2>2
<1>7. ASSUME NEW c \in Channel PROVE ChannelInv(queue, c)'
  <2>1. KeepsRow(c) /\ KeepsServer(c)
    BY <1>2 DEF KeepsRow, KeepsServer, books, server
  <2>2. ChannelInv(queue, c) /\ ~Waits(<<p>>, Others(c)) /\ ~Waits(<<p>>, Shows(c))
    BY <1>4, OnePush DEF Synced
  <2> QED
    BY <1>2, <1>3, <1>6, <2>1, <2>2, AsideChannel
<1>8. ASSUME NEW n \in Network PROVE NetworkInv(queue, n)'
  <2>1. NetworkInv(queue, n) /\ ~Waits(<<p>>, NetPushes(n))
    BY <1>5, OnePush DEF Synced
  <2>2. UNCHANGED <<snets, sconn>>
    BY <1>2 DEF server
  <2> QED
    BY <1>2, <1>3, <1>6, <2>1, <2>2, AsideNetwork
<1> QED
  BY <1>7, <1>8 DEF Led

\* The snapshots and what the user topic replays bring back what the down link kept away.
LEMMA LinkBackLed ==
    ASSUME Types, Synced, session, ~missed, LinkBack
    PROVE  Led'
<1> DEFINE p == Push("up", ServerWindow)
           a == Replayed \o Snapshots(held)
           t == <<p>> \o a
<1>1. link = "down" /\ link' = "up" /\ UNCHANGED <<books, held, server, parts, again, nets, conn>>
  BY DEF LinkBack, ClientStays, networks, bounds
<1>2. /\ Quiet(a)
      /\ \A c \in Channel : sv[c] \in {"pending", "invited"} => \E i \in DOMAIN a : a[i] = Push(sv[c], c)
      /\ \A c \in held : sv[c] \in {"failed", "kicked"} => \E i \in DOMAIN a : a[i] = Push(sv[c], c)
  <2> DEFINE r == Replayed
             s == Snapshots(held)
  <2>1. Quiet(r) /\ Quiet(s)
    BY ReplayedQuiet, SnapshotsQuiet DEF Types, TypeOK
  <2>2. /\ \A c \in Channel : sv[c] \in {"pending", "invited"} => \E i \in DOMAIN r : r[i] = Push(sv[c], c)
        /\ \A c \in held : sv[c] \in {"failed", "kicked"} => \E i \in DOMAIN s : s[i] = Push(sv[c], c)
    BY ReplayedQuiet, SnapshotsQuiet DEF Types, TypeOK
  <2>3. r \in Seq(Pushes) /\ s \in Seq(Pushes)
    BY <2>1 DEF Quiet
  <2> HIDE DEF r, s
  <2>4. Quiet(r \o s)
    BY <2>1, QuietCat
  <2>5. \A S : Waits(r \o s, S) <=> Waits(r, S) \/ Waits(s, S)
    BY <2>3, CatWaits
  <2>6. /\ \A c \in Channel : sv[c] \in {"pending", "invited"} => Waits(r \o s, {Push(sv[c], c)})
        /\ \A c \in held : sv[c] \in {"failed", "kicked"} => Waits(r \o s, {Push(sv[c], c)})
    BY <2>2, <2>5 DEF Waits
  <2> QED
    BY <2>4, <2>6 DEF Waits, r, s
<1>3. queue \in Seq(Pushes) /\ p \in Pushes /\ a \in Seq(Pushes)
  <2> HIDE DEF a
  <2> QED
    BY <1>2, PushTypes DEF Types, Quiet
<1>4. queue' = (queue \o <<p>>) \o a
  <2>1. /\ queue' = ((queue \o <<p>>) \o Replayed) \o Snapshots(held)
    BY DEF LinkBack
  <2>2. Replayed \in Seq(Pushes) /\ Snapshots(held) \in Seq(Pushes)
    <3>1. Quiet(Replayed) /\ Quiet(Snapshots(held))
      BY ReplayedQuiet, SnapshotsQuiet DEF Types, TypeOK
    <3> QED
      BY <3>1 DEF Quiet
  <2>3. \A b, d, e \in Seq(Pushes) : (b \o d) \o e = b \o (d \o e)
    OBVIOUS
  <2>4. queue \o <<p>> \in Seq(Pushes)
    BY <1>3
  <2> QED
    BY <2>1, <2>2, <2>3, <2>4
<1>5. \A c : p \notin Others(c) /\ p \notin Shows(c)
  BY OthersHas, ShowsHas DEF StateKinds, LifecycleKinds
<1>6. \A n : p \notin NetPushes(n)
  BY NetPushesHas DEF LifecycleKinds
<1> HIDE DEF p, a
<1> DEFINE q == queue \o <<p>>
<1>7. q \in Seq(Pushes) /\ q # << >> /\ <<p>> \in Seq(Pushes)
  BY <1>3
<1>8. \A c : ~Waits(<<p>>, Others(c)) /\ ~Waits(<<p>>, Shows(c))
  BY <1>5, OnePush
<1>9. ASSUME NEW c \in Channel, queue # << >> \/ ~(sv[c] \in {"failed", "kicked"} /\ c \in held),
             sv[c] \notin {"pending", "invited"}
      PROVE  ChannelInv(q, c)
  <2>1. ~Waits(<<p>>, Asks(c)) /\ ~Waits(<<p>>, {})
    BY <1>8, SetsNested DEF Waits
  <2>2. ChannelInv(queue, c)
    BY DEF Synced
  <2>3. /\ Waits(q, Others(c)) <=> Waits(queue, Others(c))
        /\ Waits(queue, {Changed}) => Waits(q, {Changed})
        /\ Waits(q, Shows(c)) <=> Waits(queue, Shows(c))
        /\ Waits(q, Asks(c)) <=> Waits(queue, Asks(c))
    <3>1. \A S : Waits(q, S) <=> Waits(queue, S) \/ Waits(<<p>>, S)
      BY <1>3, <1>7, CatWaits
    <3> QED
      BY <1>8, <2>1, <3>1
  <2>4. /\ Comes(queue, c) => Comes(q, c)
        /\ Stands(queue, Push("declined", c), Shows(c)) => Stands(q, Push("declined", c), Shows(c))
        /\ Stands(queue, Changed, Shows(c)) => Stands(q, Changed, Shows(c))
    BY <1>3, <1>7, <1>8, CatStands DEF Comes
  <2>5. /\ Leads(queue, Push("joined", c), Others(c), Changed, {}) =>
              Leads(q, Push("joined", c), Others(c), Changed, {})
        /\ Leads(queue, Push("joined", c), Asks(c), Changed, Shows(c)) =>
              Leads(q, Push("joined", c), Asks(c), Changed, Shows(c))
    BY <1>3, <1>7, <1>8, <2>1, CatLeads
  <2> HIDE DEF q
  <2>6. AskedInv(q, c)
    BY <1>9 DEF AskedInv
  <2>7. JoinedInv(q, c)
    BY <2>2, <2>3, <2>5 DEF ChannelInv, JoinedInv
  <2>8. EndedInv(q, c)
    BY <1>9, <2>2, <2>3, <2>4 DEF ChannelInv, EndedInv
  <2>9. OutInv(q, c)
    BY <2>2, <2>3, <2>4, <2>5 DEF ChannelInv, OutInv
  <2> QED
    BY <2>6, <2>7, <2>8, <2>9 DEF ChannelInv
<1>10. ASSUME NEW c \in Channel PROVE ChannelInv(queue, c)'
  <2>1. UNCHANGED sv /\ \A u : Comes(u, c)' <=> Comes(u, c)
    <3>1. sv' = sv
      BY <1>1 DEF server
    <3> QED
      BY <3>1 DEF Comes, Others
  <2>2. CASE \/ sv[c] \in {"pending", "invited"}
             \/ sv[c] \in {"failed", "kicked"} /\ c \in held
    <3>1. \E i \in DOMAIN a : a[i] = Push(sv[c], c)
      BY <1>2, <2>2
    <3>2. Stands(a, Push(sv[c], c), Others(c))
      <4>1. \A i \in DOMAIN a : a[i] \notin Others(c)
        BY <1>2, QuietFacts DEF Waits
      <4> QED
        BY <3>1, <4>1 DEF Stands
    <3>3. Comes(q \o a, c)
      BY <1>3, <1>7, <3>2, CatStands DEF Comes
    <3>4. Comes(queue, c)'
      BY <1>4, <2>1, <3>3
    <3> QED
      BY <2>1, <2>2, <3>4 DEF ChannelInv, AskedInv, JoinedInv, EndedInv, OutInv
  <2>3. CASE ~(\/ sv[c] \in {"pending", "invited"}
               \/ sv[c] \in {"failed", "kicked"} /\ c \in held)
    <3>1. ChannelInv(q, c)
      BY <1>9, <2>3
    <3> HIDE DEF q
    <3>2. ChannelInv(q \o a, c)
      BY <1>2, <1>7, <3>1, QuietChannel
    <3> DEFINE u == q \o a
    <3>3. u \in Seq(Pushes) /\ queue' = u
      BY <1>3, <1>4, <1>7 DEF q
    <3> HIDE DEF u
    <3>4. /\ Others(c)' = Others(c) /\ Shows(c)' = Shows(c) /\ Asks(c)' = Asks(c)
      BY <2>1 DEF Others, Shows, Asks
    <3>5. ChannelInv(u, c)
      BY <3>2 DEF u
    <3>6. UNCHANGED <<ws, entries, ctopics, joined, held, parts, sv, auto, snets, again>>
      BY <1>1 DEF books, server
    <3>7. sv[c] \notin {"pending", "invited"} /\ ~(sv[c] \in {"failed", "kicked"} /\ c \in held)
      BY <2>3
    <3>8. AskedInv(queue, c)'
      BY <3>6, <3>7 DEF AskedInv
    <3>9. JoinedInv(queue, c)'
      BY <3>3, <3>4, <3>5, <3>6 DEF ChannelInv, JoinedInv
    <3>10. EndedInv(queue, c)'
      BY <2>1, <3>3, <3>4, <3>5, <3>6, <3>7 DEF ChannelInv, EndedInv
    <3>11. OutInv(queue, c)'
      BY <3>3, <3>4, <3>5, <3>6 DEF ChannelInv, OutInv
    <3> QED
      BY <3>8, <3>9, <3>10, <3>11 DEF ChannelInv
  <2> QED
    BY <2>2, <2>3
<1>11. ASSUME NEW n \in Network PROVE NetworkInv(queue, n)'
  <2> DEFINE t1 == <<p>> \o a
  <2>1. queue' = queue \o t1 /\ t1 \in Seq(Pushes)
    BY <1>3, <1>4
  <2>2. NetworkInv(queue, n)
    BY DEF Synced
  <2>3. ~Waits(t1, NetPushes(n))
    <3>1. ~Waits(<<p>>, NetPushes(n)) /\ ~Waits(a, NetPushes(n))
      BY <1>2, <1>6, OnePush, QuietFacts
    <3> QED
      BY <1>3, <1>7, <3>1, CatWaits
  <2>4. UNCHANGED <<snets, sconn, again, nets, conn>>
    BY <1>1 DEF server
  <2> HIDE DEF t1
  <2> QED
    BY <1>3, <2>1, <2>2, <2>3, <2>4, AsideNetwork
<1> QED
  BY <1>10, <1>11 DEF Led

\* Every step of Grappa and the socket keeps the client on its way.
LEMMA OutsideSynced ==
    ASSUME Types, ServerInv, Synced, Outside
    PROVE  Synced'
<1>1. session' = session /\ (~missed' => ~missed)
  <2>1. ASSUME NEW x \in Channel, ServerMoves(x) \/ BackgroundPart(x)
        PROVE  session' = session /\ (~missed' => ~missed)
    BY <2>1 DEF ServerMoves, BackgroundPart, ClientStays, Pushed
  <2>2. ASSUME NEW x \in Network, ServerAttaches(x) \/ ServerConnects(x)
        PROVE  session' = session /\ (~missed' => ~missed)
    <3>1. CASE ServerAttaches(x)
      BY <3>1 DEF ServerAttaches, ClientStays, Pushed
    <3>2. CASE ServerConnects(x)
      BY <3>2 DEF ServerConnects, ClientStays, Pushed
    <3> QED
      BY <2>2, <3>1, <3>2
  <2>3. ASSUME LinkLost \/ LinkBack
        PROVE  session' = session /\ (~missed' => ~missed)
    <3>1. CASE LinkLost
      <4>1. PICK k \in 0 .. Len(queue) : missed' = (missed \/ k < Len(queue))
        BY <3>1 DEF LinkLost
      <4>2. session' = session
        BY <3>1 DEF LinkLost, ClientStays
      <4> QED
        BY <4>1, <4>2
    <3>2. CASE LinkBack
      BY <3>2 DEF LinkBack, ClientStays, bounds
    <3> QED
      BY <2>3, <3>1, <3>2
  <2> QED
    BY <2>1, <2>2, <2>3 DEF Outside
<1> SUFFICES ASSUME session, ~missed, ~missed'
             PROVE  Led'
  BY <1>1 DEF Synced, Led
<1> QED
  BY ServerMovesLed, BackgroundPartLed, ServerAttachesLed, ServerConnectsLed, LinkLostLed, LinkBackLed
     DEF Outside

-----------------------------------------------------------------------------
(* The invariant. *)

\* Nothing is shown before the first sign-in.
LEMMA InitWindows == Init => WindowsInv
<1> SUFFICES ASSUME Init
             PROVE  WindowsInv
  OBVIOUS
<1>1. Types
  <2>1. sv \in [Channel -> SvStates] /\ auto \subseteq Channel
    BY DEF Init, SvStates
  <2>2. sconn \in [Network -> Status] /\ conn = sconn /\ snets = Network
    BY DEF Init, Status
  <2>3. ws \in [Channel -> Unlisted \cup {"none", "joined"}]
    BY DEF Init
  <2>4. queue \in Seq(Pushes) /\ recents \in Seq(Channel)
    BY DEF Init
  <2> QED
    BY <2>1, <2>2, <2>3, <2>4 DEF Init, Types, TypeOK
<1>2. Meta
  BY DEF Init, Meta
<1>3. ServerInv
  <2>1. \A c \in Channel : NetOf[c] \in Network
    BY WindowsConstants DEF Channel
  <2> QED
    BY <2>1 DEF Init, ServerInv
<1>4. Synced
  BY DEF Init, Synced
<1> QED
  BY <1>1, <1>2, <1>3, <1>4 DEF WindowsInv

\* Every step keeps the client on its way.
LEMMA SyncedKept ==
    ASSUME Types, ServerInv, Synced, [Next]_vars
    PROVE  Synced'
<1>1. CASE Next
  BY <1>1, FramesSynced, CommandsSynced, OutsideSynced DEF Next
<1>2. CASE UNCHANGED vars
  <2>1. UNCHANGED <<session, missed, queue, link, sv, auto, snets, sconn, nets, conn, again>>
        /\ UNCHANGED <<parts, held, ws, entries, ctopics, joined>>
    BY <1>2 DEF vars, networks, server, books, bounds
  <2> QED
    BY <2>1 DEF Synced, NetworkInv, ChannelInv, AskedInv, JoinedInv, EndedInv, OutInv, Comes,
                Waits, Stands, Leads, Others, Shows, Asks, Lifecycle, NetPushes, StatusOf, Changed, Push
<1> QED
  BY <1>1, <1>2

\* The invariant is inductive.
LEMMA WindowsKept ==
    ASSUME WindowsInv, [Next]_vars
    PROVE  WindowsInv'
  BY TypesKept, MetaKept, ServerKept, SyncedKept DEF WindowsInv

\* The invariant holds always.
LEMMA WindowsAlways == Spec => []WindowsInv
  BY InitWindows, WindowsKept, PTL DEF Spec

\* With nothing left in the queue, what leads the client is what it shows.
LEMMA SidebarFollows == WindowsInv => SidebarSound
<1> SUFFICES ASSUME WindowsInv
             PROVE  SidebarSound
  OBVIOUS
<1>1. MetaFollowsState
  BY DEF WindowsInv, Types, Meta, MetaFollowsState
<1>2. ASSUME Settled
      PROVE  /\ nets = snets
             /\ \A n \in nets : conn[n] = sconn[n]
             /\ \A c \in Channel : NetOf[c] \in nets =>
                  /\ sv[c] \in {"joined", "pending", "invited"} =>
                       c \in entries /\ ws[c] = sv[c] /\ c \in ctopics /\ c \in joined
                  /\ c \in entries /\ sv[c] \in {"failed", "kicked"} => ws[c] = sv[c]
                  /\ c \in entries /\ NetOf[c] \notin again => c \in auto \/ sv[c] # "out"
  <2>1. session /\ link = "up" /\ queue = << >> /\ parts = {} /\ ~missed
    BY <1>2 DEF Settled
  <2>2. /\ \A S : ~Waits(queue, S)
        /\ \A p, S : ~Stands(queue, p, S)
        /\ \A p, S, r, R : ~Leads(queue, p, S, r, R)
    BY <2>1 DEF Waits, Stands, Leads
  <2>3. /\ \A n \in Network : NetworkInv(queue, n)
        /\ \A c \in Channel : ChannelInv(queue, c)
    BY <2>1 DEF WindowsInv, Synced
  <2>4. \A n \in Network : (n \in nets <=> n \in snets) /\ (n \in snets => conn[n] = sconn[n])
    BY <2>2, <2>3 DEF NetworkInv
  <2>5. nets = snets /\ \A n \in nets : conn[n] = sconn[n]
    BY <2>4 DEF WindowsInv, Types, TypeOK
  <2>6. ASSUME NEW c \in Channel, NetOf[c] \in nets
        PROVE  /\ sv[c] \in {"joined", "pending", "invited"} =>
                    c \in entries /\ ws[c] = sv[c] /\ c \in ctopics /\ c \in joined
               /\ c \in entries /\ sv[c] \in {"failed", "kicked"} => ws[c] = sv[c]
               /\ c \in entries /\ NetOf[c] \notin again => c \in auto \/ sv[c] # "out"
    <3>1. AskedInv(queue, c) /\ JoinedInv(queue, c) /\ EndedInv(queue, c) /\ OutInv(queue, c)
      BY <2>3 DEF ChannelInv
    <3>2. sv[c] \in {"joined", "pending", "invited"} =>
             c \in entries /\ ws[c] = sv[c] /\ c \in ctopics /\ c \in joined
      BY <2>1, <2>2, <3>1 DEF AskedInv, JoinedInv, Comes
    <3>3. c \in entries /\ sv[c] \in {"failed", "kicked"} => ws[c] = sv[c]
      BY <2>1, <2>2, <3>1 DEF EndedInv, Comes
    <3>4. c \in entries /\ NetOf[c] \notin again => c \in auto \/ sv[c] # "out"
      BY <2>2, <2>5, <2>6, <3>1 DEF OutInv
    <3> QED
      BY <3>2, <3>3, <3>4
  <2> QED
    BY <2>5, <2>6
<1>3. SettledAgrees
  BY <1>2 DEF SettledAgrees
<1> QED
  BY <1>1, <1>3 DEF SidebarSound

\* For any channels, networks, length of the queue and number of events: the metadata
\* of a window follows its state, and when every push is read and none was lost the
\* sidebar shows the networks and the channels that Grappa holds.
THEOREM SidebarStaysSound == Spec => []SidebarSound
  BY WindowsAlways, SidebarFollows, PTL

-----------------------------------------------------------------------------
(* Rows that no list shows. *)

\* No step takes such a row away while its state stays.
LEMMA PseudoRowsStep ==
    ASSUME Types, [Next]_vars
    PROVE  KeepsPseudoRows
<1> SUFFICES ASSUME NEW c \in entries \ entries', ws[c] \in Unlisted, NetOf[c] \in nets
             PROVE  ws'[c] = "none"
  BY DEF KeepsPseudoRows
<1>1. c \in Channel /\ ws \in [Channel -> Unlisted \cup {"none", "joined"}]
  BY DEF Types, TypeOK
<1>2. CASE InviteDeclined
  <2>1. CASE Ignored
    BY <2>1 DEF Ignored, books
  <2>2. CASE ClearWindow(Of) /\ entries' = entries \ {Of}
    BY <1>1, <2>2 DEF ClearWindow
  <2> QED
    BY <1>2, <2>1, <2>2 DEF InviteDeclined
<1>3. CASE ChannelsChanged
  <2>1. entries' = Kept({d \in BootRows : NetOf[d] \in nets}, nets)
    BY <1>3 DEF ChannelsChanged, Reconcile, Rows
  <2> QED
    BY <2>1 DEF Kept
<1>4. CASE NetworkLifecycle
  <2>1. CASE Ignored
    BY <2>1 DEF Ignored, books
  <2>2. CASE RestRefresh
    <3>1. entries' = Kept(BootRows, BootNets)
      BY <2>2 DEF RestRefresh, Rows
    <3>2. NetOf[c] \notin BootNets
      BY <3>1 DEF Kept
    <3>3. ws'[c] = BootStates[c]
      BY <1>1, <2>2, <3>2 DEF RestRefresh
    <3> QED
      BY <1>1, <3>2, <3>3 DEF BootStates, BootNets
  <2> QED
    BY <1>4, <2>1, <2>2 DEF NetworkLifecycle
<1>5. CASE \E x \in Channel : PartChannel(x)
  <2>1. PICK x \in Channel : ws[x] = "joined" /\ entries' = Kept(entries \ {x}, nets)
    BY <1>5 DEF PartChannel, Reconcile, Rows
  <2> QED
    BY <2>1 DEF Kept, Unlisted
<1>6. CASE \E x \in Channel : DismissKicked(x)
  <2>1. PICK x \in Channel : ws' = [ws EXCEPT ![x] = "none"] /\ entries' = entries \ {x}
    BY <1>6 DEF DismissKicked, ClearWindow
  <2> QED
    BY <1>1, <2>1
<1>7. CASE SignIn
  <2>1. entries' = BootRows /\ ws' = BootStates
    BY <1>7 DEF SignIn
  <2> QED
    BY <1>1, <2>1 DEF BootRows, BootStates, BootNets
<1>8. CASE \/ WindowPending \/ WindowInvited \/ WindowJoined \/ JoinFailed \/ WindowKicked
           \/ MembersSeeded \/ ChannelsNotRead \/ LifecycleNotRead
           \/ ConnectionState \/ ConnectionProgress \/ SessionLost \/ SessionConnected
  <2>1. entries \subseteq entries'
    BY <1>8 DEF WindowPending, WindowInvited, WindowJoined, JoinFailed, WindowKicked, MembersSeeded,
                ChannelsNotRead, LifecycleNotRead, ConnectionState, ConnectionProgress, SessionLost,
                SessionConnected, Upsert, Ignored, books
  <2> QED
    BY <2>1
<1>9. CASE Outside
  <2>1. entries' = entries
    BY <1>9 DEF Outside, ServerMoves, BackgroundPart, ServerAttaches, ServerConnects, LinkLost, LinkBack,
                ClientStays, books
  <2> QED
    BY <2>1
<1>10. CASE SessionRefused \/ (\E x \in Channel : SelectChannel(x) \/ DeclineInvite(x)) \/ UNCHANGED vars
  <2>1. entries' = entries
    BY <1>10 DEF SessionRefused, SelectChannel, DeclineInvite, vars, books
  <2> QED
    BY <2>1
<1> QED
  BY <1>2, <1>3, <1>4, <1>5, <1>6, <1>7, <1>8, <1>9, <1>10 DEF Next, Frames, Commands

\* For any channels, networks, length of the queue and number of events: a row that
\* no channel list shows goes only together with the state of its window.
THEOREM PseudoRowsStay == Spec => PseudoRowKept
<1>1. WindowsInv /\ [Next]_vars => [KeepsPseudoRows]_vars
  BY PseudoRowsStep DEF WindowsInv
<1> QED
  BY <1>1, WindowsAlways, PTL DEF Spec, PseudoRowKept

=============================================================================
