-------------------------- MODULE TranscriptProofs --------------------------
(***************************************************************************)
(* Proof that the rows of a channel window stay sound: a catch-up leaves   *)
(* no hidden hole, the start of the history is its start, and what was     *)
(* left read is read on the server.  For any page and window sizes and any *)
(* number of rows, events, losses, kicks, failed reads and failed writes.  *)
(*                                                                         *)
(* The hole is the hard part: CatchParts follows each row that was stored  *)
(* during a loss from the "lost" event that still waits on the wire, to    *)
(* the anchor that it becomes, the plan that it is taken into, and the     *)
(* page that brings the row.                                               *)
(***************************************************************************)
EXTENDS Transcript, FiniteSetTheorems, WellFoundedInduction, TLAPS

-----------------------------------------------------------------------------
(* The inductive invariant. *)

WireEvent == [kind : {"row", "cursor", "state", "lost", "connected"}, id : Nat]

WireTypes ==
    /\ wire \in Seq(WireEvent)
    /\ \A i \in DOMAIN wire :
          /\ wire[i].kind = "row" => wire[i].id \in 1 .. last
          /\ wire[i].kind = "cursor" => wire[i].id <= srvCursor

Types ==
    /\ TypeOK
    /\ srvCursor <= last /\ link \in {"up", "down"} /\ joined \in BOOLEAN
    /\ plan = NoPlan \/ plan.kind \in {"forward", "reload"}
    /\ WireTypes

\* A mark of LoadOlder stands for a page that is held.
StartInv ==
    /\ reached => 1 \in rows
    /\ \A f \in fetched : Newest(OlderPage, 1, f - 1) \subseteq rows

\* What is read here is read on the server, or a write that says so is on its way.
Reaches(n) == srvCursor >= n \/ \E p \in posts : p >= n
CursorInv == ~unposted => Reaches(cursor) /\ Reaches(leftAt)

\* Nothing is pushed while the socket is down.
LinkInv ==
    link = "down" => ~sub /\ (wire # << >> => wire[Len(wire)].kind = "lost")

LostWaits == \E i \in DOMAIN wire : wire[i].kind = "lost"

\* A joined window that knows of the loss has its anchor.
AnchorInv ==
    link = "down" /\ wire = << >> /\ joined => anchor # None \/ rows = {}

\* The page of a plan reaches all that was missed before its probe.
PlanInv ==
    plan # NoPlan =>
       /\ link = "down" => LostWaits
       /\ plan.kind = "forward" =>
             LostWaits \/ \A id \in missed : id <= plan.anchor + CatchUpPage

\* The loss of a missed row waits at the i-th place of the wire, and all that is
\* held or comes before it is older.
Unread(id, i) ==
    /\ wire[i].kind = "lost" /\ JoinedAt(i) /\ anchor < id
    /\ \A r \in rows : r < id
    /\ \A j \in DOMAIN wire : wire[j].kind = "row" =>
          /\ j < i => wire[j].id < id
          /\ j > i => wire[j].id > id

\* The loss is read, and the row is held, older than all rows held, or comes with
\* a catch-up.
Below(id) == \A r \in rows : id < r
Coming(id) ==
    \/ anchor # None /\ anchor < id
    \/ plan # NoPlan /\ (plan.kind = "reload" \/ plan.anchor < id)
Known(id) ==
    /\ \A j \in DOMAIN wire : wire[j].kind = "row" => wire[j].id > id
    /\ id \in rows \/ Below(id) \/ Coming(id)

HoleInv == \A id \in missed : Known(id) \/ \E i \in DOMAIN wire : Unread(id, i)

\* The life of a catch-up, while nothing failed or ran too early.
CatchParts == AnchorInv /\ PlanInv /\ HoleInv
CatchInv == excuses = {} => CatchParts

TranscriptInv == Types /\ StartInv /\ CursorInv /\ LinkInv /\ CatchInv

-----------------------------------------------------------------------------
(* Sets of rows. *)

LEMMA LeastNat ==
    ASSUME NEW S \in SUBSET Nat, S # {}
    PROVE  \E x \in S : \A y \in S : x <= y
<1>1. PICK x \in S : \A y \in S : ~(<<y, x>> \in OpToRel(<, Nat))
  BY NatLessThanWellFounded, WFMin, Zenon
<1>2. \A y \in S : ~(y < x)
  BY <1>1 DEF OpToRel
<1> QED
  BY <1>2

LEMMA MinIsLeast ==
    ASSUME NEW S \in SUBSET Nat, S # {}
    PROVE  Min(S) \in S /\ \A y \in S : Min(S) <= y
<1>1. \E x \in S : \A y \in S : x <= y
  BY LeastNat
<1> QED
  BY <1>1 DEF Min

LEMMA MaxIsGreatest ==
    ASSUME NEW n \in Nat, NEW S \in SUBSET (0 .. n), S # {}
    PROVE  Max(S) \in S /\ \A y \in S : y <= Max(S)
<1> DEFINE U == {u \in Nat : \A y \in S : y <= u}
<1>1. n \in U
  OBVIOUS
<1>2. PICK u \in U : \A v \in U : u <= v
  BY <1>1, LeastNat
<1>3. u \in S
  <2> SUFFICES ASSUME u \notin S PROVE FALSE
    OBVIOUS
  <2>1. u \in Nat /\ \A y \in S : y \in Nat /\ y < u
    BY <1>2
  <2>2. u - 1 \in Nat /\ \A y \in S : y <= u - 1
    <3>1. PICK y : y \in S
      OBVIOUS
    <3>2. u > 0
      BY <2>1, <3>1
    <3> QED
      BY <2>1, <3>2
  <2>3. u - 1 \in U
    BY <2>2
  <2> QED
    BY <1>2, <2>1, <2>3
<1>4. \E x \in S : \A y \in S : x >= y
  BY <1>2, <1>3
<1> QED
  BY <1>4 DEF Max

LEMMA HighWaterFacts ==
    ASSUME NEW n \in Nat, NEW S \in SUBSET (1 .. n)
    PROVE  /\ HighWater(S) \in 0 .. n /\ \A y \in S : y <= HighWater(S)
           /\ S = {} => HighWater(S) = None
           /\ S # {} => HighWater(S) \in S
<1>1. S # {} => Max(S) \in S /\ \A y \in S : y <= Max(S)
  <2>1. S \in SUBSET (0 .. n)
    OBVIOUS
  <2> QED
    BY <2>1, MaxIsGreatest
<1>2. CASE S = {}
  BY <1>2 DEF HighWater, None
<1>3. CASE S # {}
  <2>1. HighWater(S) = Max(S)
    BY <1>3 DEF HighWater
  <2>2. Max(S) \in S /\ \A y \in S : y <= Max(S)
    BY <1>1, <1>3
  <2> HIDE DEF HighWater
  <2> QED
    <3>1. PICK h : h = HighWater(S)
      OBVIOUS
    <3>2. h \in S /\ \A y \in S : y <= h
      BY <2>1, <2>2, <3>1
    <3>3. h \in 0 .. n
      BY <3>2
    <3> QED
      BY <1>3, <3>1, <3>2, <3>3
<1> QED
  BY <1>2, <1>3

\* The rows are finitely many.
LEMMA RowsAreFinite ==
    ASSUME NEW n \in Nat, NEW S \in SUBSET (1 .. n)
    PROVE  IsFiniteSet(S) /\ Cardinality(S) \in Nat
<1>1. IsFiniteSet(1 .. n)
  BY FS_Interval
<1> QED
  BY <1>1, FS_Subset, FS_CardinalityType

\* A page that is not full begins at the first row.
LEMMA ShortPage ==
    ASSUME NEW k \in Nat, NEW n \in Nat \ {0}, Cardinality(Newest(n, 1, k)) < n
    PROVE  Newest(n, 1, k) = 1 .. k
<1>1. CASE k < n
  BY <1>1 DEF Newest
<1>2. CASE k >= n
  <2>1. Newest(n, 1, k) = (k - n + 1) .. k
    BY <1>2 DEF Newest
  <2>2. Cardinality((k - n + 1) .. k) = n
    BY <1>2, FS_Interval
  <2> QED
    BY <2>1, <2>2
<1> QED
  BY <1>1, <1>2

\* trim_window_history: either nothing is dropped, or the paging starts again and
\* all that is dropped is older than what stays.
LEMMA TrimFacts ==
    ASSUME NEW n \in Nat, NEW held \in SUBSET (1 .. n), Trim(held)
    PROVE  /\ rows' \subseteq held
           /\ \A id \in held \ rows' : \A r \in rows' : id < r
           /\ \/ rows' = held /\ UNCHANGED <<fetched, reached>>
              \/ reached' = FALSE /\ fetched' = {}
<1> DEFINE Older(id) == {o \in held : o < id}
<1>1. rows' = {id \in held : Cardinality(Older(id)) >= Excess(held)}
  BY DEF Trim
<1>2. \A id : IsFiniteSet(Older(id)) /\ Cardinality(Older(id)) \in Nat
  BY RowsAreFinite
<1>8. /\ \A id : \A o : o \in Older(id) <=> o \in held /\ o < id
      /\ rows' \subseteq held /\ \A x \in held : x \in Nat
  BY <1>1
<1> HIDE DEF Older
<1>3. Excess(held) \in Nat
  <2>1. Cardinality(held) \in Nat /\ Cap \in Nat /\ Slack \in Nat
    BY RowsAreFinite, TranscriptConstants
  <2> QED
    BY <2>1 DEF Excess
<1>4. \A id \in held \ rows' : \A r \in rows' : id < r
  <2> SUFFICES ASSUME NEW id \in held, id \notin rows', NEW r \in rows', r <= id PROVE FALSE
    <3>1. \A id \in held, r \in rows' : id < r \/ r <= id
      BY <1>8
    <3> QED
      BY <3>1
  <2>1. Cardinality(Older(id)) < Excess(held) /\ Cardinality(Older(r)) >= Excess(held)
    BY <1>1, <1>2, <1>3
  <2>2. Older(r) \in SUBSET Older(id)
    <3>1. ASSUME NEW o \in Older(r) PROVE o \in Older(id)
      <4>1. o \in held /\ o < r /\ o \in Nat /\ r \in Nat /\ id \in Nat
        BY <1>8
      <4>2. o < id
        BY <4>1
      <4> QED
        BY <1>8, <4>1, <4>2
    <3> QED
      BY <3>1
  <2>3. Cardinality(Older(r)) <= Cardinality(Older(id))
    BY <1>2, <2>2, FS_Subset
  <2> QED
    BY <1>2, <1>3, <2>1, <2>3
<1>5. CASE Excess(held) > 0
  BY <1>1, <1>4, <1>5 DEF Trim, paging
<1>6. CASE Excess(held) = 0
  <2>1. rows' = held
    BY <1>1, <1>2, <1>6
  <2> QED
    BY <1>4, <1>6, <2>1 DEF Trim, paging
<1>7. Excess(held) > 0 \/ Excess(held) = 0
  BY <1>3
<1> QED
  BY <1>5, <1>6, <1>7

-----------------------------------------------------------------------------
(* The wire. *)

LEMMA AppendedWire ==
    ASSUME wire \in Seq(WireEvent), NEW e \in WireEvent, wire' = Append(wire, e)
    PROVE  /\ wire' \in Seq(WireEvent) /\ Len(wire') = Len(wire) + 1 /\ wire' # << >>
           /\ DOMAIN wire = 1 .. Len(wire) /\ DOMAIN wire' = 1 .. Len(wire) + 1
           /\ Len(wire) \in Nat
           /\ \A i \in DOMAIN wire : wire'[i] = wire[i]
           /\ wire'[Len(wire) + 1] = e
  OBVIOUS

LEMMA ReadWire ==
    ASSUME wire \in Seq(WireEvent), wire # << >>, wire' = Tail(wire)
    PROVE  /\ wire' \in Seq(WireEvent) /\ Len(wire') = Len(wire) - 1 /\ Len(wire) \in Nat \ {0}
           /\ DOMAIN wire = 1 .. Len(wire) /\ DOMAIN wire' = 1 .. Len(wire) - 1
           /\ \A i \in DOMAIN wire' : i + 1 \in DOMAIN wire /\ wire'[i] = wire[i + 1]
           /\ Head(wire) = wire[1] /\ Head(wire) \in WireEvent /\ 1 \in DOMAIN wire
  OBVIOUS

-----------------------------------------------------------------------------
(* Types. *)

LEMMA Ranges ==
    ASSUME Types
    PROVE  /\ last \in Nat /\ last <= MaxRows /\ MaxRows \in Nat
           /\ srvCursor \in 0 .. last /\ cursor \in 0 .. last /\ anchor \in 0 .. last
           /\ rows \in SUBSET (1 .. last) /\ posts \in SUBSET (1 .. last)
  BY TranscriptConstants DEF Types, TypeOK

LEMMA PushedTypes ==
    ASSUME Types, NEW e \in WireEvent, wire' = wire \/ wire' = Append(wire, e),
           last' \in Nat, last <= last', srvCursor' \in Nat, srvCursor <= srvCursor',
           e.kind = "row" => e.id \in 1 .. last',
           e.kind = "cursor" => e.id <= srvCursor'
    PROVE  WireTypes'
<1>0. last \in Nat /\ srvCursor \in Nat
  BY Ranges
<1>1. wire \in Seq(WireEvent)
  BY DEF Types, WireTypes
<1>2. ASSUME NEW i \in DOMAIN wire
      PROVE  /\ wire[i].kind = "row" => wire[i].id \in 1 .. last'
             /\ wire[i].kind = "cursor" => wire[i].id <= srvCursor'
  <2>1. wire[i].id \in Nat
    <3>1. wire[i] \in WireEvent
      BY <1>1
    <3> QED
      BY <3>1 DEF WireEvent
  <2>2. /\ wire[i].kind = "row" => wire[i].id \in 1 .. last
        /\ wire[i].kind = "cursor" => wire[i].id <= srvCursor
    BY DEF Types, WireTypes
  <2> QED
    BY <1>0, <2>1, <2>2
<1>3. CASE wire' = wire
  BY <1>1, <1>2, <1>3 DEF WireTypes
<1>4. CASE wire' = Append(wire, e)
  <2>1. /\ wire' \in Seq(WireEvent)
        /\ DOMAIN wire = 1 .. Len(wire) /\ DOMAIN wire' = 1 .. Len(wire) + 1
        /\ Len(wire) \in Nat
        /\ \A i \in DOMAIN wire : wire'[i] = wire[i]
        /\ wire'[Len(wire) + 1] = e
    BY <1>1, <1>4, AppendedWire
  <2>2. \A i \in DOMAIN wire' : i \in DOMAIN wire \/ i = Len(wire) + 1
    BY <2>1
  <2>3. ASSUME NEW i \in DOMAIN wire'
        PROVE  /\ wire'[i].kind = "row" => wire'[i].id \in 1 .. last'
               /\ wire'[i].kind = "cursor" => wire'[i].id <= srvCursor'
    <3>1. CASE i \in DOMAIN wire
      <4>1. wire'[i] = wire[i]
        BY <2>1, <3>1
      <4> QED
        BY <1>2, <3>1, <4>1
    <3>2. CASE i = Len(wire) + 1
      BY <2>1, <3>2
    <3> QED
      BY <2>2, <3>1, <3>2
  <2> QED
    BY <2>1, <2>3 DEF WireTypes
<1> QED
  BY <1>3, <1>4

LEMMA ReadTypes ==
    ASSUME Types, wire # << >>, wire' = Tail(wire), UNCHANGED <<last, srvCursor>>
    PROVE  /\ WireTypes' /\ Head(wire) = wire[1] /\ Head(wire) \in WireEvent
           /\ Head(wire).kind = "row" => Head(wire).id \in 1 .. last
           /\ Head(wire).kind = "cursor" => Head(wire).id <= srvCursor
<1> USE DEF Types, WireTypes
<1>1. /\ wire' \in Seq(WireEvent)
      /\ \A i \in DOMAIN wire' : i + 1 \in DOMAIN wire /\ wire'[i] = wire[i + 1]
      /\ Head(wire) = wire[1] /\ Head(wire) \in WireEvent /\ 1 \in DOMAIN wire
  BY ReadWire
<1> QED
  BY <1>1

\* mark_active_window_read: a later cursor is written with the write that says so.
LEMMA WriteFacts ==
    ASSUME NEW n \in Nat, NEW held \in SUBSET (1 .. n), cursor \in 0 .. n,
           posts \in SUBSET (1 .. n),
           \/ /\ cursor < HighWater(held) /\ cursor' = HighWater(held)
              /\ posts' = posts \union {HighWater(held)}
           \/ UNCHANGED <<cursor, posts>>
    PROVE  /\ cursor' \in 0 .. n /\ posts' \in SUBSET (1 .. n) /\ posts \subseteq posts'
           /\ cursor <= cursor' /\ (cursor' = cursor \/ cursor' \in posts')
<1>1. PICK h : h = HighWater(held)
  OBVIOUS
<1>2. h \in 0 .. n
  BY <1>1, HighWaterFacts
<1>3. CASE cursor < h /\ cursor' = h /\ posts' = posts \union {h}
  <2>1. h \in 1 .. n
    BY <1>2, <1>3
  <2> QED
    BY <1>2, <1>3, <2>1
<1>4. CASE UNCHANGED <<cursor, posts>>
  BY <1>4
<1> QED
  BY <1>1, <1>3, <1>4

\* What WriteBack leaves at the bottom is read.
LEMMA WriteBackFacts ==
    ASSUME NEW n \in Nat, NEW held \in SUBSET (1 .. n), cursor \in 0 .. n,
           posts \in SUBSET (1 .. n), WriteBack(held)
    PROVE  /\ cursor' \in 0 .. n /\ posts' \in SUBSET (1 .. n) /\ posts \subseteq posts'
           /\ cursor <= cursor' /\ (cursor' = cursor \/ cursor' \in posts')
           /\ AtBottom => HighWater(held) <= cursor'
<1>1. PICK h : h = HighWater(held)
  OBVIOUS
<1>2. h \in 0 .. n
  BY <1>1, HighWaterFacts
<1>3. \/ cursor < HighWater(held) /\ cursor' = HighWater(held)
         /\ posts' = posts \union {HighWater(held)}
      \/ UNCHANGED <<cursor, posts>>
  BY DEF WriteBack
<1>4. /\ cursor' \in 0 .. n /\ posts' \in SUBSET (1 .. n) /\ posts \subseteq posts'
      /\ cursor <= cursor' /\ (cursor' = cursor \/ cursor' \in posts')
  BY <1>3, WriteFacts
<1>5. AtBottom => h <= cursor'
  BY <1>1, <1>2 DEF WriteBack
<1> QED
  BY <1>1, <1>4, <1>5

LEMMA PageTypes ==
    ASSUME NEW p, last \in Nat
    PROVE  PageOf(p) \in SUBSET (1 .. last)
  BY DEF PageOf, Newest

LEMMA TypesInit == Init => Types
<1> SUFFICES ASSUME Init PROVE Types
  OBVIOUS
<1>1. last \in Nat /\ last >= 1 /\ last <= MaxRows /\ MaxRows \in Nat
  BY TranscriptConstants DEF Init
<1>2. rows \subseteq 1 .. last
  BY <1>1 DEF Init, Newest
<1>3. TypeOK
  BY <1>1, <1>2 DEF Init, TypeOK, NoPlan, None
<1>4. WireTypes
  BY DEF Init, WireTypes
<1> QED
  BY <1>1, <1>3, <1>4 DEF Init, Types

LEMMA TypesNext == Types /\ [Next]_vars => Types'
<1> SUFFICES ASSUME Types, [Next]_vars PROVE Types'
  OBVIOUS
<1>0. /\ last \in Nat /\ last <= MaxRows /\ MaxRows \in Nat
      /\ srvCursor \in 0 .. last /\ cursor \in 0 .. last /\ anchor \in 0 .. last
      /\ rows \in SUBSET (1 .. last) /\ posts \in SUBSET (1 .. last)
  BY Ranges
<1>1. CASE ServerRow
  <2>1. last' = last + 1 /\ srvCursor' = srvCursor
    BY <1>1 DEF ServerRow
  <2>2. Event("row", last') \in WireEvent /\ Event("row", last').kind = "row"
        /\ Event("row", last').id = last'
    BY <1>0, <2>1 DEF Event, WireEvent
  <2>3. wire' = wire \/ wire' = Append(wire, Event("row", last'))
    BY <1>1 DEF ServerRow, Pushed
  <2>4. WireTypes'
    BY <1>0, <2>1, <2>2, <2>3, PushedTypes
  <2>5. 0 .. last \subseteq 0 .. last' /\ 1 .. last \subseteq 1 .. last' /\ last' \in 1 .. last'
        /\ last' <= MaxRows
    BY <1>0, <1>1, <2>1 DEF ServerRow
  <2>6. missed' \subseteq missed \union {last'}
    BY <1>1 DEF ServerRow
  <2>7. TypeOK'
    BY <1>0, <1>1, <2>1, <2>5, <2>6 DEF ServerRow, Types, TypeOK, reading, paging, catching, ghosts
  <2> QED
    BY <1>0, <1>1, <2>1, <2>4, <2>7 DEF ServerRow, Types, NoPlan, catching, socket
<1>2. CASE \E id \in posts : CursorLands(id)
  <2>1. PICK id \in posts : CursorLands(id)
    BY <1>2
  <2>2. srvCursor' \in 0 .. last /\ srvCursor <= srvCursor' /\ last' = last
    BY <1>0, <2>1 DEF CursorLands
  <2>3. Event("cursor", srvCursor') \in WireEvent /\ Event("cursor", srvCursor').kind = "cursor"
        /\ Event("cursor", srvCursor').id = srvCursor'
    BY <1>0, <2>2 DEF Event, WireEvent
  <2>4. wire' = wire \/ wire' = Append(wire, Event("cursor", srvCursor'))
    BY <2>1 DEF CursorLands, Pushed
  <2>5. WireTypes'
    BY <1>0, <2>2, <2>3, <2>4, PushedTypes
  <2>6. TypeOK'
    BY <1>0, <2>1, <2>2 DEF CursorLands, Types, TypeOK, reading, paging, catching, ghosts
  <2> QED
    BY <1>0, <2>1, <2>2, <2>5, <2>6 DEF CursorLands, Types, NoPlan, catching, socket
<1>3. CASE \E id \in posts : CursorFails(id)
  <2>1. PICK id \in posts : CursorFails(id)
    BY <1>3
  <2>2. WireTypes'
    BY <2>1 DEF CursorFails, Types, WireTypes, server
  <2> QED
    BY <2>1, <2>2 DEF CursorFails, Types, TypeOK, NoPlan, server, catching, paging
<1>4. CASE SocketLost \/ SocketBack \/ TopicJoined \/ ServerMember
  <2>1. \E e \in WireEvent : /\ wire' = wire \/ wire' = Append(wire, e)
                             /\ e.kind \in {"state", "lost", "connected"}
    BY <1>4 DEF SocketLost, SocketBack, TopicJoined, ServerMember, Pushed, Event, WireEvent
  <2>2. UNCHANGED <<last, srvCursor, rows, joined, anchor, due, plan, fetched, reached,
                    cursor, posts, missed, leftAt>>
    BY <1>4 DEF SocketLost, SocketBack, TopicJoined, ServerMember, server, catching, paging,
                reading, ghosts
  <2>3. link' \in {"up", "down"}
    BY <1>4 DEF SocketLost, SocketBack, TopicJoined, ServerMember, Types
  <2>4. WireTypes'
    BY <1>0, <2>1, <2>2, PushedTypes
  <2> QED
    BY <2>2, <2>3, <2>4 DEF Types, TypeOK, NoPlan
<1>5. CASE ReadEvent
  <2>1. /\ plan = NoPlan /\ wire # << >> /\ wire' = Tail(wire)
        /\ UNCHANGED <<last, srvCursor, link, missed, leftAt>>
    BY <1>5 DEF ReadEvent, server, socket, ghosts
  <2>2. /\ WireTypes' /\ Head(wire) \in WireEvent
        /\ Head(wire).kind = "row" => Head(wire).id \in 1 .. last
        /\ Head(wire).kind = "cursor" => Head(wire).id <= srvCursor
    BY <2>1, ReadTypes
  <2>3. PICK e : e = Head(wire)
    OBVIOUS
  <2>4. \/ e.kind = "row" /\ LiveRow(e.id)
        \/ /\ e.kind = "cursor" /\ CursorSet(e.id)
           /\ UNCHANGED <<rows, joined, catching, paging>>
        \/ e.kind = "state" /\ joined' = (e.id = 1) /\ UNCHANGED <<rows, catching, paging, reading>>
        \/ e.kind = "lost" /\ anchor' = Noted /\ UNCHANGED <<rows, joined, plan, paging, reading>>
        \/ e.kind = "connected" /\ UNCHANGED <<rows, joined, anchor, plan, paging, reading>>
    BY <1>5, <2>3 DEF ReadEvent
  <2>5. CASE e.kind = "row" /\ LiveRow(e.id)
    <3>1. PICK held : held = rows \union {e.id}
      OBVIOUS
    <3>2. held \in SUBSET (1 .. last)
      BY <1>0, <2>2, <2>3, <2>5, <3>1
    <3>3. WriteBack(held) /\ UNCHANGED <<joined, catching>>
      BY <2>5, <3>1 DEF LiveRow
    <3>4. cursor' \in 0 .. last /\ posts' \in SUBSET (1 .. last)
      BY <1>0, <3>2, <3>3, WriteBackFacts
    <3>5. \/ rows' \in {rows, held} /\ UNCHANGED <<fetched, reached>>
          \/ Trim(held)
      BY <2>5, <3>1 DEF LiveRow, paging
    <3>6. Trim(held) => /\ rows' \subseteq held
                        /\ fetched' = fetched \/ fetched' = {}
      BY <1>0, <3>2, TrimFacts
    <3>7. rows' \subseteq 1 .. last /\ fetched' \subseteq 1 .. last
      BY <1>0, <3>2, <3>5, <3>6 DEF Types, TypeOK
    <3>8. TypeOK'
      BY <2>1, <3>3, <3>4, <3>7 DEF Types, TypeOK, catching
    <3> QED
      BY <2>1, <2>2, <3>3, <3>8 DEF Types, NoPlan, catching
  <2>6. CASE e.kind = "cursor" /\ CursorSet(e.id) /\ UNCHANGED <<rows, joined, catching, paging>>
    <3>1. cursor' \in 0 .. last /\ posts' = posts
      BY <1>0, <2>2, <2>3, <2>6 DEF CursorSet, WireEvent
    <3>2. TypeOK'
      BY <2>1, <2>6, <3>1 DEF Types, TypeOK, catching, paging
    <3> QED
      BY <2>1, <2>2, <2>6, <3>2 DEF Types, NoPlan, catching
  <2>7. CASE e.kind = "state" /\ joined' = (e.id = 1)
             /\ UNCHANGED <<rows, catching, paging, reading>>
    <3>1. TypeOK'
      BY <2>1, <2>7 DEF Types, TypeOK, catching, paging, reading
    <3> QED
      BY <2>1, <2>2, <2>7, <3>1 DEF Types, NoPlan, catching
  <2>8. CASE e.kind = "lost" /\ anchor' = Noted
             /\ UNCHANGED <<rows, joined, plan, paging, reading>>
    <3>1. PICK h : h = HighWater(rows)
      OBVIOUS
    <3>2. h \in 0 .. last
      BY <1>0, <3>1, HighWaterFacts
    <3>3. anchor' \in 0 .. last
      BY <1>0, <2>8, <3>1, <3>2 DEF Noted
    <3>4. TypeOK'
      BY <2>1, <2>8, <3>3 DEF Types, TypeOK, paging, reading
    <3> QED
      BY <2>1, <2>2, <2>8, <3>4 DEF Types, NoPlan
  <2>9. CASE e.kind = "connected" /\ UNCHANGED <<rows, joined, anchor, plan, paging, reading>>
    <3>1. TypeOK'
      BY <2>1, <2>9 DEF Types, TypeOK, paging, reading
    <3> QED
      BY <2>1, <2>2, <2>9, <3>1 DEF Types, NoPlan
  <2> QED
    BY <2>4, <2>5, <2>6, <2>7, <2>8, <2>9
<1>6. CASE CatchUpRead
  <2>1. UNCHANGED <<last, srvCursor, link, wire, joined, anchor, cursor, posts, missed, leftAt>>
        /\ plan' = NoPlan
    BY <1>6 DEF CatchUpRead, server, socket, reading
  <2>2. PICK page : page = PageOf(plan)
    OBVIOUS
  <2>3. page \subseteq 1 .. last
    BY <1>0, <2>2, PageTypes
  <2>4. rows' \subseteq rows \union page /\ (fetched' = fetched \/ fetched' = {})
    BY <1>6, <2>2 DEF CatchUpRead, Replaced, paging
  <2>5. WireTypes'
    BY <2>1 DEF Types, WireTypes
  <2>7. plan' \in [kind : {"none", "forward", "reload"}, anchor : 0 .. last]
    BY <1>0, <2>1 DEF NoPlan, None
  <2>8. rows' \subseteq 1 .. last /\ fetched' \subseteq 1 .. last
    BY <1>0, <2>3, <2>4 DEF Types, TypeOK
  <2>6. TypeOK'
    BY <1>0, <2>1, <2>7, <2>8 DEF Types, TypeOK
  <2> QED
    BY <2>1, <2>5, <2>6 DEF Types, NoPlan
<1>7. CASE CatchUpFails \/ \E p \in BOOLEAN : CatchUpProbe(p)
  <2>1. /\ UNCHANGED <<last, srvCursor, link, wire, rows, joined, fetched, cursor, posts, missed,
                       leftAt>>
        /\ anchor' = anchor \/ anchor' = None
        /\ \/ plan' = NoPlan
           \/ plan' \in {[kind |-> "forward", anchor |-> anchor],
                         [kind |-> "reload", anchor |-> anchor]}
    BY <1>7 DEF CatchUpFails, CatchUpProbe, Planned, server, socket, reading, paging
  <2>2. WireTypes'
    BY <2>1 DEF Types, WireTypes
  <2>3. plan' \in [kind : {"none", "forward", "reload"}, anchor : 0 .. last]
        /\ (plan' = NoPlan \/ plan'.kind \in {"forward", "reload"})
    BY <1>0, <2>1 DEF NoPlan, None
  <2>4. TypeOK'
    BY <1>0, <2>1, <2>3 DEF Types, TypeOK, None
  <2> QED
    BY <2>1, <2>2, <2>3, <2>4 DEF Types, NoPlan
<1>8. CASE RebuildChat \/ SelectOther
  <2>1. UNCHANGED <<last, srvCursor, link, wire, joined, anchor, plan, missed>> /\ Trim(rows)
    BY <1>8 DEF RebuildChat, SelectOther, server, socket, catching, ghosts
  <2>2. rows' \subseteq rows /\ (fetched' = fetched \/ fetched' = {})
    BY <1>0, <2>1, TrimFacts
  <2>3. cursor' \in 0 .. last /\ posts' \in SUBSET (1 .. last)
    <3>1. RebuildChat => UNCHANGED <<cursor, posts>>
      BY DEF RebuildChat, reading
    <3>2. SelectOther => WriteBack(rows)
      BY DEF SelectOther
    <3> QED
      BY <1>0, <1>8, <3>1, <3>2, WriteBackFacts
  <2>4. leftAt' \in 0 .. last
    <3>1. PICK h : h = HighWater(rows)
      OBVIOUS
    <3>2. h \in 0 .. last
      BY <1>0, <3>1, HighWaterFacts
    <3> QED
      BY <1>8, <3>1, <3>2 DEF RebuildChat, SelectOther, ghosts, Types, TypeOK
  <2>5. WireTypes'
    BY <2>1 DEF Types, WireTypes
  <2>6. TypeOK'
    BY <1>0, <2>1, <2>2, <2>3, <2>4 DEF Types, TypeOK
  <2> QED
    BY <2>1, <2>5, <2>6 DEF Types, NoPlan
<1>9. CASE Select \/ ReadStateChanged
  <2>1. UNCHANGED <<last, srvCursor, link, wire, rows, joined, anchor, plan, fetched, missed,
                    leftAt>>
    BY <1>9 DEF Select, ReadStateChanged, server, socket, catching, paging, ghosts
  <2>2. \/ /\ cursor < HighWater(rows) /\ cursor' = HighWater(rows)
           /\ posts' = posts \union {HighWater(rows)}
        \/ UNCHANGED <<cursor, posts>>
    BY <1>9 DEF Select, ReadStateChanged, reading
  <2>3. cursor' \in 0 .. last /\ posts' \in SUBSET (1 .. last)
    BY <1>0, <2>2, WriteFacts
  <2>4. WireTypes'
    BY <2>1 DEF Types, WireTypes
  <2>5. TypeOK'
    BY <2>1, <2>3 DEF Types, TypeOK
  <2> QED
    BY <2>1, <2>4, <2>5 DEF Types, NoPlan
<1>10. CASE LoadOlder
  <2>1. UNCHANGED <<last, srvCursor, link, wire, joined, anchor, plan, cursor, posts, missed,
                    leftAt>>
    BY <1>10 DEF LoadOlder, server, socket, catching, reading, ghosts
  <2>2. Oldest \in rows
    <3>1. rows \in SUBSET Nat /\ rows # {}
      BY <1>0, <1>10 DEF LoadOlder
    <3>2. Min(rows) \in rows
      BY <3>1, MinIsLeast
    <3> QED
      BY <3>1, <3>2 DEF Oldest
  <2>3. OlderRows \subseteq 1 .. last
    <3>1. PICK o : o = Oldest
      OBVIOUS
    <3>2. o \in 1 .. last
      BY <1>0, <2>2, <3>1
    <3> QED
      BY <1>0, <3>1, <3>2 DEF OlderRows, Newest
  <2>4. fetched' \subseteq fetched \union {Oldest} /\ rows' \subseteq rows \union OlderRows
    BY <1>10 DEF LoadOlder
  <2>5. WireTypes'
    BY <2>1 DEF Types, WireTypes
  <2>6. TypeOK'
    BY <1>0, <2>1, <2>2, <2>3, <2>4 DEF Types, TypeOK
  <2> QED
    BY <2>1, <2>5, <2>6 DEF Types, NoPlan
<1>11. CASE UNCHANGED vars
  BY <1>11 DEF vars, Types, TypeOK, WireTypes, NoPlan
<1> QED
  BY <1>1, <1>2, <1>3, <1>4, <1>5, <1>6, <1>7, <1>8, <1>9, <1>10, <1>11
     DEF Next, World, Worker, Reader

-----------------------------------------------------------------------------
(* The start of the history. *)

\* A page under the oldest row that holds nothing new is empty.
LEMMA NothingOlder ==
    ASSUME NEW o \in Nat \ {0}, Newest(OlderPage, 1, o - 1) \subseteq rows,
           \A r \in rows : o <= r, rows \in SUBSET Nat
    PROVE  o = 1
<1> SUFFICES ASSUME o # 1 PROVE FALSE
  OBVIOUS
<1>1. OlderPage \in Nat \ {0}
  BY TranscriptConstants
<1>2. o - 1 \in Newest(OlderPage, 1, o - 1)
  BY <1>1 DEF Newest
<1> QED
  BY <1>2

LEMMA StartNext == Types /\ StartInv /\ [Next]_vars => StartInv'
<1> SUFFICES ASSUME Types, StartInv, [Next]_vars PROVE StartInv'
  OBVIOUS
<1>0. last \in Nat /\ rows \in SUBSET (1 .. last) /\ OlderPage \in Nat \ {0}
  BY Ranges, TranscriptConstants
<1>a. ASSUME rows \subseteq rows', UNCHANGED <<fetched, reached>> PROVE StartInv'
  <2>1. reached' => 1 \in rows'
    BY <1>a DEF StartInv
  <2>2. \A f \in fetched : Newest(OlderPage, 1, f - 1) \subseteq rows'
    BY <1>a DEF StartInv
  <2> QED
    BY <1>a, <2>1, <2>2 DEF StartInv, Newest
<1>b. ASSUME reached' = FALSE, fetched' = {} PROVE StartInv'
  BY <1>b DEF StartInv
<1>c. ASSUME NEW held \in SUBSET (1 .. last), rows \subseteq held, Trim(held) PROVE StartInv'
  <2>1. \/ rows' = held /\ UNCHANGED <<fetched, reached>>
        \/ reached' = FALSE /\ fetched' = {}
    BY <1>0, <1>c, TrimFacts
  <2> QED
    BY <1>a, <1>b, <1>c, <2>1
<1>1. CASE World \/ Select \/ ReadStateChanged \/ CatchUpFails \/ UNCHANGED vars
           \/ \E p \in BOOLEAN : CatchUpProbe(p)
  <2>1. UNCHANGED <<rows, fetched, reached>>
    BY <1>1 DEF World, ServerRow, SocketLost, SocketBack, TopicJoined, ServerMember, CursorLands,
                CursorFails, Select, ReadStateChanged, CatchUpFails, CatchUpProbe, paging, vars
  <2> QED
    BY <1>a, <2>1
<1>2. CASE ReadEvent
  <2>1. PICK e : e = Head(wire)
    OBVIOUS
  <2>2. (e.kind = "row" /\ LiveRow(e.id)) \/ UNCHANGED <<rows, paging>>
    BY <1>2, <2>1 DEF ReadEvent
  <2>3. CASE e.kind = "row" /\ LiveRow(e.id)
    <3>1. PICK held : held = rows \union {e.id}
      OBVIOUS
    <3>2. wire # << >> /\ wire' = Tail(wire) /\ UNCHANGED <<last, srvCursor>>
      BY <1>2 DEF ReadEvent, server
    <3>3. e.id \in 1 .. last
      BY <2>1, <2>3, <3>2, ReadTypes
    <3>4. held \in SUBSET (1 .. last) /\ rows \subseteq held
      BY <1>0, <3>1, <3>3
    <3>5. \/ rows' \in {rows, held} /\ UNCHANGED <<fetched, reached>>
          \/ Trim(held)
      BY <2>3, <3>1 DEF LiveRow, paging
    <3> QED
      BY <1>a, <1>c, <3>4, <3>5
  <2> QED
    BY <1>a, <2>2, <2>3 DEF paging
<1>3. CASE RebuildChat \/ SelectOther
  <2>1. Trim(rows)
    BY <1>3 DEF RebuildChat, SelectOther
  <2> QED
    BY <1>0, <1>c, <2>1
<1>4. CASE CatchUpRead
  <2>1. \/ reached' = FALSE /\ fetched' = {}
        \/ rows \subseteq rows' /\ UNCHANGED <<fetched, reached>>
    BY <1>4 DEF CatchUpRead, paging
  <2> QED
    BY <1>a, <1>b, <2>1
<1>5. CASE LoadOlder
  <2>1. PICK o : o = Oldest
    OBVIOUS
  <2>2. o \in rows /\ \A r \in rows : o <= r
    <3>1. rows \in SUBSET Nat /\ rows # {}
      BY <1>0, <1>5 DEF LoadOlder
    <3>2. Min(rows) \in rows /\ \A r \in rows : Min(rows) <= r
      BY <3>1, MinIsLeast
    <3> QED
      BY <2>1, <3>1, <3>2 DEF Oldest
  <2>3. PICK page : page = Newest(OlderPage, 1, o - 1)
    OBVIOUS
  <2>4. o \in Nat \ {0} /\ rows \in SUBSET Nat
    BY <1>0, <2>2
  <2>5. page \subseteq rows => o = 1
    BY <2>2, <2>3, <2>4, NothingOlder
  <2>6. CASE o \in fetched
    <3>1. reached' = TRUE /\ UNCHANGED <<rows, fetched>>
      BY <1>5, <2>1, <2>6 DEF LoadOlder
    <3>2. page \subseteq rows
      BY <2>3, <2>6 DEF StartInv
    <3>3. 1 \in rows
      BY <2>2, <2>5, <3>2
    <3> QED
      BY <3>1, <3>3 DEF StartInv
  <2>7. CASE o \notin fetched
    <3>1. /\ fetched' = fetched \union {o} /\ rows' = rows \union page
          /\ reached' = ReachedBy(page)
      BY <1>5, <2>1, <2>3, <2>7 DEF LoadOlder, OlderRows
    <3>2. ASSUME reached' PROVE 1 \in rows'
      <4>1. CASE page \subseteq rows
        BY <2>2, <2>5, <3>1, <4>1
      <4>2. CASE Cardinality(page) < OlderPage
        <5>1. page = 1 .. o - 1
          BY <1>0, <2>3, <2>4, <4>2, ShortPage
        <5>2. 1 \in page \/ o = 1
          BY <2>4, <5>1
        <5> QED
          BY <2>2, <3>1, <5>2
      <4> QED
        BY <3>1, <3>2, <4>1, <4>2 DEF ReachedBy
    <3>3. \A f \in fetched' : Newest(OlderPage, 1, f - 1) \subseteq rows'
      <4> SUFFICES ASSUME NEW f \in fetched' PROVE Newest(OlderPage, 1, f - 1) \subseteq rows'
        OBVIOUS
      <4>1. CASE f \in fetched
        <5>1. Newest(OlderPage, 1, f - 1) \subseteq rows
          BY <4>1 DEF StartInv
        <5> QED
          BY <3>1, <5>1
      <4>2. CASE f = o
        BY <2>3, <3>1, <4>2
      <4> QED
        BY <3>1, <4>1, <4>2
    <3> QED
      BY <3>2, <3>3 DEF StartInv, Newest
  <2> QED
    BY <2>6, <2>7
<1> QED
  BY <1>1, <1>2, <1>3, <1>4, <1>5 DEF Next, Worker, Reader

-----------------------------------------------------------------------------
(* The read cursor. *)

LEMMA CursorNext == Types /\ CursorInv /\ [Next]_vars => CursorInv'
<1> SUFFICES ASSUME Types, CursorInv, [Next]_vars, ~unposted' PROVE CursorInv'
  BY DEF CursorInv
<1>0. /\ last \in Nat /\ srvCursor \in 0 .. last /\ cursor \in 0 .. last /\ leftAt \in 0 .. last
      /\ rows \in SUBSET (1 .. last) /\ posts \in SUBSET (1 .. last)
  BY Ranges DEF Types, TypeOK
<1>a. ~unposted => Reaches(cursor) /\ Reaches(leftAt)
  BY DEF CursorInv
<1>b. ASSUME NEW n \in Nat, Reaches(n), srvCursor' \in Nat, srvCursor <= srvCursor',
             \A p \in posts : p \in posts' \/ p <= srvCursor'
      PROVE  srvCursor' >= n \/ \E p \in posts' : p >= n
  <2>1. CASE srvCursor >= n
    BY <1>0, <1>b, <2>1
  <2>2. CASE \E p \in posts : p >= n
    <3>1. PICK p \in posts : p >= n
      BY <2>2
    <3>2. p \in Nat
      BY <1>0
    <3> QED
      BY <1>0, <1>b, <3>1, <3>2
  <2> QED
    BY <1>b, <2>1, <2>2 DEF Reaches
<1>c. ASSUME ~unposted, srvCursor' = srvCursor, posts \subseteq posts',
             cursor' \in 0 .. last, cursor' = cursor \/ cursor' \in posts' \/ cursor' <= srvCursor,
             leftAt' \in 0 .. last, leftAt' = leftAt \/ leftAt' <= cursor',
             posts' \in SUBSET (1 .. last)
      PROVE  CursorInv'
  <2>1. srvCursor' >= cursor' \/ \E p \in posts' : p >= cursor'
    <3>1. CASE cursor' = cursor
      BY <1>0, <1>a, <1>b, <1>c, <3>1
    <3>2. CASE cursor' \in posts'
      BY <1>c, <3>2
    <3>3. CASE cursor' <= srvCursor
      BY <1>0, <1>c, <3>3
    <3> QED
      BY <1>c, <3>1, <3>2, <3>3
  <2>2. srvCursor' >= leftAt' \/ \E p \in posts' : p >= leftAt'
    <3>1. CASE leftAt' = leftAt
      BY <1>0, <1>a, <1>b, <1>c, <3>1
    <3>2. CASE leftAt' <= cursor'
      <4>1. CASE srvCursor' >= cursor'
        BY <1>0, <1>c, <3>2, <4>1
      <4>2. ASSUME NEW p \in posts', p >= cursor' PROVE p >= leftAt'
        BY <1>0, <1>c, <3>2, <4>2
      <4> QED
        BY <2>1, <4>1, <4>2
    <3> QED
      BY <1>c, <3>1, <3>2
  <2> QED
    BY <2>1, <2>2 DEF CursorInv, Reaches
<1>1. CASE \/ ServerRow \/ SocketLost \/ SocketBack \/ TopicJoined \/ ServerMember
           \/ CatchUpRead \/ CatchUpFails \/ RebuildChat \/ LoadOlder \/ UNCHANGED vars
           \/ \E p \in BOOLEAN : CatchUpProbe(p)
  <2>1. UNCHANGED <<srvCursor, cursor, posts, unposted, leftAt>>
    BY <1>1 DEF ServerRow, SocketLost, SocketBack, TopicJoined, ServerMember, CatchUpRead,
                CatchUpFails, RebuildChat, LoadOlder, CatchUpProbe, server, reading, ghosts, vars
  <2> QED
    BY <1>a, <2>1 DEF CursorInv, Reaches
<1>2. CASE \E id \in posts : CursorLands(id)
  <2>1. PICK id \in posts : CursorLands(id)
    BY <1>2
  <2>2. id \in Nat
    BY <1>0
  <2>3. UNCHANGED <<cursor, unposted, leftAt>> /\ posts' = posts \ {id}
        /\ srvCursor' = (IF id > srvCursor THEN id ELSE srvCursor)
    BY <2>1 DEF CursorLands, ghosts
  <2>4. /\ srvCursor' \in Nat /\ srvCursor <= srvCursor'
        /\ \A p \in posts : p \in posts' \/ p <= srvCursor'
    BY <1>0, <2>2, <2>3
  <2>5. /\ srvCursor' >= cursor \/ \E p \in posts' : p >= cursor
        /\ srvCursor' >= leftAt \/ \E p \in posts' : p >= leftAt
    BY <1>0, <1>a, <1>b, <2>3, <2>4
  <2> QED
    BY <2>3, <2>5 DEF CursorInv, Reaches
<1>3. CASE \E id \in posts : CursorFails(id)
  BY <1>3 DEF CursorFails
<1>4. CASE ReadEvent
  <2>1. wire # << >> /\ wire' = Tail(wire) /\ UNCHANGED <<last, srvCursor, unposted, leftAt>>
    BY <1>4 DEF ReadEvent, server, ghosts
  <2>2. PICK e : e = Head(wire)
    OBVIOUS
  <2>3. /\ e.kind = "row" => e.id \in 1 .. last
        /\ e.kind = "cursor" => e.id <= srvCursor /\ e.id \in Nat
    <3>1. Head(wire) \in WireEvent
      BY <2>1, ReadTypes
    <3> QED
      BY <2>1, <2>2, <3>1, ReadTypes DEF WireEvent
  <2>4. \/ e.kind = "row" /\ WriteBack(rows \union {e.id})
        \/ e.kind = "cursor" /\ cursor' = e.id /\ posts' = posts
        \/ UNCHANGED <<cursor, posts>>
    BY <1>4, <2>2 DEF ReadEvent, LiveRow, CursorSet, reading
  <2>5. CASE e.kind = "row" /\ WriteBack(rows \union {e.id})
    <3>1. PICK held : held = rows \union {e.id}
      OBVIOUS
    <3>2. held \in SUBSET (1 .. last)
      BY <1>0, <2>3, <2>5, <3>1
    <3>3. /\ cursor' \in 0 .. last /\ posts' \in SUBSET (1 .. last) /\ posts \subseteq posts'
          /\ cursor' = cursor \/ cursor' \in posts'
      BY <1>0, <2>5, <3>1, <3>2, WriteBackFacts
    <3> QED
      BY <1>0, <1>c, <2>1, <3>3
  <2>6. CASE e.kind = "cursor" /\ cursor' = e.id /\ posts' = posts
    <3>1. cursor' \in 0 .. last
      BY <1>0, <2>3, <2>6
    <3> QED
      BY <1>0, <1>c, <2>1, <2>3, <2>6, <3>1
  <2>7. CASE UNCHANGED <<cursor, posts>>
    BY <1>0, <1>c, <2>1, <2>7
  <2> QED
    BY <2>4, <2>5, <2>6, <2>7
<1>5. CASE Select \/ ReadStateChanged
  <2>1. UNCHANGED <<srvCursor, unposted, leftAt>>
    BY <1>5 DEF Select, ReadStateChanged, server, ghosts
  <2>2. \/ /\ cursor < HighWater(rows) /\ cursor' = HighWater(rows)
           /\ posts' = posts \union {HighWater(rows)}
        \/ UNCHANGED <<cursor, posts>>
    BY <1>5 DEF Select, ReadStateChanged, reading
  <2>3. /\ cursor' \in 0 .. last /\ posts' \in SUBSET (1 .. last) /\ posts \subseteq posts'
        /\ cursor' = cursor \/ cursor' \in posts'
    BY <1>0, <2>2, WriteFacts
  <2> QED
    BY <1>0, <1>c, <2>1, <2>3
<1>6. CASE SelectOther
  <2>1. UNCHANGED <<srvCursor, unposted>> /\ WriteBack(rows)
    BY <1>6 DEF SelectOther, server
  <2>2. /\ cursor' \in 0 .. last /\ posts' \in SUBSET (1 .. last) /\ posts \subseteq posts'
        /\ cursor' = cursor \/ cursor' \in posts'
        /\ AtBottom => HighWater(rows) <= cursor'
    BY <1>0, <2>1, WriteBackFacts
  <2>3. PICK h : h = HighWater(rows)
    OBVIOUS
  <2>4. h \in 0 .. last
    BY <1>0, <2>3, HighWaterFacts
  <2>5. leftAt' \in 0 .. last /\ (leftAt' = leftAt \/ leftAt' <= cursor')
    BY <1>0, <1>6, <2>2, <2>3, <2>4 DEF SelectOther
  <2> QED
    BY <1>0, <1>c, <2>1, <2>2, <2>5
<1> QED
  BY <1>1, <1>2, <1>3, <1>4, <1>5, <1>6 DEF Next, World, Worker, Reader

-----------------------------------------------------------------------------
(* The link. *)

LEMMA LinkNext == Types /\ LinkInv /\ [Next]_vars => LinkInv'
<1> SUFFICES ASSUME Types, LinkInv, [Next]_vars, link' = "down" PROVE LinkInv'
  BY DEF LinkInv
<1>0. wire \in Seq(WireEvent)
  BY DEF Types, WireTypes
<1>1. CASE SocketLost
  <2>1. wire' = Append(wire, Event("lost", 0)) /\ sub' = FALSE
    BY <1>1 DEF SocketLost
  <2>2. Event("lost", 0) \in WireEvent /\ Event("lost", 0).kind = "lost"
    BY DEF Event, WireEvent
  <2>3. wire'[Len(wire')] = Event("lost", 0)
    BY <1>0, <2>1, <2>2, AppendedWire
  <2> QED
    BY <2>1, <2>2, <2>3 DEF LinkInv
<1>2. CASE SocketBack \/ TopicJoined
  BY <1>2 DEF SocketBack, TopicJoined
<1>3. CASE \/ ServerRow \/ ServerMember \/ \E id \in posts : CursorLands(id)
  <2>1. link = "down" /\ sub' = sub
    BY <1>3 DEF ServerRow, ServerMember, CursorLands, socket
  <2>2. wire' = wire
    BY <1>3, <2>1 DEF ServerRow, ServerMember, CursorLands, Pushed
  <2> QED
    BY <2>1, <2>2 DEF LinkInv
<1>4. CASE ReadEvent
  <2>1. wire # << >> /\ wire' = Tail(wire) /\ link = "down" /\ sub' = sub
    BY <1>4 DEF ReadEvent, socket
  <2>2. Len(wire') = Len(wire) - 1 /\ Len(wire) \in Nat \ {0}
        /\ \A i \in 1 .. Len(wire) - 1 : wire'[i] = wire[i + 1]
        /\ wire' \in Seq(WireEvent)
    BY <1>0, <2>1, ReadWire
  <2>3. wire' # << >> => wire'[Len(wire')] = wire[Len(wire)]
    BY <2>2
  <2> QED
    BY <2>1, <2>3 DEF LinkInv
<1>5. CASE \/ \E id \in posts : CursorFails(id)
           \/ CatchUpRead \/ CatchUpFails \/ RebuildChat \/ Reader \/ UNCHANGED vars
           \/ \E p \in BOOLEAN : CatchUpProbe(p)
  <2>1. UNCHANGED <<link, sub, wire>>
    BY <1>5 DEF CursorFails, CatchUpRead, CatchUpFails, RebuildChat, Reader, Select, SelectOther,
                LoadOlder, ReadStateChanged, CatchUpProbe, socket, vars
  <2> QED
    BY <2>1 DEF LinkInv
<1> QED
  BY <1>1, <1>2, <1>3, <1>4, <1>5 DEF Next, World, Worker

-----------------------------------------------------------------------------
(* The catch-up. *)

\* The reader's steps: what was held or older than all rows held stays so.
LEMMA QuietKeeps ==
    ASSUME Types, CatchParts, UNCHANGED <<link, wire, joined, anchor, plan, missed>>,
           rows' \in SUBSET Nat, rows = {} => rows' = {},
           \A id \in missed : (id \in rows \/ \A r \in rows : id < r)
                                  => (id \in rows' \/ \A r \in rows' : id < r),
           \A o \in rows' : \E r \in rows : o <= r
    PROVE  CatchParts'
<1>0. rows \in SUBSET Nat /\ missed \in SUBSET Nat
  BY Ranges DEF Types, TypeOK
<1>1. AnchorInv' /\ PlanInv'
  BY DEF CatchParts, AnchorInv, PlanInv, LostWaits
<1>2. HoleInv'
  <2> SUFFICES ASSUME NEW id \in missed
               PROVE  Known(id)' \/ \E i \in DOMAIN wire : Unread(id, i)'
    BY DEF HoleInv
  <2>1. CASE Known(id)
    <3>1. Coming(id) => Coming(id)'
      BY DEF Coming
    <3> QED
      BY <2>1, <3>1 DEF Known, Below
  <2>2. ASSUME NEW i \in DOMAIN wire, Unread(id, i) PROVE Unread(id, i)'
    <3>1. JoinedAt(i)'
      BY <2>2 DEF Unread, JoinedAt
    <3>2. ASSUME NEW o \in rows' PROVE o < id
      <4>1. PICK r \in rows : o <= r
        OBVIOUS
      <4>2. r < id
        BY <2>2 DEF Unread
      <4> QED
        BY <1>0, <4>1, <4>2
    <3> QED
      BY <2>2, <3>1, <3>2 DEF Unread
  <2> QED
    BY <2>1, <2>2 DEF CatchParts, HoleInv
<1> QED
  BY <1>1, <1>2 DEF CatchParts

\* The steps that at most append an event other than a row.
LEMMA AppendKeeps ==
    ASSUME Types, CatchParts, UNCHANGED <<rows, joined, anchor, plan, missed>>,
           NEW e \in WireEvent, e.kind # "row",
           wire' = wire \/ wire' = Append(wire, e),
           link' = "down" => \/ link = "down"
                             \/ wire' = Append(wire, e) /\ e.kind = "lost"
    PROVE  CatchParts'
<1>0. /\ Len(wire) \in Nat /\ DOMAIN wire = 1 .. Len(wire) /\ wire \in Seq(WireEvent)
      /\ DOMAIN wire \subseteq DOMAIN wire'
      /\ \A i \in DOMAIN wire : wire'[i] = wire[i]
      /\ \A i \in DOMAIN wire' : i \in DOMAIN wire \/ wire'[i] = e
      /\ wire' = << >> => wire' = wire
      /\ wire' = Append(wire, e) =>
            wire' # << >> /\ \E i \in DOMAIN wire' : wire'[i] = e
  <2>1. wire \in Seq(WireEvent)
    BY DEF Types, WireTypes
  <2>2. CASE wire' = wire
    <3>1. wire' # Append(wire, e)
      BY <2>1, <2>2
    <3> QED
      BY <2>1, <2>2, <3>1
  <2>3. CASE wire' = Append(wire, e)
    <3>1. /\ wire' # << >> /\ DOMAIN wire = 1 .. Len(wire) /\ DOMAIN wire' = 1 .. Len(wire) + 1
          /\ Len(wire) \in Nat
          /\ \A i \in DOMAIN wire : wire'[i] = wire[i]
          /\ wire'[Len(wire) + 1] = e
      BY <2>1, <2>3, AppendedWire
    <3>2. Len(wire) + 1 \in DOMAIN wire'
      BY <3>1
    <3>3. \A i \in DOMAIN wire' : i \in DOMAIN wire \/ i = Len(wire) + 1
      BY <3>1
    <3> QED
      BY <2>1, <3>1, <3>2, <3>3
  <2> QED
    BY <2>2, <2>3
<1>1. LostWaits => LostWaits'
  BY <1>0 DEF LostWaits
<1>2. AnchorInv'
  BY <1>0 DEF CatchParts, AnchorInv
<1>3. PlanInv'
  <2>1. plan # NoPlan /\ link' = "down" => LostWaits'
    BY <1>0, <1>1 DEF CatchParts, PlanInv, LostWaits
  <2> QED
    BY <1>1, <2>1 DEF CatchParts, PlanInv
<1>4. HoleInv'
  <2> SUFFICES ASSUME NEW id \in missed
               PROVE  Known(id)' \/ \E i \in DOMAIN wire' : Unread(id, i)'
    BY DEF HoleInv
  <2>1. CASE Known(id)
    <3>1. Coming(id) => Coming(id)'
      BY DEF Coming
    <3>2. \A j \in DOMAIN wire' : wire'[j].kind = "row" => wire'[j].id > id
      BY <1>0, <2>1 DEF Known
    <3> QED
      BY <2>1, <3>1, <3>2 DEF Known, Below
  <2>2. ASSUME NEW i \in DOMAIN wire, Unread(id, i) PROVE Unread(id, i)'
    <3>0. \A j \in 1 .. i - 1 : j \in DOMAIN wire /\ wire'[j] = wire[j]
      BY <1>0
    <3>1. JoinedAt(i)'
      <4>1. CASE joined /\ \A j \in 1 .. i - 1 : wire[j].kind # "state"
        BY <3>0, <4>1 DEF JoinedAt
      <4>2. CASE \E j \in 1 .. i - 1 : /\ wire[j] = Event("state", 1)
                                       /\ \A k \in j + 1 .. i - 1 : wire[k].kind # "state"
        <5>1. PICK j \in 1 .. i - 1 : /\ wire[j] = Event("state", 1)
                                      /\ \A k \in j + 1 .. i - 1 : wire[k].kind # "state"
          BY <4>2
        <5>2. \A k \in j + 1 .. i - 1 : k \in 1 .. i - 1
          BY <1>0
        <5>3. wire'[j] = Event("state", 1) /\ \A k \in j + 1 .. i - 1 : wire'[k].kind # "state"
          BY <3>0, <5>1, <5>2
        <5> QED
          BY <5>3 DEF JoinedAt
      <4> QED
        BY <2>2, <4>1, <4>2 DEF Unread, JoinedAt
    <3>2. \A j \in DOMAIN wire' : wire'[j].kind = "row" => j \in DOMAIN wire /\ wire'[j] = wire[j]
      BY <1>0
    <3>3. wire'[i].kind = "lost"
      BY <1>0, <2>2 DEF Unread
    <3> QED
      BY <2>2, <3>1, <3>2, <3>3 DEF Unread
  <2> QED
    BY <1>0, <2>1, <2>2 DEF CatchParts, HoleInv
<1> QED
  BY <1>2, <1>3, <1>4 DEF CatchParts

LEMMA RowKeeps ==
    ASSUME Types, LinkInv, CatchParts, ServerRow
    PROVE  CatchParts'
<1>0. /\ last \in Nat /\ last' = last + 1
      /\ UNCHANGED <<link, rows, joined, anchor, plan>>
      /\ missed' = (IF link = "down" /\ JoinedAt(Len(wire) + 1) THEN missed \union {last + 1}
                    ELSE missed)
      /\ missed \subseteq 1 .. last /\ rows \subseteq 1 .. last /\ anchor \in 0 .. last
      /\ wire \in Seq(WireEvent) /\ DOMAIN wire = 1 .. Len(wire) /\ Len(wire) \in Nat
      /\ \A j \in DOMAIN wire : wire[j].kind = "row" => wire[j].id \in 1 .. last
  <2>1. wire \in Seq(WireEvent)
    BY DEF Types, WireTypes
  <2> QED
    BY <2>1, Ranges DEF ServerRow, socket, catching, Types, TypeOK, WireTypes
<1>1. CASE link = "down"
  <2>1. wire' = wire
    BY <1>1 DEF ServerRow, Pushed, LinkInv
  <2>2. AnchorInv'
    BY <1>0, <2>1 DEF CatchParts, AnchorInv
  <2>3. PlanInv'
    BY <1>0, <1>1, <2>1 DEF CatchParts, PlanInv, LostWaits
  <2>4. ASSUME NEW id \in missed PROVE Known(id)' \/ \E i \in DOMAIN wire' : Unread(id, i)'
    <3>1. Known(id) => Known(id)'
      BY <1>0, <2>1 DEF Known, Below, Coming
    <3>2. \A i \in DOMAIN wire : Unread(id, i) => Unread(id, i)'
      BY <1>0, <2>1 DEF Unread, JoinedAt
    <3> QED
      BY <2>1, <3>1, <3>2 DEF CatchParts, HoleInv
  <2>5. ASSUME JoinedAt(Len(wire) + 1), NEW id, id = last + 1
        PROVE  Known(id)' \/ \E i \in DOMAIN wire' : Unread(id, i)'
    <3>0. anchor < id /\ (\A r \in rows : r < id)
          /\ \A j \in DOMAIN wire : wire[j].kind = "row" => wire[j].id < id
      BY <1>0, <2>5
    <3>1. CASE wire = << >>
      <4>1. DOMAIN wire = {}
        BY <3>1
      <4>2. joined
        BY <2>5, <3>1 DEF JoinedAt
      <4>3. anchor # None \/ rows = {}
        BY <1>1, <3>1, <4>2 DEF CatchParts, AnchorInv
      <4>4. Known(id)
        BY <3>0, <4>1, <4>3 DEF Known, Below, Coming
      <4> QED
        BY <1>0, <2>1, <4>4 DEF Known, Below, Coming
    <3>2. CASE wire # << >>
      <4>1. PICK n : n = Len(wire)
        OBVIOUS
      <4>2. n \in DOMAIN wire /\ n \in Nat \ {0} /\ DOMAIN wire = 1 .. n
        BY <1>0, <3>2, <4>1
      <4>3. wire[n].kind = "lost"
        BY <1>1, <3>2, <4>1 DEF LinkInv
      <4>4. JoinedAt(n + 1)
        BY <2>5, <4>1
      <4>5. JoinedAt(n)
        <5>1. CASE joined /\ \A j \in 1 .. n : wire[j].kind # "state"
          <6>1. 1 .. n - 1 \subseteq 1 .. n
            BY <4>2
          <6> QED
            BY <5>1, <6>1 DEF JoinedAt
        <5>2. CASE \E j \in 1 .. n : /\ wire[j] = Event("state", 1)
                                     /\ \A k \in j + 1 .. n : wire[k].kind # "state"
          <6>1. PICK j \in 1 .. n : /\ wire[j] = Event("state", 1)
                                    /\ \A k \in j + 1 .. n : wire[k].kind # "state"
            BY <5>2
          <6>2. j # n
            BY <4>3, <6>1 DEF Event
          <6>3. j \in 1 .. n - 1 /\ j + 1 .. n - 1 \subseteq j + 1 .. n
            BY <4>2, <6>2
          <6> QED
            BY <6>1, <6>3 DEF JoinedAt
        <5>3. PICK m : m = n + 1
          OBVIOUS
        <5>4. JoinedAt(m) /\ m - 1 = n
          BY <4>2, <4>4, <5>3
        <5>5. \/ joined /\ \A j \in 1 .. n : wire[j].kind # "state"
              \/ \E j \in 1 .. n : /\ wire[j] = Event("state", 1)
                                    /\ \A k \in j + 1 .. n : wire[k].kind # "state"
          BY <5>4, Zenon DEF JoinedAt
        <5> QED
          BY <5>1, <5>2, <5>5
      <4>6. \A j \in DOMAIN wire : ~(j > n)
        BY <4>2
      <4>7. Unread(id, n)
        BY <3>0, <4>2, <4>3, <4>5, <4>6 DEF Unread
      <4>8. Unread(id, n)'
        BY <1>0, <2>1, <4>7 DEF Unread, JoinedAt
      <4> QED
        BY <2>1, <4>2, <4>8
    <3> QED
      BY <3>1, <3>2
  <2>6. HoleInv'
    <3> SUFFICES ASSUME NEW id \in missed'
                 PROVE  Known(id)' \/ \E i \in DOMAIN wire' : Unread(id, i)'
      BY DEF HoleInv
    <3>1. id \in missed \/ (JoinedAt(Len(wire) + 1) /\ id = last + 1)
      BY <1>0
    <3> QED
      BY <2>4, <2>5, <3>1
  <2> QED
    BY <2>2, <2>3, <2>6 DEF CatchParts
<1>2. CASE link # "down"
  <2>0. missed' = missed
    BY <1>0, <1>2
  <2>1. PICK e : e = Event("row", last + 1)
    OBVIOUS
  <2>2. e \in WireEvent /\ e.kind = "row" /\ e.id = last + 1
    BY <1>0, <2>1 DEF Event, WireEvent
  <2>3. wire' = wire \/ wire' = Append(wire, e)
    BY <1>0, <2>1 DEF ServerRow, Pushed
  <2>4. /\ DOMAIN wire \subseteq DOMAIN wire'
        /\ \A i \in DOMAIN wire : wire'[i] = wire[i]
        /\ \A i \in DOMAIN wire' : i \in DOMAIN wire
                                   \/ (i = Len(wire) + 1 /\ wire'[i] = e)
    <3>1. CASE wire' = wire
      BY <3>1
    <3>2. CASE wire' = Append(wire, e)
      <4>1. /\ DOMAIN wire' = 1 .. Len(wire) + 1
            /\ \A i \in DOMAIN wire : wire'[i] = wire[i]
            /\ wire'[Len(wire) + 1] = e
        BY <1>0, <2>2, <3>2, AppendedWire
      <4> QED
        BY <1>0, <4>1
    <3> QED
      BY <2>3, <3>1, <3>2
  <2>5. AnchorInv'
    BY <1>0, <1>2 DEF AnchorInv
  <2>6. PlanInv'
    <3>1. LostWaits => LostWaits'
      BY <2>4 DEF LostWaits
    <3> QED
      BY <1>0, <1>2, <2>0, <3>1 DEF CatchParts, PlanInv
  <2>7. HoleInv'
    <3> SUFFICES ASSUME NEW id \in missed
                 PROVE  Known(id)' \/ \E i \in DOMAIN wire' : Unread(id, i)'
      BY <2>0 DEF HoleInv
    <3>0. e.id > id /\ id \in 1 .. last
      BY <1>0, <2>2
    <3>1. CASE Known(id)
      <4>1. Coming(id) => Coming(id)'
        BY <1>0 DEF Coming
      <4>2. \A j \in DOMAIN wire' : wire'[j].kind = "row" => wire'[j].id > id
        BY <2>4, <3>0, <3>1 DEF Known
      <4> QED
        BY <1>0, <3>1, <4>1, <4>2 DEF Known, Below
    <3>2. ASSUME NEW i \in DOMAIN wire, Unread(id, i) PROVE Unread(id, i)'
      <4>0. i \in 1 .. Len(wire) /\ \A j \in 1 .. i - 1 : j \in DOMAIN wire /\ wire'[j] = wire[j]
        BY <1>0, <2>4
      <4>1. JoinedAt(i)'
        <5>1. CASE joined /\ \A j \in 1 .. i - 1 : wire[j].kind # "state"
          BY <1>0, <4>0, <5>1 DEF JoinedAt
        <5>2. CASE \E j \in 1 .. i - 1 : /\ wire[j] = Event("state", 1)
                                         /\ \A k \in j + 1 .. i - 1 : wire[k].kind # "state"
          <6>1. PICK j \in 1 .. i - 1 : /\ wire[j] = Event("state", 1)
                                        /\ \A k \in j + 1 .. i - 1 : wire[k].kind # "state"
            BY <5>2
          <6>2. \A k \in j + 1 .. i - 1 : k \in 1 .. i - 1
            BY <4>0
          <6>3. wire'[j] = Event("state", 1) /\ \A k \in j + 1 .. i - 1 : wire'[k].kind # "state"
            BY <4>0, <6>1, <6>2
          <6> QED
            BY <6>3 DEF JoinedAt
        <5> QED
          BY <3>2, <5>1, <5>2 DEF Unread, JoinedAt
      <4>2. ASSUME NEW j \in DOMAIN wire', wire'[j].kind = "row"
            PROVE  (j < i => wire'[j].id < id) /\ (j > i => wire'[j].id > id)
        <5>1. CASE j \in DOMAIN wire
          <6>1. wire'[j] = wire[j]
            BY <2>4, <5>1
          <6> QED
            BY <3>2, <4>2, <5>1, <6>1 DEF Unread
        <5>2. CASE j = Len(wire) + 1 /\ wire'[j] = e
          <6>1. ~(j < i)
            BY <1>0, <4>0, <5>2
          <6> QED
            BY <3>0, <5>2, <6>1
        <5> QED
          BY <2>4, <4>2, <5>1, <5>2
      <4>3. wire'[i].kind = "lost" /\ anchor' < id /\ \A r \in rows' : r < id
        BY <1>0, <2>4, <3>2 DEF Unread
      <4> QED
        BY <4>1, <4>2, <4>3 DEF Unread
    <3> QED
      BY <2>4, <3>1, <3>2 DEF CatchParts, HoleInv
  <2> QED
    BY <2>5, <2>6, <2>7 DEF CatchParts
<1> QED
  BY <1>1, <1>2

LEMMA ProbeKeeps ==
    ASSUME Types, CatchParts, NEW probed \in BOOLEAN, CatchUpProbe(probed), excuses' = {}
    PROVE  CatchParts'
<1>0. /\ last \in Nat /\ anchor \in 0 .. last /\ missed \subseteq 1 .. last
      /\ CatchUpPage \in Nat \ {0}
      /\ plan = NoPlan /\ anchor' = None /\ UNCHANGED <<link, wire, rows, joined, missed>>
      /\ plan' = IF anchor = None \/ Planned(probed) = "none" THEN NoPlan
                 ELSE [kind |-> Planned(probed), anchor |-> anchor]
  BY Ranges, TranscriptConstants DEF CatchUpProbe, server, socket, Types, TypeOK
<1>1. probed /\ link # "down" /\ ~LostWaits
  BY DEF CatchUpProbe, TooEarly, LostWaits
<1>2. AnchorInv'
  BY <1>0, <1>1 DEF AnchorInv
<1>3. PlanInv'
  <2>1. ASSUME plan'.kind = "forward", plan' # NoPlan
        PROVE  \A id \in missed : id <= plan'.anchor + CatchUpPage
    <3>1. plan'.anchor = anchor /\ ~(Gap > CatchUpPage)
      BY <1>0, <1>1, <2>1 DEF Planned, NoPlan
    <3> QED
      BY <1>0, <3>1 DEF Gap
  <2> QED
    BY <1>0, <1>1, <2>1 DEF PlanInv
<1>4. HoleInv'
  <2> SUFFICES ASSUME NEW id \in missed PROVE Known(id)'
    BY <1>0 DEF HoleInv
  <2>1. Known(id)
    BY <1>1 DEF CatchParts, HoleInv, Unread, LostWaits
  <2>2. CASE id \in rows \/ Below(id)
    BY <1>0, <2>1, <2>2 DEF Known, Below
  <2>3. CASE Coming(id)
    <3>1. anchor # None /\ anchor < id
      BY <1>0, <2>3 DEF Coming, NoPlan
    <3>2. id <= last /\ id \in Nat
      BY <1>0
    <3>3. Gap # 0
      BY <1>0, <3>1, <3>2 DEF Gap
    <3>4. Planned(probed) \in {"reload", "forward"}
      BY <1>1, <3>3 DEF Planned
    <3>5. plan' = [kind |-> Planned(probed), anchor |-> anchor]
      BY <1>0, <3>1, <3>4
    <3>6. plan' # NoPlan /\ plan'.anchor = anchor
      BY <3>4, <3>5 DEF NoPlan
    <3> QED
      BY <1>0, <2>1, <3>1, <3>6 DEF Known, Coming
  <2> QED
    BY <2>1, <2>2, <2>3 DEF Known
<1> QED
  BY <1>2, <1>3, <1>4 DEF CatchParts

LEMMA PageKeeps ==
    ASSUME Types, CatchParts, CatchUpRead, excuses' = {}
    PROVE  CatchParts'
<1>0. /\ last \in Nat /\ missed \subseteq 1 .. last /\ rows \subseteq 1 .. last
      /\ CatchUpPage \in Nat \ {0}
      /\ plan # NoPlan /\ plan' = NoPlan /\ UNCHANGED <<link, wire, joined, anchor, missed>>
      /\ plan.kind \in {"forward", "reload"} /\ plan.anchor \in 0 .. last
  BY Ranges, TranscriptConstants DEF CatchUpRead, server, socket, Types, TypeOK
<1>1. joined /\ link # "down" /\ ~LostWaits
  BY DEF CatchUpRead, TooEarly, LostWaits
<1>2. AnchorInv' /\ PlanInv'
  BY <1>0, <1>1 DEF AnchorInv, PlanInv
<1>3. PICK page : page = PageOf(plan)
  OBVIOUS
<1>4. page \subseteq 1 .. last
  BY <1>0, <1>3, PageTypes
<1>5. ASSUME NEW id \in missed PROVE Known(id)'
  <2>1. Known(id) /\ id \in 1 .. last
    BY <1>0, <1>1 DEF CatchParts, HoleInv, Unread, LostWaits
  <2>2. ASSUME id \in rows' \/ \A r \in rows' : id < r PROVE Known(id)'
    BY <1>0, <2>1, <2>2 DEF Known, Below
  <2>3. CASE plan.kind = "forward"
    <3>1. rows' = rows \union page
      BY <1>1, <1>3, <2>3 DEF CatchUpRead
    <3>2. id <= plan.anchor + CatchUpPage
      BY <1>0, <1>1, <2>3 DEF CatchParts, PlanInv
    <3>3. \A o \in 1 .. last : o \in page <=> o > plan.anchor /\ o <= plan.anchor + CatchUpPage
      BY <1>3, <2>3 DEF PageOf
    <3>4. CASE plan.anchor < id
      <4>1. id \in page
        BY <1>0, <2>1, <3>2, <3>3, <3>4
      <4> QED
        BY <2>2, <3>1, <4>1
    <3>5. CASE id \in rows
      BY <2>2, <3>1, <3>5
    <3>6. CASE Below(id) /\ ~(plan.anchor < id)
      <4>1. \A o \in page : id < o
        BY <1>0, <1>4, <2>1, <3>3, <3>6
      <4> QED
        BY <2>2, <3>1, <3>6, <4>1 DEF Below
    <3>7. CASE anchor # None /\ anchor < id
      BY <1>0, <2>1, <3>7 DEF Known, Coming
    <3> QED
      BY <2>1, <2>3, <3>4, <3>5, <3>6, <3>7 DEF Known, Coming
  <2>4. CASE plan.kind = "reload"
    <3>1. \A o \in 1 .. last : o \in page <=> o + CatchUpPage > last
      BY <1>3, <2>4 DEF PageOf, Newest
    <3>2. last \in page
      BY <1>0, <2>1, <3>1
    <3>3. rows' = {o \in rows : o > Max(page)} \union page
      BY <1>1, <1>3, <2>4, <3>2 DEF CatchUpRead, Replaced
    <3>4. page \in SUBSET (0 .. last) /\ page # {}
      BY <1>4, <3>2
    <3>5. Max(page) \in page /\ \A o \in page : o <= Max(page)
      BY <1>0, <3>4, MaxIsGreatest
    <3>6. CASE id \in page
      BY <2>2, <3>3, <3>6
    <3>7. CASE id \notin page
      <4>1. \A o \in page : id < o
        BY <1>0, <1>4, <2>1, <3>1, <3>7
      <4>2. PICK h : h = Max(page)
        OBVIOUS
      <4>3. h \in page /\ id < h /\ h \in Nat
        <5>1. h \in page
          BY <3>5, <4>2
        <5> QED
          BY <1>4, <4>1, <5>1
      <4>4. \A o \in rows' : id < o
        BY <1>0, <2>1, <3>3, <4>1, <4>2, <4>3
      <4> QED
        BY <2>2, <4>4
    <3> QED
      BY <3>6, <3>7
  <2> QED
    BY <1>0, <2>3, <2>4
<1>6. HoleInv'
  BY <1>0, <1>5 DEF HoleInv
<1> QED
  BY <1>2, <1>6 DEF CatchParts

\* The event at the head of the wire and what it changes.
LEMMA ReadFacts ==
    ASSUME Types, ReadEvent, NEW e, e = wire[1], NEW n, n = Len(wire)
    PROVE  /\ plan = NoPlan /\ plan' = NoPlan /\ UNCHANGED <<link, missed, last>>
           /\ n \in Nat \ {0} /\ DOMAIN wire = 1 .. n /\ DOMAIN wire' = 1 .. n - 1
           /\ \A i \in 1 .. n - 1 : wire'[i] = wire[i + 1]
           /\ wire' = << >> => n = 1
           /\ e.kind = "row" => e.id \in 1 .. last
           /\ anchor' = (IF e.kind = "lost" THEN Noted ELSE anchor)
           /\ joined' = (IF e.kind = "state" THEN e.id = 1 ELSE joined)
           /\ e.kind # "row" => rows' = rows
           /\ \A o \in rows' : o \in rows \/ (e.kind = "row" /\ o = e.id)
           /\ \A id \in rows : id \in rows' \/ \A r \in rows' : id < r
<1>0. /\ plan = NoPlan /\ wire # << >> /\ wire' = Tail(wire)
      /\ UNCHANGED <<link, missed, last, srvCursor>>
  BY DEF ReadEvent, server, socket, ghosts
<1>1. /\ Len(wire') = n - 1 /\ n \in Nat \ {0} /\ DOMAIN wire = 1 .. n /\ DOMAIN wire' = 1 .. n - 1
      /\ \A i \in DOMAIN wire' : wire'[i] = wire[i + 1]
      /\ Head(wire) = e
  BY <1>0, ReadWire DEF Types, WireTypes
<1>2. e.kind = "row" => e.id \in 1 .. last
  BY <1>0, <1>1, ReadTypes
<1>3. \/ e.kind = "row" /\ LiveRow(e.id)
      \/ e.kind = "cursor" /\ UNCHANGED <<rows, joined, anchor, plan>>
      \/ e.kind = "state" /\ joined' = (e.id = 1) /\ UNCHANGED <<rows, anchor, plan>>
      \/ e.kind = "lost" /\ anchor' = Noted /\ UNCHANGED <<rows, joined, plan>>
      \/ e.kind = "connected" /\ UNCHANGED <<rows, joined, anchor, plan>>
  BY <1>1 DEF ReadEvent, catching
<1>4. wire' = << >> => n = 1
  BY <1>1
<1>5. CASE e.kind = "row" /\ LiveRow(e.id)
  <2>1. PICK held : held = rows \union {e.id}
    OBVIOUS
  <2>2. held \in SUBSET (1 .. last) /\ last \in Nat
    BY <1>2, <1>5, <2>1, Ranges
  <2>3. \/ rows' = held
        \/ e.id \in rows /\ rows' = rows
        \/ Trim(held)
    BY <1>5, <2>1 DEF LiveRow
  <2>4. Trim(held) => rows' \subseteq held /\ \A id \in held \ rows' : \A r \in rows' : id < r
    BY <2>2, TrimFacts
  <2>5. /\ \A o \in rows' : o \in rows \/ o = e.id
        /\ \A id \in rows : id \in rows' \/ \A r \in rows' : id < r
    BY <2>1, <2>3, <2>4
  <2>6. UNCHANGED <<joined, anchor, plan>>
    BY <1>5 DEF LiveRow, catching
  <2>7. /\ anchor' = (IF e.kind = "lost" THEN Noted ELSE anchor)
        /\ joined' = (IF e.kind = "state" THEN e.id = 1 ELSE joined)
        /\ plan' = NoPlan
    BY <1>0, <1>5, <2>6
  <2> QED
    BY <1>0, <1>1, <1>2, <1>4, <1>5, <2>5, <2>7
<1>6. CASE e.kind # "row"
  <2>1. /\ anchor' = (IF e.kind = "lost" THEN Noted ELSE anchor)
        /\ joined' = (IF e.kind = "state" THEN e.id = 1 ELSE joined)
        /\ rows' = rows /\ plan' = plan
    BY <1>3, <1>6
  <2> QED
    BY <1>0, <1>1, <1>4, <1>6, <2>1
<1> QED
  BY <1>3, <1>5, <1>6

LEMMA ReadKeeps ==
    ASSUME Types, LinkInv, CatchParts, ReadEvent
    PROVE  CatchParts'
<1> DEFINE e == wire[1]
           n == Len(wire)
<1>0. /\ plan = NoPlan /\ plan' = NoPlan /\ UNCHANGED <<link, missed, last>>
      /\ n \in Nat \ {0} /\ DOMAIN wire = 1 .. n /\ DOMAIN wire' = 1 .. n - 1
      /\ \A i \in 1 .. n - 1 : wire'[i] = wire[i + 1]
      /\ wire' = << >> => n = 1
      /\ e.kind = "row" => e.id \in 1 .. last
      /\ anchor' = (IF e.kind = "lost" THEN Noted ELSE anchor)
      /\ joined' = (IF e.kind = "state" THEN e.id = 1 ELSE joined)
      /\ e.kind # "row" => rows' = rows
      /\ \A o \in rows' : o \in rows \/ (e.kind = "row" /\ o = e.id)
      /\ \A id \in rows : id \in rows' \/ \A r \in rows' : id < r
  BY ReadFacts
<1>r. /\ last \in Nat /\ anchor \in 0 .. last /\ rows \in SUBSET (1 .. last)
      /\ missed \subseteq 1 .. last
  BY Ranges DEF Types, TypeOK
<1>h. PICK h : h = HighWater(rows)
  OBVIOUS
<1>j. /\ h \in 0 .. last /\ (rows # {} => h \in rows) /\ (rows = {} => h = None)
      /\ \A y \in rows : y <= h
  BY <1>r, <1>h, HighWaterFacts
<1>n. e.kind = "lost" => anchor' = (IF joined /\ anchor = None THEN h ELSE anchor)
  BY <1>0, <1>h DEF Noted
<1>d. 1 \in DOMAIN wire /\ \A i \in 1 .. n - 1 : i + 1 \in DOMAIN wire
  BY <1>0
<1> HIDE DEF e, n
<1>1. AnchorInv'
  <2> SUFFICES ASSUME link = "down", wire' = << >>, joined' PROVE anchor' # None \/ rows' = {}
    BY <1>0 DEF AnchorInv
  <2>1. e.kind = "lost"
    <3>1. wire # << >> /\ Len(wire) = 1
      BY <1>0 DEF n
    <3> QED
      BY <3>1 DEF LinkInv, e
  <2>2. joined /\ rows' = rows
    BY <1>0, <2>1
  <2>3. CASE anchor = None
    BY <1>j, <1>n, <1>r, <2>1, <2>2, <2>3 DEF None
  <2>4. CASE anchor # None
    BY <1>n, <2>1, <2>4
  <2> QED
    BY <2>3, <2>4
<1>2. PlanInv'
  BY <1>0 DEF PlanInv
<1>3. ASSUME NEW id \in missed, Known(id) PROVE Known(id)'
  <2>1. \A j \in DOMAIN wire' : wire'[j].kind = "row" => wire'[j].id > id
    BY <1>0, <1>3, <1>d DEF Known
  <2>2. CASE id \in rows \/ Below(id)
    <3>0. id \in 1 .. last
      BY <1>r
    <3>1. e.kind = "row" => id < e.id
      BY <1>0, <1>3, <1>d, <3>0 DEF Known, e
    <3>2. Below(id) => \A r \in rows' : id < r
      BY <1>0, <3>1 DEF Below
    <3>3. id \in rows' \/ \A r \in rows' : id < r
      BY <1>0, <2>2, <3>2
    <3> QED
      BY <2>1, <3>3 DEF Known, Below
  <2>3. CASE Coming(id)
    <3>1. anchor # None /\ anchor < id
      BY <1>0, <2>3 DEF Coming, NoPlan
    <3>2. anchor' = anchor
      BY <1>0, <1>n, <3>1
    <3> QED
      BY <2>1, <3>1, <3>2 DEF Known, Coming
  <2> QED
    BY <1>3, <2>2, <2>3 DEF Known
<1>4. ASSUME NEW id \in missed, Unread(id, 1) PROVE Known(id)'
  <2>0. id \in 1 .. last
    BY <1>r
  <2>1. e.kind = "lost" /\ JoinedAt(1) /\ (\A r \in rows : r < id)
        /\ \A j \in DOMAIN wire : wire[j].kind = "row" /\ j > 1 => wire[j].id > id
    BY <1>4 DEF Unread, e
  <2>2. joined
    BY <2>1 DEF JoinedAt
  <2>3. \A j \in DOMAIN wire' : wire'[j].kind = "row" => wire'[j].id > id
    <3>1. ASSUME NEW j \in DOMAIN wire', wire'[j].kind = "row" PROVE wire'[j].id > id
      <4>1. j \in 1 .. n - 1 /\ j + 1 > 1 /\ j + 1 \in DOMAIN wire /\ wire'[j] = wire[j + 1]
        BY <1>0, <1>d
      <4> QED
        BY <2>1, <3>1, <4>1
    <3> QED
      BY <3>1
  <2>4. rows' = rows
    BY <1>0, <2>1
  <2>5. CASE anchor # None
    <3>1. anchor' = anchor /\ anchor < id
      BY <1>4, <1>n, <2>1, <2>5 DEF Unread
    <3> QED
      BY <2>3, <2>5, <3>1 DEF Known, Coming
  <2>6. CASE anchor = None /\ rows = {}
    BY <2>3, <2>4, <2>6 DEF Known, Below
  <2>7. CASE anchor = None /\ rows # {}
    <3>1. anchor' = h /\ h \in rows
      BY <1>j, <1>n, <2>1, <2>2, <2>7
    <3>2. anchor' # None /\ anchor' < id
      BY <1>r, <2>1, <3>1 DEF None
    <3> QED
      BY <2>3, <3>2 DEF Known, Coming
  <2> QED
    BY <2>5, <2>6, <2>7
<1>5. ASSUME NEW id \in missed, NEW i \in 1 .. n - 1, Unread(id, i + 1) PROVE Unread(id, i)'
  <2>0. id \in 1 .. last /\ i \in Nat \ {0} /\ n \in Nat
    BY <1>0, <1>r
  <2>1. wire'[i].kind = "lost"
    BY <1>0, <1>5 DEF Unread
  <2>2. PICK m : m = i + 1
    OBVIOUS
  <2>3. JoinedAt(m) /\ m - 1 = i
    BY <1>5, <2>0, <2>2 DEF Unread
  <2>4. \/ joined /\ \A j \in 1 .. i : wire[j].kind # "state"
        \/ \E j \in 1 .. i : /\ wire[j] = Event("state", 1)
                             /\ \A k \in j + 1 .. i : wire[k].kind # "state"
    BY <2>3, Zenon DEF JoinedAt
  <2>5. JoinedAt(i)'
    <3>0. /\ \A j \in 1 .. i - 1 : j + 1 \in 1 .. i /\ wire'[j] = wire[j + 1]
          /\ 1 \in 1 .. i
      BY <1>0, <2>0
    <3>1. CASE joined /\ \A j \in 1 .. i : wire[j].kind # "state"
      <4>1. joined'
        BY <1>0, <3>0, <3>1 DEF e
      <4> QED
        BY <3>0, <3>1, <4>1 DEF JoinedAt
    <3>2. ASSUME NEW j \in 1 .. i, wire[j] = Event("state", 1),
                 \A k \in j + 1 .. i : wire[k].kind # "state"
          PROVE  JoinedAt(i)'
      <4>1. CASE j = 1
        <5>1. joined'
          <6>1. e.kind = "state" /\ e.id = 1
            BY <3>2, <4>1 DEF e, Event
          <6> QED
            BY <1>0, <6>1
        <5>2. \A k \in 1 .. i - 1 : k + 1 \in j + 1 .. i
          BY <2>0, <4>1
        <5> QED
          BY <3>0, <3>2, <5>1, <5>2 DEF JoinedAt
      <4>2. CASE j # 1
        <5>1. PICK l : l = j - 1
          OBVIOUS
        <5>2. l \in 1 .. i - 1 /\ l + 1 = j
          BY <2>0, <4>2, <5>1
        <5>3. wire'[l] = Event("state", 1)
          BY <3>0, <3>2, <5>2
        <5>4. ASSUME NEW k \in l + 1 .. i - 1 PROVE wire'[k].kind # "state"
          <6>1. k \in 1 .. i - 1 /\ k + 1 \in j + 1 .. i
            BY <2>0, <5>2
          <6> QED
            BY <3>0, <3>2, <6>1
        <5> QED
          BY <5>2, <5>3, <5>4 DEF JoinedAt
      <4> QED
        BY <4>1, <4>2
    <3> QED
      BY <2>4, <3>1, <3>2
  <2>6. ASSUME NEW j \in DOMAIN wire', wire'[j].kind = "row"
        PROVE  (j < i => wire'[j].id < id) /\ (j > i => wire'[j].id > id)
    <3>1. j \in Nat /\ j + 1 \in DOMAIN wire /\ wire'[j] = wire[j + 1]
      BY <1>0, <1>d
    <3>2. (j < i => j + 1 < i + 1) /\ (j > i => j + 1 > i + 1)
      BY <2>0, <3>1
    <3> QED
      BY <1>5, <2>6, <3>1, <3>2 DEF Unread
  <2>7. anchor < id /\ \A r \in rows : r < id
    BY <1>5 DEF Unread
  <2>8. anchor' < id
    <3>1. h < id
      BY <1>j, <1>r, <2>0, <2>7 DEF None
    <3> QED
      BY <1>0, <1>n, <2>7, <3>1
  <2>9. \A r \in rows' : r < id
    <3>1. e.kind = "row" => e.id < id
      <4>1. 1 < i + 1
        BY <2>0
      <4> QED
        BY <1>5, <1>d, <4>1 DEF Unread, e
    <3> QED
      BY <1>0, <2>7, <3>1
  <2> QED
    BY <2>1, <2>5, <2>6, <2>8, <2>9 DEF Unread
<1>6. HoleInv'
  <2> SUFFICES ASSUME NEW id \in missed
               PROVE  Known(id)' \/ \E i \in DOMAIN wire' : Unread(id, i)'
    BY <1>0 DEF HoleInv
  <2>1. Known(id) \/ \E i \in DOMAIN wire : Unread(id, i)
    BY DEF CatchParts, HoleInv
  <2>2. ASSUME NEW i \in DOMAIN wire, Unread(id, i), i # 1
        PROVE  \E j \in DOMAIN wire' : Unread(id, j)'
    <3>1. PICK j : j = i - 1
      OBVIOUS
    <3>2. j \in 1 .. n - 1 /\ j + 1 = i
      BY <1>0, <2>2, <3>1
    <3>3. Unread(id, j + 1)
      BY <2>2, <3>2
    <3>4. Unread(id, j)'
      BY <1>5, <3>2, <3>3
    <3> QED
      BY <1>0, <3>2, <3>4
  <2> QED
    BY <1>3, <1>4, <2>1, <2>2
<1> QED
  BY <1>1, <1>2, <1>6 DEF CatchParts

LEMMA CatchNext == Types /\ LinkInv /\ CatchInv /\ [Next]_vars => CatchInv'
<1> SUFFICES ASSUME Types, LinkInv, CatchInv, [Next]_vars, excuses' = {} PROVE CatchParts'
  BY DEF CatchInv, CatchParts
<1>0. excuses = {}
  BY DEF Next, World, Worker, Reader, ServerRow, SocketLost, SocketBack, TopicJoined, ServerMember,
         CursorLands, CursorFails, ReadEvent, CatchUpRead, CatchUpFails, RebuildChat, CatchUpProbe,
         Select, SelectOther, LoadOlder, ReadStateChanged, ghosts, vars
<1>c. CatchParts
  BY <1>0 DEF CatchInv, CatchParts
<1>r. last \in Nat /\ rows \in SUBSET (1 .. last) /\ missed \subseteq 1 .. last
  BY Ranges DEF Types, TypeOK
<1>1. CASE ServerRow
  BY <1>1, <1>c, RowKeeps
<1>2. CASE \/ SocketLost \/ SocketBack \/ TopicJoined \/ ServerMember
           \/ \E id \in posts : CursorLands(id)
  <2>1. UNCHANGED <<rows, joined, anchor, plan, missed>>
    BY <1>2 DEF SocketLost, SocketBack, TopicJoined, ServerMember, CursorLands, catching, ghosts
  <2>2. \E e \in WireEvent : /\ e.kind # "row"
                             /\ wire' = wire \/ wire' = Append(wire, e)
                             /\ link' = "down" => \/ link = "down"
                                                  \/ wire' = Append(wire, e) /\ e.kind = "lost"
    <3>1. CASE SocketLost
      BY <3>1 DEF SocketLost, Event, WireEvent
    <3>2. CASE SocketBack
      BY <3>2 DEF SocketBack, Event, WireEvent
    <3>3. CASE TopicJoined
      BY <3>3 DEF TopicJoined, Event, WireEvent
    <3>4. CASE ServerMember
      BY <3>4 DEF ServerMember, Pushed, Event, WireEvent
    <3>5. CASE \E id \in posts : CursorLands(id)
      <4>1. PICK id \in posts : CursorLands(id)
        BY <3>5
      <4>2. id \in Nat /\ srvCursor \in Nat
        BY Ranges
      <4>3. srvCursor' \in Nat
        BY <4>1, <4>2 DEF CursorLands
      <4> QED
        BY <4>1, <4>3 DEF CursorLands, Pushed, Event, WireEvent, socket
    <3> QED
      BY <1>2, <3>1, <3>2, <3>3, <3>4, <3>5
  <2> QED
    BY <1>c, <2>1, <2>2, AppendKeeps
<1>3. CASE ReadEvent
  BY <1>3, <1>c, ReadKeeps
<1>4. CASE \E p \in BOOLEAN : CatchUpProbe(p)
  BY <1>4, <1>c, ProbeKeeps
<1>5. CASE CatchUpRead
  BY <1>5, <1>c, PageKeeps
<1>6. CASE CatchUpFails
  BY <1>6 DEF CatchUpFails
<1>7. CASE \/ Select \/ ReadStateChanged \/ UNCHANGED vars
           \/ \E id \in posts : CursorFails(id)
  <2>1. UNCHANGED <<link, wire, rows, joined, anchor, plan, missed>>
    BY <1>7 DEF Select, ReadStateChanged, CursorFails, server, socket, catching, ghosts, vars
  <2>2. /\ rows' \in SUBSET Nat /\ (rows = {} => rows' = {})
        /\ \A id \in missed : (id \in rows \/ \A r \in rows : id < r)
                                  => (id \in rows' \/ \A r \in rows' : id < r)
        /\ \A o \in rows' : \E r \in rows : o <= r
    BY <1>r, <2>1
  <2> QED
    BY <1>c, <2>1, <2>2, QuietKeeps
<1>8. CASE RebuildChat \/ SelectOther
  <2>1. UNCHANGED <<link, wire, joined, anchor, plan, missed>> /\ Trim(rows)
    BY <1>8 DEF RebuildChat, SelectOther, server, socket, catching, ghosts
  <2>2. rows' \subseteq rows /\ \A id \in rows \ rows' : \A r \in rows' : id < r
    BY <1>r, <2>1, TrimFacts
  <2>3. /\ rows' \in SUBSET Nat /\ (rows = {} => rows' = {})
        /\ \A id \in missed : (id \in rows \/ \A r \in rows : id < r)
                                  => (id \in rows' \/ \A r \in rows' : id < r)
    BY <1>r, <2>2
  <2>4. \A o \in rows' : \E r \in rows : o <= r
    BY <1>r, <2>2
  <2> QED
    BY <1>c, <2>1, <2>3, <2>4, QuietKeeps
<1>9. CASE LoadOlder
  <2>1. UNCHANGED <<link, wire, joined, anchor, plan, missed>> /\ rows # {}
    BY <1>9 DEF LoadOlder, server, socket, catching, ghosts
  <2>2. PICK o : o = Oldest
    OBVIOUS
  <2>3. o \in rows /\ \A r \in rows : o <= r
    <3>1. rows \in SUBSET Nat
      BY <1>r
    <3>2. Min(rows) \in rows /\ \A r \in rows : Min(rows) <= r
      BY <2>1, <3>1, MinIsLeast
    <3> QED
      BY <2>1, <2>2, <3>2 DEF Oldest
  <2>4. PICK page : page = Newest(OlderPage, 1, o - 1)
    OBVIOUS
  <2>5. rows' \in {rows, rows \union page}
    BY <1>9, <2>2, <2>4 DEF LoadOlder, OlderRows
  <2>6. o \in 1 .. last /\ OlderPage \in Nat
    BY <1>r, <2>3, TranscriptConstants
  <2>7. /\ \A p \in page : p \in 1 .. last /\ p <= o
        /\ \A id \in 1 .. last : id < o => id \in page \/ \A p \in page : id < p
    BY <1>r, <2>4, <2>6 DEF Newest
  <2>8. rows' \in SUBSET Nat
    BY <1>r, <2>5, <2>7
  <2>9. \A p \in rows' : \E r \in rows : p <= r
    <3> SUFFICES ASSUME NEW p \in rows' PROVE \E r \in rows : p <= r
      OBVIOUS
    <3>1. p \in rows \/ p \in page
      BY <2>5
    <3>2. p \in rows => p \in Nat
      BY <1>r
    <3> QED
      BY <2>3, <2>7, <3>1, <3>2
  <2>10. \A id \in missed : (id \in rows \/ \A r \in rows : id < r)
                                => (id \in rows' \/ \A r \in rows' : id < r)
    <3> SUFFICES ASSUME NEW id \in missed, id \in rows \/ \A r \in rows : id < r
                 PROVE  id \in rows' \/ \A r \in rows' : id < r
      OBVIOUS
    <3>1. CASE id \in rows
      BY <2>5, <3>1
    <3>2. CASE \A r \in rows : id < r
      <4>1. id \in 1 .. last /\ id < o
        BY <1>r, <2>3, <3>2
      <4>2. id \in page \/ \A p \in page : id < p
        BY <2>7, <4>1
      <4> QED
        BY <2>5, <3>2, <4>2
    <3> QED
      BY <3>1, <3>2
  <2> QED
    BY <1>c, <2>1, <2>8, <2>9, <2>10, QuietKeeps
<1> QED
  BY <1>1, <1>2, <1>3, <1>4, <1>5, <1>6, <1>7, <1>8, <1>9 DEF Next, World, Worker, Reader

-----------------------------------------------------------------------------
(* The invariant and what it gives. *)

\* The transcript starts sound.
LEMMA TranscriptInit == Init => TranscriptInv
<1> SUFFICES ASSUME Init PROVE TranscriptInv
  OBVIOUS
<1>1. Types
  BY TypesInit
<1>2. StartInv /\ LinkInv /\ CatchInv
  BY DEF Init, StartInv, LinkInv, CatchInv, CatchParts, AnchorInv, PlanInv, HoleInv
<1>3. CursorInv
  BY DEF Init, CursorInv, Reaches
<1> QED
  BY <1>1, <1>2, <1>3 DEF TranscriptInv

\* No step of the server, the socket, the worker or the reader breaks it.
LEMMA TranscriptNext == TranscriptInv /\ [Next]_vars => TranscriptInv'
  BY TypesNext, StartNext, CursorNext, LinkNext, CatchNext DEF TranscriptInv

LEMMA InvIsSound == TranscriptInv => TranscriptSound
<1> SUFFICES ASSUME TranscriptInv PROVE TranscriptSound
  OBVIOUS
<1>r. /\ Types /\ last \in Nat /\ rows \in SUBSET (1 .. last) /\ srvCursor \in 0 .. last
      /\ leftAt \in 0 .. last /\ missed \subseteq 1 .. last
  BY Ranges DEF TranscriptInv, Types, TypeOK
<1>1. StartMeansStart
  BY DEF TranscriptInv, StartInv, StartMeansStart
<1>2. LeftIsRead
  BY DEF TranscriptInv, CursorInv, Reaches, LeftIsRead
<1>3. NoHiddenHole
  <2> SUFFICES ASSUME Settled, excuses = {}, NEW id \in missed, rows # {}, id > Oldest
               PROVE  id \in rows
    BY DEF NoHiddenHole
  <2>1. DOMAIN wire = {} /\ anchor = None /\ plan = NoPlan
    BY DEF Settled
  <2>2. id \in rows \/ Below(id)
    BY <2>1 DEF TranscriptInv, CatchInv, CatchParts, HoleInv, Known, Coming
  <2>3. PICK o : o = Oldest
    OBVIOUS
  <2>4. o \in rows
    <3>1. rows \in SUBSET Nat
      BY <1>r
    <3> QED
      BY <2>3, <3>1, MinIsLeast DEF Oldest
  <2>5. ~Below(id)
    BY <1>r, <2>3, <2>4 DEF Below
  <2> QED
    BY <2>2, <2>5
<1> QED
  BY <1>1, <1>2, <1>3, <1>r DEF TranscriptSound, Types

\* After a loss, its catch-up and however many faults, no hole is hidden, the start of
\* the history is the start, and what was left read is read on the server.
THEOREM TranscriptStaysSound == Spec => []TranscriptSound
<1>1. Init => TranscriptInv
  BY TranscriptInit
<1>2. TranscriptInv /\ [Next]_vars => TranscriptInv'
  BY TranscriptNext
<1>3. TranscriptInv => TranscriptSound
  BY InvIsSound
<1> QED
  BY <1>1, <1>2, <1>3, PTL DEF Spec

=============================================================================
