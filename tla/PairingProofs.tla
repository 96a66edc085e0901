----------------------------- MODULE PairingProofs -----------------------------
(***************************************************************************)
(* Proof of the safety of a pairing for any networks, any number of        *)
(* rendezvous, faults, restarts and lists of another holder.               *)
(***************************************************************************)
EXTENDS Pairing, FiniteSetTheorems, TLAPS

-----------------------------------------------------------------------------
(* The inductive invariant. *)

Wire == {"hello", "offer", "join", "refused", "signed", "done"}
MsgType == [from : Device, wire : Wire, net : Net]
RdvType == [open : BOOLEAN, joined : BOOLEAN, log : Seq(MsgType)]
ListType == [ver : Nat, keys : SUBSET {"H", "J", "K"}]

Fields == {"id", "net", "stage", "eligible", "master", "confirmed", "offerSent", "joinSent",
           "peer", "seq"}

IsSession(s) ==
    /\ DOMAIN s = Fields
    /\ s.id \in DOMAIN rdv /\ s.net \in Net /\ s.stage \in {"Open", "Keyed"}
    /\ s.eligible \subseteq Net
    /\ s.master \in BOOLEAN /\ s.confirmed \in BOOLEAN /\ s.offerSent \in BOOLEAN
    /\ s.joinSent \in BOOLEAN /\ s.peer \in BOOLEAN

CoreTypes ==
    /\ rdv \in Seq(RdvType) /\ Len(rdv) <= MaxRdv
    /\ act = [d \in Device |-> act[d]]
    /\ \A d \in Device : act[d] = None \/ IsSession(act[d])
    /\ slot \in [Device -> [Net -> Nat]]
    /\ typed \in [Rdv -> SUBSET Device]

Slots ==
    \A d \in Device, n \in Net :
        slot[d][n] = IF Active(d) /\ act[d].net = n THEN act[d].id ELSE 0

\* A log is a prefix of hello, offer, join, signed or refused, done; a join
\* stands for the code that the joiner's user typed, and a signed list names
\* the joiner.
LogFits(i) ==
    LET log == rdv[i].log
    IN  /\ Len(log) <= 5
        /\ \A k \in DOMAIN log :
             /\ (log[k].from = "H") <=> (k \in {2, 4})
             /\ (log[k].wire = "hello") <=> (k = 1)
             /\ (log[k].wire = "offer") <=> (k = 2)
             /\ (log[k].wire = "join") <=> (k = 3)
             /\ (log[k].wire = "done") <=> (k = 5)
        /\ Len(log) > 0 => rdv[i].joined
        /\ Len(log) >= 3 => "J" \in typed[i]
        /\ Len(log) >= 4 /\ log[4].wire = "signed" => "J" \in list[log[3].net].keys

LogsFit == \A i \in DOMAIN rdv : LogFits(i)

\* How many messages there are in each state of the holder.
HolderAt(s, n) ==
    /\ s.offerSent <=> s.confirmed
    /\ s.confirmed => s.stage = "Keyed"
    /\ s.peer => s.confirmed
    /\ s.stage = "Open" => s.seq = 0 /\ n <= 1
    /\ s.stage = "Keyed" /\ ~s.confirmed => s.seq = 1 /\ n = 1
    /\ s.confirmed /\ ~s.peer => s.seq = 1 /\ n \in {2, 3}
    /\ s.peer => s.seq = 3 /\ n \in {4, 5}

HolderFits ==
    Active("H") =>
        LET s == act["H"]
        IN  HolderAt(s, Len(rdv[s.id].log)) /\ (s.confirmed => "H" \in typed[s.id])

\* How many there are in each state of the joiner, which stays on the network
\* of its join.
JoinerAt(s, n) ==
    /\ s.joinSent => s.confirmed /\ s.master
    /\ ~s.master => s.seq = 0 /\ n \in {1, 2}
    /\ s.master /\ ~s.joinSent => s.seq = 2 /\ n = 2
    /\ s.joinSent => s.seq = 2 /\ n \in {3, 4}

JoinerFits ==
    Active("J") =>
        LET s == act["J"]
            log == rdv[s.id].log
        IN  /\ JoinerAt(s, Len(log))
            /\ s.confirmed => "J" \in typed[s.id]
            /\ s.joinSent => s.net = log[3].net

Chat == LogsFit /\ HolderFits /\ JoinerFits

Core == CoreTypes /\ Slots /\ Chat

\* The lists, the grants and the offer.
Rest ==
    /\ list \in [Net -> ListType] /\ published \in [Net -> ListType]
    /\ granted \subseteq Net /\ needs \subseteq Net /\ offer \in 0 .. Len(rdv)
    /\ \A n \in Net : "J" \in list[n].keys => "J" \in published[n].keys
    /\ \A n \in granted : "J" \in list[n].keys
    /\ origin \in [Net -> Nat]
    /\ \A n \in Net : origin[n] # 0 => origin[n] \in Rdv /\ typed[origin[n]] = Device

SeenFits == seen \in Seq(Rdv) /\ Len(seen) <= SeenMax

Inv == Core /\ Rest /\ SeenFits

\* What no step takes back.
TypedGrows == typed' \in [Rdv -> SUBSET Device] /\ \A i \in Rdv : typed[i] \subseteq typed'[i]
ListsGrow == \A n \in Net : "J" \in list[n].keys => "J" \in list'[n].keys

-----------------------------------------------------------------------------
(* What the parts of the actions do. *)

LEMMA RdvIds ==
    ASSUME CoreTypes
    PROVE  /\ DOMAIN rdv = 1 .. Len(rdv) /\ Len(rdv) \in Nat /\ DOMAIN rdv \subseteq Rdv
           /\ \A i \in DOMAIN rdv : /\ rdv[i] \in RdvType /\ rdv[i].log \in Seq(MsgType)
                                    /\ Len(rdv[i].log) \in Nat
                                    /\ DOMAIN rdv[i].log = 1 .. Len(rdv[i].log)
<1>1. rdv \in Seq(RdvType) /\ Len(rdv) <= MaxRdv /\ MaxRdv \in Nat
  BY PairingConstants DEF CoreTypes
<1>2. DOMAIN rdv = 1 .. Len(rdv) /\ Len(rdv) \in Nat /\ DOMAIN rdv \subseteq Rdv
  BY <1>1 DEF Rdv
<1>3. \A i \in DOMAIN rdv : rdv[i] \in RdvType
  BY <1>1
<1>4. \A x \in RdvType : x.log \in Seq(MsgType)
  BY DEF RdvType
<1> QED
  BY <1>2, <1>3, <1>4

LEMMA ActiveIs ==
    ASSUME CoreTypes, NEW d \in Device
    PROVE  /\ Active(d) <=> act[d].id # 0
           /\ Active(d) => IsSession(act[d])
<1>1. None.id = 0
  BY DEF None
<1>2. 0 \notin DOMAIN rdv
  BY RdvIds
<1> QED
  BY <1>1, <1>2 DEF Active, CoreTypes, IsSession

\* The session d is over: its slot is empty, the other device has its own.
LEMMA GoneFacts ==
    ASSUME CoreTypes, Slots, NEW d \in Device, Active(d), Gone(d)
    PROVE  /\ act' = [e \in Device |-> act'[e]]
           /\ act'[d] = None /\ \A e \in Device : e # d => act'[e] = act[e]
           /\ slot' \in [Device -> [Net -> Nat]] /\ Slots'
<1>1. IsSession(act[d]) /\ act = [e \in Device |-> act[e]] /\ slot \in [Device -> [Net -> Nat]]
  BY ActiveIs DEF CoreTypes
<1>2. act' = [act EXCEPT ![d] = None] /\ slot' = [slot EXCEPT ![d][act[d].net] = 0]
  BY DEF Gone
<1>3. act'[d] = None /\ (\A e \in Device : e # d => act'[e] = act[e])
      /\ act' = [e \in Device |-> act'[e]]
  BY <1>1, <1>2
<1>4. slot' \in [Device -> [Net -> Nat]]
      /\ (\A n \in Net : slot'[d][n] = IF n = act[d].net THEN 0 ELSE slot[d][n])
      /\ \A e \in Device : e # d => slot'[e] = slot[e]
  BY <1>1, <1>2 DEF IsSession
<1>5. \A n \in Net : slot'[d][n] = 0
  BY <1>4 DEF Slots
<1>6. ASSUME NEW e \in Device, NEW n \in Net
      PROVE  slot'[e][n] = IF act'[e] # None /\ act'[e].net = n THEN act'[e].id ELSE 0
  <2>1. CASE e = d
    BY <1>3, <1>5, <2>1
  <2>2. CASE e # d
    BY <1>3, <1>4, <2>2 DEF Slots, Active
  <2> QED
    BY <2>1, <2>2
<1>7. Slots'
  BY <1>6 DEF Slots, Active
<1> QED
  BY <1>3, <1>4, <1>7

\* A session goes on with its rendezvous and its network.
LEMMA KeepFacts ==
    ASSUME CoreTypes, Slots, NEW d \in Device, Active(d), NEW s,
           s.id = act[d].id, s.net = act[d].net, Keep(d, s)
    PROVE  /\ act' = [e \in Device |-> act'[e]]
           /\ act'[d] = s /\ \A e \in Device : e # d => act'[e] = act[e]
           /\ slot' \in [Device -> [Net -> Nat]] /\ Slots'
<1>1. act = [e \in Device |-> act[e]] /\ slot \in [Device -> [Net -> Nat]]
  BY DEF CoreTypes
<1>2. act' = [act EXCEPT ![d] = s] /\ slot' = slot
  BY DEF Keep
<1>3. act'[d] = s /\ (\A e \in Device : e # d => act'[e] = act[e])
      /\ act' = [e \in Device |-> act'[e]]
  BY <1>1, <1>2
<1>4. s # None
  BY ActiveIs DEF None
<1>5. ASSUME NEW e \in Device, NEW n \in Net
      PROVE  slot[e][n] = IF act'[e] # None /\ act'[e].net = n THEN act'[e].id ELSE 0
  <2>1. CASE e = d
    BY <1>3, <1>4, <2>1 DEF Slots, Active
  <2>2. CASE e # d
    BY <1>3, <2>2 DEF Slots, Active
  <2> QED
    BY <2>1, <2>2
<1>6. Slots'
  BY <1>2, <1>5 DEF Slots, Active
<1> QED
  BY <1>1, <1>2, <1>3, <1>6

\* A rendezvous that ends keeps its log.
LEMMA CloseFacts ==
    ASSUME CoreTypes, NEW ids, CloseRdv(ids)
    PROVE  /\ rdv' \in Seq(RdvType) /\ Len(rdv') = Len(rdv)
           /\ \A i \in DOMAIN rdv : rdv'[i].log = rdv[i].log /\ rdv'[i].joined = rdv[i].joined
<1>1. rdv' = [i \in DOMAIN rdv |-> IF i \in ids THEN [rdv[i] EXCEPT !.open = FALSE] ELSE rdv[i]]
  BY DEF CloseRdv
<1>2. ASSUME NEW x \in RdvType
      PROVE  /\ [x EXCEPT !.open = FALSE] \in RdvType
             /\ [x EXCEPT !.open = FALSE].log = x.log /\ [x EXCEPT !.open = FALSE].joined = x.joined
  BY DEF RdvType
<1>3. \A i \in DOMAIN rdv : rdv'[i] \in RdvType /\ rdv'[i].log = rdv[i].log
                            /\ rdv'[i].joined = rdv[i].joined
  BY <1>1, <1>2, RdvIds
<1>4. DOMAIN rdv' = 1 .. Len(rdv) /\ rdv' = [i \in 1 .. Len(rdv) |-> rdv'[i]] /\ Len(rdv) \in Nat
  BY <1>1, RdvIds
<1> QED
  BY <1>3, <1>4, RdvIds

\* A message is behind the others of its log.
LEMMA PostFacts ==
    ASSUME CoreTypes, NEW d \in Device, NEW i \in DOMAIN rdv,
           NEW wire \in Wire, NEW n \in Net, Posted(d, i, wire, n)
    PROVE  LET log == rdv[i].log
               new == rdv'[i].log
           IN  /\ rdv' \in Seq(RdvType) /\ Len(rdv') = Len(rdv)
               /\ \A j \in DOMAIN rdv : rdv'[j].joined = rdv[j].joined
               /\ \A j \in DOMAIN rdv : j # i => rdv'[j].log = rdv[j].log
               /\ Len(new) = Len(log) + 1
               /\ \A k \in 1 .. Len(log) : new[k] = log[k]
               /\ new[Len(log) + 1].from = d /\ new[Len(log) + 1].wire = wire
               /\ new[Len(log) + 1].net = n
<1> DEFINE m == [from |-> d, wire |-> wire, net |-> n]
           log == rdv[i].log
           x == [rdv[i] EXCEPT !.log = Append(log, m)]
<1>1. rdv \in Seq(RdvType) /\ rdv[i] \in RdvType /\ log \in Seq(MsgType) /\ Len(log) \in Nat
  BY RdvIds DEF CoreTypes
<1>2. m \in MsgType /\ m.from = d /\ m.wire = wire /\ m.net = n
  BY DEF MsgType
<1>3. rdv' = [rdv EXCEPT ![i] = x]
  BY DEF Posted
<1> HIDE DEF m
<1>4. /\ Append(log, m) \in Seq(MsgType) /\ Len(Append(log, m)) = Len(log) + 1
      /\ Append(log, m)[Len(log) + 1] = m
      /\ \A k \in 1 .. Len(log) : Append(log, m)[k] = log[k]
  <2> HIDE DEF log
  <2> QED BY <1>1, <1>2
<1>5. x \in RdvType /\ x.log = Append(log, m) /\ x.joined = rdv[i].joined
  <2> DEFINE q == Append(log, m)
             r == rdv[i]
  <2>1. q \in Seq(MsgType) /\ r \in RdvType
    BY <1>1, <1>4
  <2> HIDE DEF q, r
  <2>2. [r EXCEPT !.log = q] \in RdvType /\ [r EXCEPT !.log = q].log = q
        /\ [r EXCEPT !.log = q].joined = r.joined
    BY <2>1 DEF RdvType
  <2> QED
    BY <2>2 DEF q, r
<1> HIDE DEF x
<1>6. rdv' \in Seq(RdvType) /\ Len(rdv') = Len(rdv) /\ rdv'[i] = x
      /\ \A j \in DOMAIN rdv : j # i => rdv'[j] = rdv[j]
  BY <1>1, <1>3, <1>5
<1> QED
  BY <1>2, <1>4, <1>5, <1>6

-----------------------------------------------------------------------------
(* The log and the two sessions. *)

\* What leaves a log alone keeps it fitting.
LEMMA LogKept ==
    ASSUME CoreTypes, LogsFit, TypedGrows, ListsGrow, NEW i \in DOMAIN rdv,
           rdv'[i].log = rdv[i].log, rdv[i].joined => rdv'[i].joined
    PROVE  LogFits(i)'
<1>1. LogFits(i) /\ rdv'[i].log = rdv[i].log /\ (rdv[i].joined => rdv'[i].joined)
  BY DEF LogsFit
<1>2. typed[i] \subseteq typed'[i]
  BY RdvIds DEF TypedGrows
<1>3. Len(rdv[i].log) >= 4 => rdv[i].log[3].net \in Net
  <2>1. Len(rdv[i].log) >= 4 => rdv[i].log[3] \in MsgType
    BY RdvIds
  <2> QED
    BY <2>1 DEF MsgType
<1> QED
  BY <1>1, <1>2, <1>3 DEF LogFits, ListsGrow

LEMMA LogsKept ==
    ASSUME CoreTypes, LogsFit, TypedGrows, ListsGrow, DOMAIN rdv' = DOMAIN rdv,
           \A i \in DOMAIN rdv : rdv'[i].log = rdv[i].log /\ (rdv[i].joined => rdv'[i].joined)
    PROVE  LogsFit'
<1> SUFFICES ASSUME NEW i \in DOMAIN rdv PROVE LogFits(i)'
  BY DEF LogsFit
<1> QED
  BY LogKept

\* A session fits its log as long as both stay, and when it ends.
LEMMA HolderKept ==
    ASSUME CoreTypes, HolderFits, TypedGrows,
           act'["H"] = act["H"] \/ act'["H"] = None,
           Active("H") => rdv'[act["H"].id].log = rdv[act["H"].id].log
    PROVE  HolderFits'
<1> SUFFICES ASSUME Active("H"), act'["H"] = act["H"] PROVE HolderFits'
  BY DEF HolderFits, Active
<1>1. act["H"].id \in Rdv
  BY ActiveIs, RdvIds DEF IsSession, Device
<1>2. typed[act["H"].id] \subseteq typed'[act["H"].id]
      /\ rdv'[act["H"].id].log = rdv[act["H"].id].log
  BY <1>1 DEF TypedGrows
<1> QED
  BY <1>2 DEF HolderFits

LEMMA JoinerKept ==
    ASSUME CoreTypes, JoinerFits, TypedGrows,
           act'["J"] = act["J"] \/ act'["J"] = None,
           Active("J") => rdv'[act["J"].id].log = rdv[act["J"].id].log
    PROVE  JoinerFits'
<1> SUFFICES ASSUME Active("J"), act'["J"] = act["J"] PROVE JoinerFits'
  BY DEF JoinerFits, Active
<1>1. act["J"].id \in Rdv
  BY ActiveIs, RdvIds DEF IsSession, Device
<1>2. typed[act["J"].id] \subseteq typed'[act["J"].id]
      /\ rdv'[act["J"].id].log = rdv[act["J"].id].log
  BY <1>1 DEF TypedGrows
<1> QED
  BY <1>2 DEF JoinerFits

LEMMA ChatKept ==
    ASSUME CoreTypes, Chat, TypedGrows, ListsGrow, DOMAIN rdv' = DOMAIN rdv,
           \A i \in DOMAIN rdv : rdv'[i].log = rdv[i].log /\ (rdv[i].joined => rdv'[i].joined),
           \A d \in Device : act'[d] = act[d] \/ act'[d] = None
    PROVE  Chat'
<1>1. \A d \in Device : Active(d) => act[d].id \in DOMAIN rdv
  BY ActiveIs DEF IsSession
<1>2. LogsFit' /\ HolderFits' /\ JoinerFits'
  BY <1>1, LogsKept, HolderKept, JoinerKept DEF Chat, Device
<1> QED
  BY <1>2 DEF Chat

LEMMA TypedKept ==
    ASSUME CoreTypes, UNCHANGED typed
    PROVE  TypedGrows
  BY DEF CoreTypes, TypedGrows

LEMMA ListsKept ==
    ASSUME UNCHANGED list
    PROVE  ListsGrow
  BY DEF ListsGrow

LEMMA SessionKept ==
    ASSUME NEW s, IsSession(s), DOMAIN rdv \subseteq DOMAIN rdv'
    PROVE  IsSession(s)'
  BY DEF IsSession

\* Every end of a session keeps the core: the code was typed or not, the
\* rendezvous is closed or left to its lifetime.
LEMMA EndKeepsCore ==
    ASSUME Core, NEW d \in Device, Active(d), Gone(d), TypedGrows, ListsGrow,
           UNCHANGED rdv \/ \E ids : CloseRdv(ids)
    PROVE  Core' /\ Len(rdv') = Len(rdv)
<1>1. CoreTypes /\ Slots /\ Chat
  BY DEF Core
<1>2. /\ rdv' \in Seq(RdvType) /\ Len(rdv') = Len(rdv)
      /\ \A i \in DOMAIN rdv : rdv'[i].log = rdv[i].log /\ rdv'[i].joined = rdv[i].joined
  BY <1>1, CloseFacts DEF CoreTypes
<1>3. /\ act' = [e \in Device |-> act'[e]]
      /\ act'[d] = None /\ \A e \in Device : e # d => act'[e] = act[e]
      /\ slot' \in [Device -> [Net -> Nat]] /\ Slots'
  BY <1>1, GoneFacts
<1>4. DOMAIN rdv' = DOMAIN rdv
  BY <1>1, <1>2 DEF CoreTypes
<1>5. CoreTypes'
  <2>1. \A e \in Device : (act[e] = None \/ IsSession(act[e]))'
    BY <1>1, <1>3, <1>4, SessionKept DEF CoreTypes
  <2> QED
    BY <1>1, <1>2, <1>3, <2>1 DEF CoreTypes, TypedGrows, IsSession
<1>6. Chat'
  BY <1>1, <1>2, <1>3, <1>4, ChatKept
<1> QED
  BY <1>2, <1>3, <1>5, <1>6 DEF Core

LEMMA AbortKeepsCore ==
    ASSUME Core, NEW d \in Device, Active(d), Aborted(d), TypedGrows, ListsGrow
    PROVE  Core' /\ Len(rdv') = Len(rdv)
  BY EndKeepsCore DEF Aborted

\* Nothing happens to the sessions and the logs.
LEMMA QuietKeepsCore ==
    ASSUME Core, TypedGrows, ListsGrow, UNCHANGED <<act, slot>>,
           UNCHANGED rdv \/ \E ids : CloseRdv(ids)
    PROVE  Core' /\ Len(rdv') = Len(rdv)
<1>1. CoreTypes /\ Slots /\ Chat
  BY DEF Core
<1>2. /\ rdv' \in Seq(RdvType) /\ Len(rdv') = Len(rdv)
      /\ \A i \in DOMAIN rdv : rdv'[i].log = rdv[i].log /\ rdv'[i].joined = rdv[i].joined
  BY <1>1, CloseFacts DEF CoreTypes
<1>4. DOMAIN rdv' = DOMAIN rdv
  BY <1>1, <1>2 DEF CoreTypes
<1>5. CoreTypes'
  <2>1. \A e \in Device : (act[e] = None \/ IsSession(act[e]))'
    BY <1>1, <1>4, SessionKept DEF CoreTypes
  <2> QED
    BY <1>1, <1>2, <2>1 DEF CoreTypes, TypedGrows, IsSession
<1>6. Chat'
  BY <1>1, <1>2, <1>4, ChatKept
<1> QED
  BY <1>1, <1>2, <1>5, <1>6 DEF Core, Slots, Active

\* A message that stands where it belongs keeps the logs fitting.
LEMMA LogsAfterPost ==
    ASSUME CoreTypes, LogsFit, TypedGrows, ListsGrow, NEW d \in Device,
           NEW i \in DOMAIN rdv, NEW wire \in Wire, NEW n \in Net, Posted(d, i, wire, n),
           Len(rdv[i].log) \in 1 .. 4, (d = "H") <=> (Len(rdv[i].log) \in {1, 3}),
           wire # "hello", (wire = "offer") <=> (Len(rdv[i].log) = 1),
           (wire = "join") <=> (Len(rdv[i].log) = 2), (wire = "done") <=> (Len(rdv[i].log) = 4),
           Len(rdv[i].log) = 2 => "J" \in typed'[i],
           wire = "signed" => "J" \in list'[rdv[i].log[3].net].keys
    PROVE  LogsFit'
<1> DEFINE log == rdv[i].log
           new == rdv'[i].log
           p == Len(log) + 1
<1>0. /\ p \in 2 .. 5 /\ Len(log) = p - 1
      /\ (d = "H") <=> (p \in {2, 4})
      /\ (wire = "offer") <=> (p = 2)
      /\ (wire = "join") <=> (p = 3)
      /\ (wire = "done") <=> (p = 5)
      /\ p = 3 => "J" \in typed'[i]
  <2>1. CASE Len(log) = 1
    BY <2>1
  <2>2. CASE Len(log) = 2
    BY <2>2
  <2>3. CASE Len(log) = 3
    BY <2>3
  <2>4. CASE Len(log) = 4
    BY <2>4
  <2> QED
    BY <2>1, <2>2, <2>3, <2>4
<1>a. Len(new) = p /\ (\A k \in 1 .. p - 1 : new[k] = log[k])
      /\ new[p].from = d /\ new[p].wire = wire
  BY <1>0, PostFacts
<1> HIDE DEF p
<1>1. /\ rdv' \in Seq(RdvType) /\ Len(rdv') = Len(rdv) /\ rdv'[i].joined = rdv[i].joined
      /\ \A j \in DOMAIN rdv : j # i => rdv'[j].log = rdv[j].log /\ rdv'[j].joined = rdv[j].joined
      /\ Len(new) = p /\ \A k \in 1 .. p - 1 : new[k] = log[k]
      /\ new[p].from = d /\ new[p].wire = wire
  BY <1>a, PostFacts
<1>2. DOMAIN rdv' = DOMAIN rdv /\ DOMAIN rdv \subseteq Rdv
  BY <1>1, RdvIds
<1>3. DOMAIN new = 1 .. p
  <2>1. rdv'[i] \in RdvType
    BY <1>0, <1>1, <1>2
  <2>2. new \in Seq(MsgType)
    BY <2>1 DEF RdvType
  <2> QED
    BY <1>0, <1>1, <2>2
<1>4. ASSUME NEW j \in DOMAIN rdv, j # i PROVE LogFits(j)'
  <2>1. LogFits(j) /\ rdv'[j].log = rdv[j].log /\ rdv'[j].joined = rdv[j].joined
    BY <1>0, <1>1, <1>4 DEF LogsFit
  <2>2. typed[j] \subseteq typed'[j]
    BY <1>2 DEF TypedGrows
  <2>3. Len(rdv[j].log) >= 4 => rdv[j].log[3].net \in Net
    <3>1. Len(rdv[j].log) >= 4 => rdv[j].log[3] \in MsgType
      BY RdvIds
    <3> QED
      BY <3>1 DEF MsgType
  <2> QED
    BY <2>1, <2>2, <2>3 DEF LogFits, ListsGrow
<1>5. LogFits(i)'
  <2>1. LogFits(i) /\ DOMAIN log = 1 .. p - 1
    BY <1>0, RdvIds DEF LogsFit
  <2>2. \A k \in 1 .. p : k \in 1 .. p - 1 \/ k = p
    BY <1>0
  <2>3. ASSUME NEW k \in DOMAIN new
        PROVE  /\ (new[k].from = "H") <=> (k \in {2, 4})
               /\ (new[k].wire = "hello") <=> (k = 1)
               /\ (new[k].wire = "offer") <=> (k = 2)
               /\ (new[k].wire = "join") <=> (k = 3)
               /\ (new[k].wire = "done") <=> (k = 5)
    <3>1. CASE k = p
      BY <1>0, <1>1, <3>1
    <3>2. CASE k \in 1 .. p - 1
      <4>1. k \in DOMAIN log /\ new[k] = log[k]
        BY <1>0, <1>1, <2>1, <3>2
      <4> QED
        BY <2>1, <4>1 DEF LogFits
    <3> QED
      BY <1>3, <2>2, <3>1, <3>2
  <2>4. rdv'[i].joined
    BY <1>0, <1>1, <2>1 DEF LogFits
  <2>5. p >= 3 => "J" \in typed'[i]
    <3>1. typed[i] \subseteq typed'[i]
      BY <1>2 DEF TypedGrows
    <3> QED
      BY <1>0, <2>1, <3>1 DEF LogFits
  <2>6. p >= 4 /\ new[4].wire = "signed" => "J" \in list'[new[3].net].keys
    <3>1. CASE p = 4
      BY <1>0, <1>1, <3>1
    <3>2. CASE p = 5
      <4>1. log[3] \in MsgType /\ new[3] = log[3] /\ new[4] = log[4]
        BY <1>0, <1>1, <3>2, RdvIds
      <4>2. log[3].net \in Net
        BY <4>1 DEF MsgType
      <4> QED
        BY <2>1, <3>2, <4>1, <4>2 DEF LogFits, ListsGrow
    <3> QED
      BY <1>0, <3>1, <3>2
  <2> QED
    BY <1>0, <1>1, <2>3, <2>4, <2>5, <2>6 DEF LogFits
<1> QED
  BY <1>2, <1>4, <1>5 DEF LogsFit

\* The holder that reads nothing yet is not disturbed by the joiner.
LEMMA HolderAfterPost ==
    ASSUME CoreTypes, HolderFits, TypedGrows, NEW i \in DOMAIN rdv,
           NEW wire \in Wire, NEW n \in Net, Posted("J", i, wire, n),
           Len(rdv[i].log) \in {2, 4}, act'["H"] = act["H"]
    PROVE  HolderFits'
<1> SUFFICES ASSUME Active("H") PROVE HolderFits'
  BY DEF HolderFits, Active
<1> DEFINE s == act["H"]
<1>1. s.id \in DOMAIN rdv /\ s.id \in Rdv
  BY ActiveIs, RdvIds DEF IsSession, Device
<1>2. typed[s.id] \subseteq typed'[s.id]
  BY <1>1 DEF TypedGrows
<1>3. s.id # i => rdv'[s.id].log = rdv[s.id].log
  BY <1>1, PostFacts DEF Device
<1>4. Len(rdv'[i].log) = Len(rdv[i].log) + 1
  BY PostFacts DEF Device
<1>5. HolderAt(s, Len(rdv'[s.id].log))
  <2>1. CASE s.id # i
    BY <1>3, <2>1 DEF HolderFits
  <2>2. CASE s.id = i
    <3>1. HolderAt(s, Len(rdv[i].log))
      BY <2>2 DEF HolderFits
    <3>2. Len(rdv[i].log) = 2 => HolderAt(s, 3)
      BY <3>1 DEF HolderAt
    <3>3. Len(rdv[i].log) = 4 => HolderAt(s, 5)
      BY <3>1 DEF HolderAt
    <3>4. CASE Len(rdv[i].log) = 2
      <4>1. Len(rdv'[i].log) = 3
        BY <1>4, <3>4
      <4> QED
        BY <2>2, <3>2, <3>4, <4>1
    <3>5. CASE Len(rdv[i].log) = 4
      <4>1. Len(rdv'[i].log) = 5
        BY <1>4, <3>5
      <4> QED
        BY <2>2, <3>3, <3>5, <4>1
    <3> QED
      BY <3>4, <3>5
  <2> QED
    BY <2>1, <2>2
<1>6. s.confirmed => "H" \in typed'[s.id]
  BY <1>2 DEF HolderFits
<1> QED
  BY <1>5, <1>6 DEF HolderFits, Active

LEMMA JoinerAfterPost ==
    ASSUME CoreTypes, JoinerFits, TypedGrows, NEW i \in DOMAIN rdv,
           NEW wire \in Wire, NEW n \in Net, Posted("H", i, wire, n),
           Len(rdv[i].log) \in {1, 3}, act'["J"] = act["J"]
    PROVE  JoinerFits'
<1> SUFFICES ASSUME Active("J") PROVE JoinerFits'
  BY DEF JoinerFits, Active
<1> DEFINE s == act["J"]
<1>1. s.id \in DOMAIN rdv /\ s.id \in Rdv
  BY ActiveIs, RdvIds DEF IsSession, Device
<1>2. typed[s.id] \subseteq typed'[s.id]
  BY <1>1 DEF TypedGrows
<1>3. s.id # i => rdv'[s.id].log = rdv[s.id].log
  BY <1>1, PostFacts DEF Device
<1>4. Len(rdv'[i].log) = Len(rdv[i].log) + 1
      /\ \A k \in 1 .. Len(rdv[i].log) : rdv'[i].log[k] = rdv[i].log[k]
  BY PostFacts DEF Device
<1>5. JoinerAt(s, Len(rdv'[s.id].log)) /\ (s.joinSent => s.net = rdv'[s.id].log[3].net)
  <2>1. CASE s.id # i
    BY <1>3, <2>1 DEF JoinerFits
  <2>2. CASE s.id = i /\ Len(rdv[i].log) = 1
    BY <1>4, <2>2 DEF JoinerFits, JoinerAt
  <2>3. CASE s.id = i /\ Len(rdv[i].log) = 3
    <3>1. rdv'[i].log[3] = rdv[i].log[3]
      BY <1>4, <2>3
    <3> QED
      BY <1>4, <2>3, <3>1 DEF JoinerFits, JoinerAt
  <2> QED
    BY <2>1, <2>2, <2>3
<1>6. s.confirmed => "J" \in typed'[s.id]
  BY <1>2 DEF JoinerFits
<1> QED
  BY <1>5, <1>6 DEF JoinerFits, Active

\* A session posts a message, or goes on without one.
LEMMA PostTypes ==
    ASSUME CoreTypes, Slots, TypedGrows, NEW d \in Device, Active(d), NEW s,
           IsSession(s), s.id = act[d].id, s.net = act[d].net, Keep(d, s),
           UNCHANGED rdv \/ \E wire \in Wire, n \in Net : Posted(d, s.id, wire, n)
    PROVE  /\ CoreTypes' /\ Slots' /\ Len(rdv') = Len(rdv)
           /\ act'[d] = s /\ Active(d)' /\ \A e \in Device : e # d => act'[e] = act[e]
<1>1. /\ act' = [e \in Device |-> act'[e]]
      /\ act'[d] = s /\ \A e \in Device : e # d => act'[e] = act[e]
      /\ slot' \in [Device -> [Net -> Nat]] /\ Slots'
  BY KeepFacts
<1>2. rdv' \in Seq(RdvType) /\ Len(rdv') = Len(rdv)
  BY PostFacts DEF CoreTypes, IsSession
<1>3. DOMAIN rdv' = DOMAIN rdv
  BY <1>2 DEF CoreTypes
<1>4. \A e \in Device : (act[e] = None \/ IsSession(act[e]))'
  BY <1>1, <1>3, SessionKept DEF CoreTypes
<1>5. CoreTypes'
  BY <1>1, <1>2, <1>4 DEF CoreTypes, TypedGrows, IsSession
<1>6. Active(d)'
  BY <1>1, ActiveIs DEF Active, None
<1> QED
  BY <1>1, <1>2, <1>5, <1>6

\* send_join_if_ready keeps the core for a session that fits its log.
LEMMA JoinKeepsCore ==
    ASSUME Core, TypedGrows, ListsGrow, Active("J"), NEW s, IsSession(s),
           s.id = act["J"].id, s.net = act["J"].net, JoinerAt(s, Len(rdv[s.id].log)),
           s.confirmed => "J" \in typed'[s.id],
           s.joinSent => s.net = rdv[s.id].log[3].net,
           SendJoinIfReady(s)
    PROVE  Core' /\ Len(rdv') = Len(rdv)
<1>1. CoreTypes /\ Slots /\ LogsFit /\ HolderFits /\ JoinerFits /\ "J" \in Device
      /\ s.id \in DOMAIN rdv /\ s.net \in Net
  BY DEF Core, Chat, Device, IsSession
<1>2. CASE JoinReady(s) /\ Aborted("J")
  BY <1>1, <1>2, AbortKeepsCore
<1>3. CASE JoinReady(s) /\ Posted("J", s.id, "join", s.net)
           /\ Keep("J", [s EXCEPT !.joinSent = TRUE])
  <2> DEFINE u == [s EXCEPT !.joinSent = TRUE]
  <2>1. IsSession(u) /\ u.id = s.id /\ u.net = s.net /\ u.confirmed /\ u.master /\ u.joinSent
        /\ u.seq = s.seq
    BY <1>3 DEF IsSession, Fields, JoinReady
  <2>2. s.seq = 2 /\ Len(rdv[s.id].log) = 2 /\ "J" \in typed'[s.id]
    BY <1>3 DEF JoinReady, JoinerAt
  <2>3. Posted("J", s.id, "join", s.net) /\ Keep("J", u) /\ "join" \in Wire
    BY <1>3 DEF Wire
  <2> HIDE DEF u
  <2>4. /\ CoreTypes' /\ Slots' /\ Len(rdv') = Len(rdv)
        /\ act'["J"] = u /\ act'["H"] = act["H"]
    BY <1>1, <2>1, <2>3, PostTypes DEF Device
  <2>5. LogsFit'
    BY <1>1, <2>2, <2>3, LogsAfterPost
  <2>6. HolderFits'
    BY <1>1, <2>2, <2>3, <2>4, HolderAfterPost
  <2>7. Len(rdv'[s.id].log) = 3 /\ rdv'[s.id].log[3].net = s.net
    <3>1. /\ Len(rdv'[s.id].log) = Len(rdv[s.id].log) + 1
          /\ rdv'[s.id].log[Len(rdv[s.id].log) + 1].net = s.net
      BY <1>1, <2>3, PostFacts
    <3> QED
      BY <2>2, <3>1
  <2>8. JoinerFits'
    BY <2>1, <2>2, <2>4, <2>7 DEF JoinerFits, JoinerAt
  <2> QED
    BY <2>4, <2>5, <2>6, <2>8 DEF Core, Chat
<1>4. CASE ~JoinReady(s) /\ Keep("J", s) /\ UNCHANGED rdv
  <2>1. /\ CoreTypes' /\ Slots' /\ act'["J"] = s /\ act'["H"] = act["H"]
    BY <1>1, <1>4, PostTypes DEF Device
  <2>2. LogsFit' /\ HolderFits'
    BY <1>1, <1>4, <2>1, LogsKept, HolderKept
  <2>3. JoinerFits'
    BY <1>4, <2>1 DEF JoinerFits
  <2> QED
    BY <1>4, <2>1, <2>2, <2>3 DEF Core, Chat
<1> QED
  BY <1>2, <1>3, <1>4 DEF SendJoinIfReady, Post

\* The user types the right code.
LEMMA ConfirmKeepsCore ==
    ASSUME Core, NEW d \in Device, ConfirmRight(d)
    PROVE  Core' /\ Len(rdv') = Len(rdv) /\ TypedGrows
<1>1. CoreTypes /\ Slots /\ LogsFit /\ HolderFits /\ JoinerFits /\ ListsGrow
  BY ListsKept DEF Core, Chat, ConfirmRight
<1>2. /\ Active(d) /\ act[d].stage = "Keyed" /\ ~act[d].confirmed
      /\ typed' = [typed EXCEPT ![act[d].id] = @ \cup {d}]
  BY DEF ConfirmRight
<1>3. IsSession(act[d]) /\ act[d].id \in DOMAIN rdv /\ act[d].id \in Rdv /\ act[d].net \in Net
  BY <1>1, <1>2, ActiveIs, RdvIds DEF IsSession
<1>4. TypedGrows /\ d \in typed'[act[d].id]
  BY <1>1, <1>2, <1>3 DEF CoreTypes, TypedGrows
<1>5. CASE d = "H"
  <2> DEFINE s == [act["H"] EXCEPT !.confirmed = TRUE, !.offerSent = TRUE]
             i == act["H"].id
  <2>1. /\ IsSession(s) /\ s.id = i /\ s.net = act["H"].net /\ s.confirmed /\ s.offerSent
        /\ s.stage = act["H"].stage /\ s.seq = act["H"].seq /\ s.peer = act["H"].peer
    BY <1>3, <1>5 DEF IsSession, Fields
  <2>2. Post("H", s, "offer")
    BY <1>5 DEF ConfirmRight
  <2>3. act["H"].seq = 1 /\ Len(rdv[i].log) = 1 /\ ~act["H"].peer
    BY <1>1, <1>2, <1>5 DEF HolderFits, HolderAt
  <2> HIDE DEF s
  <2>4. CASE Aborted("H")
    BY <1>1, <1>2, <1>4, <1>5, <2>4, AbortKeepsCore
  <2>5. CASE Posted("H", i, "offer", act["H"].net) /\ Keep("H", s)
    <3>1. "offer" \in Wire
      BY DEF Wire
    <3>2. /\ CoreTypes' /\ Slots' /\ Len(rdv') = Len(rdv)
          /\ act'["H"] = s /\ act'["J"] = act["J"]
      BY <1>1, <1>2, <1>3, <1>4, <1>5, <2>1, <2>5, <3>1, PostTypes DEF Device
    <3>3. LogsFit'
      BY <1>1, <1>3, <1>4, <1>5, <2>3, <2>5, <3>1, LogsAfterPost
    <3>4. JoinerFits'
      BY <1>1, <1>3, <1>4, <1>5, <2>3, <2>5, <3>1, <3>2, JoinerAfterPost
    <3>5. Len(rdv'[i].log) = 2
      <4>1. Len(rdv'[i].log) = Len(rdv[i].log) + 1
        BY <1>1, <1>3, <1>5, <2>5, <3>1, PostFacts
      <4> QED
        BY <2>3, <4>1
    <3>6. HolderAt(s, 2)
      BY <1>2, <1>5, <2>1, <2>3 DEF HolderAt
    <3>7. HolderFits'
      BY <1>4, <1>5, <2>1, <3>2, <3>5, <3>6 DEF HolderFits
    <3> QED
      BY <1>4, <3>2, <3>3, <3>4, <3>7 DEF Core, Chat
  <2> QED
    BY <1>4, <2>1, <2>2, <2>4, <2>5 DEF Post
<1>6. CASE d = "J"
  <2> DEFINE s == [act["J"] EXCEPT !.confirmed = TRUE]
  <2>1. /\ IsSession(s) /\ s.id = act["J"].id /\ s.net = act["J"].net /\ s.confirmed
        /\ s.seq = act["J"].seq /\ s.master = act["J"].master /\ s.joinSent = act["J"].joinSent
    BY <1>3, <1>6 DEF IsSession, Fields
  <2>2. SendJoinIfReady(s)
    BY <1>6 DEF ConfirmRight
  <2>3. ~act["J"].joinSent /\ JoinerAt(act["J"], Len(rdv[act["J"].id].log))
    BY <1>1, <1>2, <1>6 DEF JoinerFits, JoinerAt
  <2> HIDE DEF s
  <2>4. JoinerAt(s, Len(rdv[s.id].log)) /\ ~s.joinSent
    BY <2>1, <2>3 DEF JoinerAt
  <2> QED
    BY <1>1, <1>2, <1>4, <1>6, <2>1, <2>2, <2>4, JoinKeepsCore
<1> QED
  BY <1>5, <1>6 DEF Device

\* The message that a device reads is one of its log.
LEMMA ReadFacts ==
    ASSUME CoreTypes, NEW d \in Device, NEW wire, Read(d, wire)
    PROVE  /\ Active(d) /\ IsSession(act[d]) /\ act[d].id \in DOMAIN rdv /\ act[d].net \in Net
           /\ Message(d).wire = wire /\ Message(d).net \in Net
           /\ \E k \in DOMAIN rdv[act[d].id].log :
                /\ Current(d) = [act[d] EXCEPT !.seq = k] /\ Message(d) = rdv[act[d].id].log[k]
                /\ k > act[d].seq /\ Message(d).from # d
<1> DEFINE k == CHOOSE k \in Behind(d) : TRUE
           log == rdv[act[d].id].log
<1>1. Active(d) /\ IsSession(act[d]) /\ act[d].id \in DOMAIN rdv /\ act[d].net \in Net
  BY ActiveIs DEF Read, IsSession
<1>2. k \in Behind(d) /\ Message(d).wire = wire
  BY DEF Read
<1>3. Current(d) = [act[d] EXCEPT !.seq = k] /\ Message(d) = log[k]
  BY DEF Current, Message
<1> HIDE DEF k
<1>4. k \in DOMAIN log /\ k > act[d].seq /\ log[k].from # d
  BY <1>2 DEF Behind
<1>5. log[k] \in MsgType
  BY <1>1, <1>4, RdvIds
<1> QED
  BY <1>1, <1>2, <1>3, <1>4, <1>5 DEF MsgType

\* A session posts its last message and is over.
LEMMA PostGoneTypes ==
    ASSUME CoreTypes, Slots, TypedGrows, NEW d \in Device, Active(d), Gone(d),
           NEW wire \in Wire, Posted(d, act[d].id, wire, act[d].net)
    PROVE  /\ CoreTypes' /\ Slots' /\ Len(rdv') = Len(rdv)
           /\ act'[d] = None /\ ~Active(d)' /\ \A e \in Device : e # d => act'[e] = act[e]
<1>1. /\ act' = [e \in Device |-> act'[e]]
      /\ act'[d] = None /\ \A e \in Device : e # d => act'[e] = act[e]
      /\ slot' \in [Device -> [Net -> Nat]] /\ Slots'
  BY GoneFacts
<1>2. act[d].id \in DOMAIN rdv /\ act[d].net \in Net
  BY ActiveIs DEF IsSession
<1>3. rdv' \in Seq(RdvType) /\ Len(rdv') = Len(rdv)
  BY <1>2, PostFacts
<1>4. DOMAIN rdv' = DOMAIN rdv
  BY <1>3 DEF CoreTypes
<1>5. \A e \in Device : (act[e] = None \/ IsSession(act[e]))'
  BY <1>1, <1>4, SessionKept DEF CoreTypes
<1>6. CoreTypes'
  BY <1>1, <1>3, <1>5 DEF CoreTypes, TypedGrows, IsSession
<1> QED
  BY <1>1, <1>3, <1>6 DEF Active

LEMMA TakeHelloKeepsCore ==
    ASSUME Core, TakeHello, UNCHANGED typed
    PROVE  Core' /\ Len(rdv') = Len(rdv)
<1> DEFINE i == act["H"].id
           log == rdv[i].log
           s == [Current("H") EXCEPT !.stage = "Keyed"]
<1>1. CoreTypes /\ Slots /\ LogsFit /\ HolderFits /\ JoinerFits /\ TypedGrows /\ ListsGrow
      /\ "H" \in Device
  BY TypedKept, ListsKept DEF Core, Chat, TakeHello, Device
<1>2. Read("H", "hello") /\ act["H"].stage = "Open" /\ Keep("H", s) /\ UNCHANGED rdv
  BY DEF TakeHello
<1>3. /\ Active("H") /\ IsSession(act["H"]) /\ i \in DOMAIN rdv /\ Message("H").wire = "hello"
      /\ \E k \in DOMAIN log : Current("H") = [act["H"] EXCEPT !.seq = k]
                              /\ Message("H") = log[k]
  BY <1>1, <1>2, ReadFacts
<1>4. PICK k \in DOMAIN log : Current("H") = [act["H"] EXCEPT !.seq = k] /\ log[k].wire = "hello"
  BY <1>3
<1>5. k = 1 /\ Len(log) = 1
  <2>1. HolderAt(act["H"], Len(log)) /\ LogFits(i)
    BY <1>1, <1>3 DEF HolderFits, LogsFit
  <2>2. k = 1 /\ Len(log) <= 1
    BY <1>2, <1>4, <2>1 DEF LogFits, HolderAt
  <2>3. k \in 1 .. Len(log) /\ Len(log) \in Nat
    BY <1>1, <1>3, RdvIds
  <2> DEFINE n == Len(log)
  <2> HIDE DEF n
  <2>4. n <= 1 /\ k = 1 /\ k \in 1 .. n /\ n \in Nat
    BY <2>2, <2>3 DEF n
  <2>5. n = 1
    BY <2>4
  <2> QED
    BY <2>2, <2>5 DEF n
<1>6. /\ IsSession(s) /\ s.id = i /\ s.net = act["H"].net /\ s.stage = "Keyed" /\ s.seq = 1
      /\ s.confirmed = act["H"].confirmed /\ s.offerSent = act["H"].offerSent
      /\ s.peer = act["H"].peer
  BY <1>3, <1>4, <1>5 DEF IsSession, Fields
<1> HIDE DEF s
<1>7. CoreTypes' /\ Slots' /\ act'["H"] = s /\ act'["J"] = act["J"]
  BY <1>1, <1>2, <1>3, <1>6, PostTypes DEF Device
<1>8. LogsFit' /\ JoinerFits'
  BY <1>1, <1>2, <1>7, LogsKept, JoinerKept
<1>9. HolderAt(s, 1) /\ ~s.confirmed
  BY <1>1, <1>2, <1>3, <1>6 DEF HolderFits, HolderAt
<1>10. HolderFits'
  BY <1>2, <1>5, <1>6, <1>7, <1>9 DEF HolderFits
<1> QED
  BY <1>2, <1>7, <1>8, <1>10 DEF Core, Chat

\* The holder refuses the network of the join.
LEMMA RefuseKeepsCore ==
    ASSUME Core, Active("H"), Len(rdv[act["H"].id].log) = 3, Refuse,
           UNCHANGED <<typed, list>>
    PROVE  Core' /\ Len(rdv') = Len(rdv)
<1> DEFINE i == act["H"].id
<1>1. CoreTypes /\ Slots /\ LogsFit /\ HolderFits /\ JoinerFits /\ TypedGrows /\ ListsGrow
      /\ "H" \in Device /\ "refused" \in Wire
  BY TypedKept, ListsKept DEF Core, Chat, Device, Wire
<1>2. CASE Aborted("H")
  BY <1>1, <1>2, AbortKeepsCore
<1>3. CASE Posted("H", i, "refused", act["H"].net) /\ Gone("H")
  <2>1. i \in DOMAIN rdv /\ act["H"].net \in Net
    BY <1>1, ActiveIs DEF IsSession
  <2>2. CoreTypes' /\ Slots' /\ Len(rdv') = Len(rdv) /\ ~Active("H")' /\ act'["J"] = act["J"]
    BY <1>1, <1>3, PostGoneTypes DEF Device
  <2>3. LogsFit'
    BY <1>1, <1>3, <2>1, LogsAfterPost
  <2>4. JoinerFits'
    BY <1>1, <1>3, <2>1, <2>2, JoinerAfterPost
  <2> QED
    BY <2>2, <2>3, <2>4 DEF Core, Chat, HolderFits
<1> QED
  BY <1>2, <1>3 DEF Refuse

\* What the lists, the grants and the offer need of a step.
LEMMA RestKept ==
    ASSUME Rest, CoreTypes, TypedGrows, UNCHANGED <<list, published, granted, origin>>,
           needs' \subseteq Net, offer' \in 0 .. Len(rdv')
    PROVE  Rest'
<1>1. ASSUME NEW n \in Net, origin[n] # 0
      PROVE  origin[n] \in Rdv /\ typed'[origin[n]] = Device
  <2>1. origin[n] \in Rdv /\ typed[origin[n]] = Device
    BY <1>1 DEF Rest
  <2>2. typed[origin[n]] \subseteq typed'[origin[n]] /\ typed'[origin[n]] \subseteq Device
    BY <2>1 DEF TypedGrows
  <2> QED
    BY <2>1, <2>2
<1> QED
  BY <1>1 DEF Rest

\* Every step that signs adds the joiner to the list of one network, on the
\* server first.
LEMMA SignLists ==
    ASSUME Rest, NEW n \in Net, NEW done \in 0 .. 3, Sign(n, done)
    PROVE  /\ list' \in [Net -> ListType] /\ published' \in [Net -> ListType] /\ ListsGrow
           /\ \A m \in Net : "J" \in list'[m].keys => "J" \in published'[m].keys
           /\ done = 3 => "J" \in list'[n].keys
<1> DEFINE g == Grant(n)
<1>1. list \in [Net -> ListType] /\ published \in [Net -> ListType]
      /\ \A m \in Net : "J" \in list[m].keys => "J" \in published[m].keys
  BY DEF Rest
<1>2. g \in ListType /\ "J" \in g.keys
  BY <1>1 DEF Grant, ListType
<1>3. published' = IF done >= 1 THEN [published EXCEPT ![n] = g] ELSE published
  BY DEF Sign
<1>4. list' = IF done >= 2 THEN [list EXCEPT ![n] = g] ELSE list
  BY DEF Sign, Saved
<1> HIDE DEF g
<1>5. list' \in [Net -> ListType] /\ published' \in [Net -> ListType]
  BY <1>1, <1>2, <1>3, <1>4
<1>6. /\ \A m \in Net : m # n => list'[m] = list[m] /\ published'[m] = published[m]
      /\ done >= 2 => list'[n] = g /\ published'[n] = g
      /\ done = 1 => list'[n] = list[n] /\ published'[n] = g
      /\ done = 0 => list'[n] = list[n] /\ published'[n] = published[n]
  BY <1>1, <1>3, <1>4
<1>7. done >= 2 \/ done = 1 \/ done = 0
  OBVIOUS
<1>8. ASSUME NEW m \in Net
      PROVE  /\ "J" \in list[m].keys => "J" \in list'[m].keys
             /\ "J" \in list'[m].keys => "J" \in published'[m].keys
  BY <1>1, <1>2, <1>6, <1>7
<1> QED
  BY <1>2, <1>5, <1>6, <1>8 DEF ListsGrow

\* The join is the third message, and both users typed the code by then.
LEMMA JoinIsThird ==
    ASSUME CoreTypes, LogsFit, HolderFits, Read("H", "join"),
           act["H"].confirmed, ~act["H"].peer
    PROVE  LET i == act["H"].id
               log == rdv[i].log
           IN  /\ Len(log) = 3 /\ act["H"].seq = 1 /\ i \in Rdv /\ typed[i] = Device
               /\ Current("H") = [act["H"] EXCEPT !.seq = 3] /\ Message("H") = log[3]
<1> DEFINE i == act["H"].id
           log == rdv[i].log
<1>1. /\ Active("H") /\ IsSession(act["H"]) /\ i \in DOMAIN rdv /\ i \in Rdv
      /\ Message("H").wire = "join"
      /\ \E k \in DOMAIN log : Current("H") = [act["H"] EXCEPT !.seq = k]
                              /\ Message("H") = log[k]
  BY ReadFacts, RdvIds DEF Device
<1>2. PICK k \in DOMAIN log : /\ Current("H") = [act["H"] EXCEPT !.seq = k]
                              /\ Message("H") = log[k] /\ log[k].wire = "join"
  BY <1>1
<1>3. HolderAt(act["H"], Len(log)) /\ LogFits(i) /\ "H" \in typed[i]
  BY <1>1 DEF HolderFits, LogsFit
<1>4. k = 3 /\ Len(log) \in {2, 3} /\ act["H"].seq = 1
  BY <1>2, <1>3 DEF LogFits, HolderAt
<1>5. k \in 1 .. Len(log)
  BY <1>1, RdvIds
<1>6. Len(log) = 3
  <2> DEFINE m == Len(log)
  <2> HIDE DEF m
  <2>1. k = 3 /\ k \in 1 .. m /\ m \in {2, 3}
    BY <1>4, <1>5 DEF m
  <2>2. m = 3
    BY <2>1
  <2> QED
    BY <2>2 DEF m
<1>7. "J" \in typed[i]
  BY <1>3, <1>6 DEF LogFits
<1>8. typed[i] = Device
  BY <1>1, <1>3, <1>7 DEF CoreTypes, Device
<1> QED
  BY <1>1, <1>2, <1>4, <1>6, <1>8

\* The holder signs the joiner, and goes on to the last message.
LEMMA SignKeepsCore ==
    ASSUME Core, Rest, NEW done \in 0 .. 3, Read("H", "join"),
           act["H"].confirmed, ~act["H"].peer, Message("H").net = act["H"].net,
           Sign(act["H"].net, done), UNCHANGED typed
    PROVE  Core' /\ Len(rdv') = Len(rdv)
<1> DEFINE i == act["H"].id
           n == act["H"].net
           log == rdv[i].log
           s == [Current("H") EXCEPT !.peer = TRUE]
<1>1. CoreTypes /\ Slots /\ LogsFit /\ HolderFits /\ JoinerFits /\ TypedGrows
      /\ "H" \in Device /\ "signed" \in Wire
  BY TypedKept DEF Core, Chat, Device, Wire
<1>2. /\ Active("H") /\ IsSession(act["H"]) /\ i \in DOMAIN rdv /\ n \in Net
  BY <1>1, ReadFacts
<1>4. ListsGrow /\ (done = 3 => "J" \in list'[n].keys)
  BY <1>2, SignLists
<1>5. /\ Len(log) = 3 /\ act["H"].seq = 1 /\ log[3].net = n
      /\ Current("H") = [act["H"] EXCEPT !.seq = 3]
  BY <1>1, JoinIsThird
<1>6. CASE Aborted("H")
  BY <1>1, <1>2, <1>4, <1>6, AbortKeepsCore
<1>7. CASE done = 3 /\ Posted("H", i, "signed", n) /\ Keep("H", s)
  <2>1. /\ IsSession(s) /\ s.id = i /\ s.net = n /\ s.stage = act["H"].stage /\ s.seq = 3
        /\ s.confirmed = act["H"].confirmed /\ s.offerSent = act["H"].offerSent /\ s.peer
    BY <1>2, <1>5 DEF IsSession, Fields
  <2> HIDE DEF s
  <2>2. /\ CoreTypes' /\ Slots' /\ Len(rdv') = Len(rdv)
        /\ act'["H"] = s /\ act'["J"] = act["J"]
    BY <1>1, <1>2, <1>7, <2>1, PostTypes DEF Device
  <2>3. "J" \in list'[log[3].net].keys
    BY <1>4, <1>5, <1>7
  <2>4. LogsFit'
    BY <1>1, <1>2, <1>4, <1>5, <1>7, <2>3, LogsAfterPost
  <2>5. JoinerFits'
    BY <1>1, <1>2, <1>5, <1>7, <2>2, JoinerAfterPost
  <2>6. Len(rdv'[i].log) = 4
    <3>1. Len(rdv'[i].log) = Len(log) + 1
      BY <1>1, <1>2, <1>7, PostFacts
    <3> QED
      BY <1>5, <3>1
  <2>7. HolderAt(s, 4) /\ "H" \in typed[i]
    BY <1>1, <1>2, <2>1 DEF HolderFits, HolderAt
  <2>8. HolderFits'
    BY <2>1, <2>2, <2>6, <2>7 DEF HolderFits
  <2> QED
    BY <2>2, <2>4, <2>5, <2>8 DEF Core, Chat
<1> QED
  BY <1>6, <1>7 DEF Sign

\* take_join and finish_creator, whatever step of them fails.
LEMMA TakeJoinKeeps ==
    ASSUME Core, Rest, TakeJoin, UNCHANGED <<offer, typed>>
    PROVE  Core' /\ Rest'
<1> DEFINE i == act["H"].id
           n == act["H"].net
<1>1. CoreTypes /\ LogsFit /\ HolderFits /\ TypedGrows /\ "H" \in Device
  BY TypedKept DEF Core, Chat, Device
<1>2. /\ Read("H", "join") /\ act["H"].confirmed /\ ~act["H"].peer
      /\ UNCHANGED <<granted, needs>>
  BY DEF TakeJoin
<1>3. Active("H") /\ n \in Net /\ Len(rdv[i].log) = 3 /\ i \in Rdv /\ typed[i] = Device
  BY <1>1, <1>2, ReadFacts, JoinIsThird
<1>4. ASSUME UNCHANGED <<published, list, origin>>, Aborted("H") \/ Refuse PROVE Core' /\ Rest'
  <2>1. Core' /\ Len(rdv') = Len(rdv)
    BY <1>1, <1>3, <1>4, AbortKeepsCore, RefuseKeepsCore, ListsKept
  <2> QED
    BY <1>1, <1>2, <1>4, <2>1, RestKept DEF Rest
<1>5. ASSUME NEW done \in 0 .. 3, Sign(n, done), Message("H").net = n PROVE Core' /\ Rest'
  <2>1. Core' /\ Len(rdv') = Len(rdv)
    BY <1>2, <1>5, SignKeepsCore
  <2>2. /\ list' \in [Net -> ListType] /\ published' \in [Net -> ListType] /\ ListsGrow
        /\ \A m \in Net : "J" \in list'[m].keys => "J" \in published'[m].keys
    BY <1>3, <1>5, SignLists
  <2>3. origin' = origin \/ origin' = [origin EXCEPT ![n] = i]
    BY <1>5 DEF Sign
  <2>4. i \in Nat
    BY <1>3 DEF Rdv
  <2>5. /\ origin' \in [Net -> Nat]
        /\ \A m \in Net : origin'[m] # 0 => origin'[m] \in Rdv /\ typed[origin'[m]] = Device
    BY <1>3, <2>3, <2>4 DEF Rest
  <2>6. \A m \in granted : "J" \in list'[m].keys
    BY <2>2 DEF Rest, ListsGrow
  <2> QED
    BY <1>2, <2>1, <2>2, <2>5, <2>6 DEF Rest
<1> QED
  BY <1>4, <1>5 DEF TakeJoin

\* rebind_joiner: the pairing of the joiner moves to another network, and its
\* slot with it.
LEMMA MoveFacts ==
    ASSUME CoreTypes, Slots, Active("J"), NEW n \in Net, n # act["J"].net,
           NEW s, s.id = act["J"].id, s.net = n, act' = [act EXCEPT !["J"] = s],
           slot' = [slot EXCEPT !["J"] = Moved(act["J"].net, n, act["J"].id)]
    PROVE  /\ act' = [e \in Device |-> act'[e]] /\ act'["J"] = s /\ act'["H"] = act["H"]
           /\ slot' \in [Device -> [Net -> Nat]] /\ Slots'
<1> DEFINE from == act["J"].net
           i == act["J"].id
           q == slot["J"]
<1>1. "J" \in Device /\ IsSession(act["J"]) /\ from \in Net /\ i \in Nat /\ i # 0
      /\ q \in [Net -> Nat]
  <2>1. "J" \in Device
    BY DEF Device
  <2>2. IsSession(act["J"]) /\ i # 0
    BY <2>1, ActiveIs
  <2> QED
    BY <2>1, <2>2, RdvIds DEF IsSession, CoreTypes
<1>2. act' = [e \in Device |-> act'[e]] /\ act'["J"] = s /\ act'["H"] = act["H"]
  BY <1>1 DEF CoreTypes, Device
<1>3. slot' = [slot EXCEPT !["J"] = [q EXCEPT ![from] = 0, ![n] = i]]
  BY DEF Moved
<1> HIDE DEF from, i, q
<1>4. [q EXCEPT ![from] = 0, ![n] = i] \in [Net -> Nat]
      /\ \A m \in Net : [q EXCEPT ![from] = 0, ![n] = i][m]
                          = IF m = n THEN i ELSE IF m = from THEN 0 ELSE q[m]
  <2> DEFINE u == [q EXCEPT ![from] = 0]
  <2>1. u \in [Net -> Nat] /\ \A m \in Net : u[m] = IF m = from THEN 0 ELSE q[m]
    BY <1>1
  <2>2. [q EXCEPT ![from] = 0, ![n] = i] = [u EXCEPT ![n] = i]
    OBVIOUS
  <2> HIDE DEF u
  <2>3. [u EXCEPT ![n] = i] \in [Net -> Nat]
        /\ \A m \in Net : [u EXCEPT ![n] = i][m] = IF m = n THEN i ELSE u[m]
    BY <1>1, <2>1
  <2> QED
    BY <2>1, <2>2, <2>3
<1>5. slot' \in [Device -> [Net -> Nat]] /\ slot'["H"] = slot["H"]
      /\ \A m \in Net : slot'["J"][m] = IF m = n THEN i ELSE IF m = from THEN 0 ELSE q[m]
  <2> DEFINE v == [q EXCEPT ![from] = 0, ![n] = i]
  <2>1. v \in [Net -> Nat] /\ slot \in [Device -> [Net -> Nat]] /\ slot' = [slot EXCEPT !["J"] = v]
    BY <1>3, <1>4 DEF CoreTypes
  <2> HIDE DEF v
  <2>2. slot' \in [Device -> [Net -> Nat]] /\ slot'["H"] = slot["H"] /\ slot'["J"] = v
    BY <1>1, <2>1 DEF Device
  <2> QED
    BY <1>4, <2>2 DEF v
<1>6. \A m \in Net : m # from => q[m] = 0
  BY <1>1 DEF Slots, q, from
<1>7. s # None
  BY <1>1 DEF None, i
<1>8. ASSUME NEW e \in Device, NEW m \in Net
      PROVE  slot'[e][m] = IF act'[e] # None /\ act'[e].net = m THEN act'[e].id ELSE 0
  <2>1. CASE e = "J"
    <3>1. slot'["J"][m] = IF m = n THEN i ELSE 0
      BY <1>5, <1>6
    <3> QED
      BY <1>2, <1>7, <2>1, <3>1 DEF i
  <2>2. CASE e = "H"
    BY <1>2, <1>5, <2>2 DEF Slots, Active
  <2> QED
    BY <2>1, <2>2 DEF Device
<1>9. Slots'
  BY <1>8 DEF Slots, Active
<1> QED
  BY <1>2, <1>5, <1>9

\* take_offer and rebind_joiner.
LEMMA TakeOfferKeepsCore ==
    ASSUME Core, TakeOffer, UNCHANGED typed
    PROVE  Core' /\ Len(rdv') = Len(rdv)
<1> DEFINE i == act["J"].id
           log == rdv[i].log
           s == Current("J")
           n == Message("J").net
           bound == [s EXCEPT !.master = TRUE, !.net = n]
<1>1. CoreTypes /\ Slots /\ LogsFit /\ HolderFits /\ JoinerFits /\ TypedGrows /\ ListsGrow
      /\ "J" \in Device /\ Read("J", "offer")
  BY TypedKept, ListsKept DEF Core, Chat, Device, TakeOffer
<1>2. /\ Active("J") /\ IsSession(act["J"]) /\ i \in DOMAIN rdv /\ n \in Net
      /\ Message("J").wire = "offer"
      /\ \E k \in DOMAIN log : Current("J") = [act["J"] EXCEPT !.seq = k]
                              /\ Message("J") = log[k] /\ k > act["J"].seq
  BY <1>1, ReadFacts
<1>3. PICK k \in DOMAIN log : Current("J") = [act["J"] EXCEPT !.seq = k] /\ k > act["J"].seq
                              /\ log[k].wire = "offer"
  BY <1>2
<1>4. k = 2 /\ Len(log) = 2 /\ ~act["J"].master /\ ~act["J"].joinSent
  <2>1. JoinerAt(act["J"], Len(log)) /\ LogFits(i)
    BY <1>1, <1>2 DEF JoinerFits, LogsFit
  <2>2. k = 2
    BY <1>3, <2>1 DEF LogFits
  <2>3. ~act["J"].master /\ ~act["J"].joinSent /\ Len(log) \in {1, 2}
    BY <1>3, <2>1, <2>2 DEF JoinerAt
  <2>4. k \in 1 .. Len(log)
    BY <1>1, <1>2, RdvIds
  <2> DEFINE m == Len(log)
  <2> HIDE DEF m
  <2>5. k = 2 /\ k \in 1 .. m /\ m \in {1, 2}
    BY <2>2, <2>3, <2>4 DEF m
  <2>6. m = 2
    BY <2>5
  <2> QED
    BY <2>2, <2>3, <2>6 DEF m
<1>5. /\ s.id = i /\ s.net = act["J"].net /\ IsSession(bound) /\ bound.id = i /\ bound.net = n
      /\ bound.seq = 2 /\ bound.master /\ ~bound.joinSent
      /\ bound.confirmed = act["J"].confirmed
  BY <1>2, <1>3, <1>4 DEF IsSession, Fields
<1>6. JoinerAt(bound, 2) /\ (bound.confirmed => "J" \in typed[i])
  BY <1>1, <1>2, <1>5 DEF JoinerAt, JoinerFits
<1>7. CASE n = s.net
  <2>1. SendJoinIfReady(bound)
    BY <1>7 DEF TakeOffer
  <2> HIDE DEF bound, s
  <2> QED
    BY <1>1, <1>2, <1>4, <1>5, <1>6, <1>7, <2>1, JoinKeepsCore
<1>8. CASE Aborted("J")
  BY <1>1, <1>2, <1>8, AbortKeepsCore
<1>9. CASE /\ n # s.net
           /\ act' = [act EXCEPT !["J"] =
                IF JoinReady(bound) THEN [bound EXCEPT !.joinSent = TRUE] ELSE bound]
           /\ slot' = [slot EXCEPT !["J"] = Moved(s.net, n, s.id)]
           /\ IF JoinReady(bound) THEN Posted("J", s.id, "join", n) ELSE UNCHANGED rdv
  <2> DEFINE w == IF JoinReady(bound) THEN [bound EXCEPT !.joinSent = TRUE] ELSE bound
             ready == JoinReady(bound)
  <2>1. /\ IsSession(w) /\ w.id = i /\ w.net = n /\ w.seq = 2 /\ w.master
        /\ w.confirmed = bound.confirmed
        /\ ready => w.joinSent /\ w.confirmed /\ bound.confirmed
        /\ ~ready => ~w.joinSent
    <3>1. IsSession([bound EXCEPT !.joinSent = TRUE])
      BY <1>5 DEF IsSession, Fields
    <3>2. /\ [bound EXCEPT !.joinSent = TRUE].id = i /\ [bound EXCEPT !.joinSent = TRUE].net = n
          /\ [bound EXCEPT !.joinSent = TRUE].seq = 2 /\ [bound EXCEPT !.joinSent = TRUE].master
          /\ [bound EXCEPT !.joinSent = TRUE].confirmed = bound.confirmed
          /\ [bound EXCEPT !.joinSent = TRUE].joinSent
      BY <1>5 DEF IsSession, Fields
    <3> HIDE DEF bound
    <3> QED
      BY <1>5, <3>1, <3>2 DEF JoinReady
  <2>2. /\ act' = [act EXCEPT !["J"] = w]
        /\ slot' = [slot EXCEPT !["J"] = Moved(act["J"].net, n, i)]
        /\ IF ready THEN Posted("J", i, "join", n) ELSE UNCHANGED rdv
        /\ n # act["J"].net
    BY <1>5, <1>9
  <2> HIDE DEF w, ready, bound, s
  <2>3. /\ act' = [e \in Device |-> act'[e]] /\ act'["J"] = w /\ act'["H"] = act["H"]
        /\ slot' \in [Device -> [Net -> Nat]] /\ Slots'
    BY <1>1, <1>2, <2>1, <2>2, MoveFacts
  <2>4. "join" \in Wire
    BY DEF Wire
  <2>5. rdv' \in Seq(RdvType) /\ Len(rdv') = Len(rdv)
    <3>1. CASE ready
      BY <1>1, <1>2, <2>2, <2>4, <3>1, PostFacts
    <3>2. CASE ~ready
      BY <1>1, <2>2, <3>2 DEF CoreTypes
    <3> QED
      BY <3>1, <3>2
  <2>6. CoreTypes'
    <3>1. DOMAIN rdv' = DOMAIN rdv
      BY <1>1, <2>5 DEF CoreTypes
    <3>2. \A e \in Device : (act[e] = None \/ IsSession(act[e]))'
      BY <1>1, <2>1, <2>3, <3>1, SessionKept DEF CoreTypes, Device
    <3> QED
      BY <1>1, <2>3, <2>5, <3>2 DEF CoreTypes, TypedGrows, IsSession
  <2>7. CASE ready
    <3>a. "J" \in typed'[i]
      BY <1>6, <2>1, <2>7
    <3>b. Posted("J", i, "join", n)
      BY <2>2, <2>7
    <3>1. Posted("J", i, "join", n) /\ "J" \in typed'[i]
      BY <3>a, <3>b
    <3> HIDE DEF n
    <3>c. LogsFit'
      BY <1>1, <1>2, <1>4, <2>4, <3>1, LogsAfterPost
    <3>d. HolderFits'
      BY <1>1, <1>2, <1>4, <2>3, <2>4, <3>1, HolderAfterPost
    <3>2. LogsFit' /\ HolderFits'
      BY <3>c, <3>d
    <3>3. Len(rdv'[i].log) = 3 /\ rdv'[i].log[3].net = n
      <4>1. Len(rdv'[i].log) = Len(log) + 1 /\ rdv'[i].log[Len(log) + 1].net = n
        BY <1>1, <1>2, <2>4, <3>1, PostFacts
      <4> QED
        BY <1>4, <4>1
    <3>4. JoinerAt(w, 3)
      BY <2>1, <2>7 DEF JoinerAt
    <3>5. JoinerFits'
      BY <2>1, <2>3, <3>1, <3>3, <3>4 DEF JoinerFits
    <3> QED
      BY <2>3, <2>5, <2>6, <3>2, <3>5 DEF Core, Chat
  <2>8. CASE ~ready
    <3>1. LogsFit' /\ HolderFits'
      BY <1>1, <2>2, <2>3, <2>8, LogsKept, HolderKept
    <3>2. JoinerAt(w, 2) /\ rdv' = rdv
      BY <2>1, <2>2, <2>8 DEF JoinerAt
    <3>3. JoinerFits'
      BY <1>4, <1>6, <2>1, <2>3, <2>8, <3>2 DEF JoinerFits
    <3> QED
      BY <2>3, <2>5, <2>6, <3>1, <3>3 DEF Core, Chat
  <2> QED
    BY <2>7, <2>8
<1> QED
  BY <1>7, <1>8, <1>9 DEF TakeOffer

\* take_signed and finish_joiner: the grant is of a network whose list names
\* the joiner.
LEMMA TakeSignedKeeps ==
    ASSUME Core, Rest, TakeSigned, UNCHANGED <<offer, typed>>
    PROVE  Core' /\ Rest'
<1> DEFINE i == act["J"].id
           n == act["J"].net
           log == rdv[i].log
<1>1. CoreTypes /\ Slots /\ LogsFit /\ HolderFits /\ JoinerFits /\ TypedGrows /\ ListsGrow
      /\ "J" \in Device /\ Read("J", "signed") /\ UNCHANGED <<published, list, origin>>
  BY TypedKept, ListsKept DEF Core, Chat, Device, TakeSigned
<1>2. /\ Active("J") /\ IsSession(act["J"]) /\ i \in DOMAIN rdv /\ n \in Net
      /\ Message("J").wire = "signed" /\ Message("J").from # "J"
      /\ \E k \in DOMAIN log : Message("J") = log[k]
  BY <1>1, ReadFacts
<1>3. PICK k \in DOMAIN log : log[k].wire = "signed" /\ log[k].from # "J"
  BY <1>2
<1>4. k = 4 /\ Len(log) = 4 /\ "J" \in list[n].keys
  <2>1. JoinerAt(act["J"], Len(log)) /\ LogFits(i) /\ (act["J"].joinSent => n = log[3].net)
    BY <1>1, <1>2 DEF JoinerFits, LogsFit
  <2>2. log[k].from \in Device
    <3>1. log[k] \in MsgType
      BY <1>1, <1>2, RdvIds
    <3> QED
      BY <3>1 DEF MsgType
  <2>3. k = 4
    BY <1>3, <2>1, <2>2 DEF LogFits, Device
  <2>4. k \in 1 .. Len(log)
    BY <1>1, <1>2, RdvIds
  <2> DEFINE m == Len(log)
  <2>5. m \in {1, 2} \/ m = 2 \/ (m \in {3, 4} /\ act["J"].joinSent)
    BY <2>1 DEF JoinerAt
  <2> HIDE DEF m
  <2>6. k = 4 /\ k \in 1 .. m
    BY <2>3, <2>4 DEF m
  <2>7. m = 4 /\ act["J"].joinSent
    BY <2>5, <2>6
  <2>8. Len(log) = 4
    BY <2>7 DEF m
  <2>9. Len(log) >= 4 /\ log[4].wire = "signed" => "J" \in list[log[3].net].keys
    BY <2>1 DEF LogFits
  <2>10. "J" \in list[log[3].net].keys
    BY <1>3, <2>3, <2>8, <2>9
  <2> QED
    BY <2>1, <2>3, <2>7, <2>8, <2>10
<1>5. granted' \subseteq granted \cup {n} /\ needs' \subseteq needs
  BY DEF TakeSigned
<1>6. ASSUME Core', Len(rdv') = Len(rdv) PROVE Rest'
  <2>1. granted' \subseteq Net /\ \A m \in granted' : "J" \in list[m].keys
    BY <1>2, <1>4, <1>5 DEF Rest
  <2> QED
    BY <1>1, <1>5, <1>6, <2>1 DEF Rest
<1>7. CASE Aborted("J")
  BY <1>1, <1>2, <1>6, <1>7, AbortKeepsCore
<1>8. CASE Gone("J") /\ Posted("J", i, "done", n)
  <2>1. "done" \in Wire
    BY DEF Wire
  <2>2. CoreTypes' /\ Slots' /\ Len(rdv') = Len(rdv) /\ ~Active("J")' /\ act'["H"] = act["H"]
    BY <1>1, <1>2, <1>8, <2>1, PostGoneTypes DEF Device
  <2>3. LogsFit'
    BY <1>1, <1>2, <1>4, <1>8, <2>1, LogsAfterPost
  <2>4. HolderFits'
    BY <1>1, <1>2, <1>4, <1>8, <2>1, <2>2, HolderAfterPost
  <2> QED
    BY <1>6, <2>2, <2>3, <2>4 DEF Core, Chat, JoinerFits
<1> QED
  BY <1>7, <1>8 DEF TakeSigned

\* A new rendezvous comes behind the others, which end.
LEMMA RdvOpened ==
    ASSUME CoreTypes, Len(rdv) + 1 <= MaxRdv, NEW open \in BOOLEAN,
           rdv' = Append([k \in DOMAIN rdv |-> [rdv[k] EXCEPT !.open = FALSE]],
                         [open |-> open, joined |-> FALSE, log |-> << >>])
    PROVE  /\ rdv' \in Seq(RdvType) /\ Len(rdv') = Len(rdv) + 1 /\ Len(rdv') <= MaxRdv
           /\ \A k \in DOMAIN rdv : rdv'[k].log = rdv[k].log /\ rdv'[k].joined = rdv[k].joined
           /\ DOMAIN rdv' = DOMAIN rdv \cup {Len(rdv) + 1}
           /\ rdv'[Len(rdv) + 1].log = << >>
<1> DEFINE ended == [k \in DOMAIN rdv |-> [rdv[k] EXCEPT !.open = FALSE]]
           x == [open |-> open, joined |-> FALSE, log |-> << >>]
<1>1. ASSUME NEW r \in RdvType
      PROVE  /\ [r EXCEPT !.open = FALSE] \in RdvType
             /\ [r EXCEPT !.open = FALSE].log = r.log /\ [r EXCEPT !.open = FALSE].joined = r.joined
  BY DEF RdvType
<1>2. \A k \in DOMAIN rdv : ended[k] \in RdvType /\ ended[k].log = rdv[k].log
                            /\ ended[k].joined = rdv[k].joined
  BY <1>1, RdvIds
<1>3. DOMAIN ended = 1 .. Len(rdv) /\ ended = [k \in 1 .. Len(rdv) |-> ended[k]]
      /\ Len(rdv) \in Nat
  BY RdvIds
<1>4. << >> \in Seq(MsgType)
  OBVIOUS
<1>5. x \in RdvType /\ x.log = << >>
  BY <1>4 DEF RdvType
<1>6. rdv' = Append(ended, x) /\ Len(rdv) + 1 <= MaxRdv
  OBVIOUS
<1> HIDE DEF ended, x
<1>7. ended \in Seq(RdvType) /\ Len(ended) = Len(rdv)
  BY <1>2, <1>3, RdvIds
<1>8. /\ rdv' \in Seq(RdvType) /\ Len(rdv') = Len(rdv) + 1 /\ rdv'[Len(rdv) + 1] = x
      /\ \A k \in 1 .. Len(rdv) : rdv'[k] = ended[k]
  <2>1. /\ Append(ended, x) \in Seq(RdvType) /\ Len(Append(ended, x)) = Len(ended) + 1
        /\ Append(ended, x)[Len(ended) + 1] = x
    BY <1>5, <1>7
  <2>2. \A k \in 1 .. Len(ended) : Append(ended, x)[k] = ended[k]
    BY <1>5, <1>7
  <2> QED
    BY <1>6, <1>7, <2>1, <2>2
<1>9. DOMAIN rdv' = DOMAIN rdv \cup {Len(rdv) + 1}
  BY <1>3, <1>8, RdvIds
<1> QED
  BY <1>2, <1>5, <1>6, <1>8, <1>9, RdvIds

\* Start, whether the slot was written or not.
LEMMA StartKeepsCore ==
    ASSUME Core, NEW n \in Net, Start(n)
    PROVE  Core' /\ Len(rdv') = Len(rdv) + 1
<1>a. CoreTypes
  BY DEF Core
<1>b. PICK i \in Nat : i = Len(rdv) + 1
  BY <1>a, RdvIds
<1> DEFINE s == Session(i, n, "Open", {})
           cleared == IF Active("H") THEN [slot["H"] EXCEPT ![act["H"].net] = 0] ELSE slot["H"]
<1>1. CoreTypes /\ Slots /\ LogsFit /\ HolderFits /\ JoinerFits /\ TypedGrows /\ ListsGrow
      /\ "H" \in Device /\ "J" \in Device /\ UNCHANGED typed
  BY TypedKept, ListsKept DEF Core, Chat, Device, Start
<1>2. PICK open \in BOOLEAN :
        rdv' = Append([k \in DOMAIN rdv |-> [rdv[k] EXCEPT !.open = FALSE]],
                      [open |-> open, joined |-> FALSE, log |-> << >>])
  BY DEF Start
<1>3. i <= MaxRdv
  BY <1>b DEF Start
<1>4. /\ rdv' \in Seq(RdvType) /\ Len(rdv') = i /\ Len(rdv') <= MaxRdv
      /\ \A k \in DOMAIN rdv : rdv'[k].log = rdv[k].log /\ rdv'[k].joined = rdv[k].joined
      /\ DOMAIN rdv' = DOMAIN rdv \cup {i} /\ rdv'[i].log = << >>
  BY <1>1, <1>2, <1>3, <1>b, RdvOpened
<1>5. i \in Nat /\ i # 0
  BY <1>1, <1>b, RdvIds
<1>6. cleared \in [Net -> Nat] /\ \A m \in Net : cleared[m] = 0
  BY <1>1 DEF CoreTypes, Slots
<1>7. \/ /\ act' = [act EXCEPT !["H"] = s] /\ slot' = [slot EXCEPT !["H"] = [cleared EXCEPT ![n] = i]]
      \/ /\ act' = [act EXCEPT !["H"] = None] /\ slot' = [slot EXCEPT !["H"] = cleared]
  BY <1>b DEF Start
<1>8. /\ s.id = i /\ s.net = n /\ s # None /\ s.stage = "Open" /\ s.seq = 0 /\ ~s.confirmed
      /\ ~s.offerSent /\ ~s.peer /\ IsSession(s)'
  <2>1. /\ s.id = i /\ s.net = n /\ s.stage = "Open" /\ s.seq = 0 /\ ~s.confirmed
        /\ ~s.offerSent /\ ~s.peer /\ None.id = 0
    BY DEF Session, None
  <2>2. i \in DOMAIN rdv'
    BY <1>4
  <2>3. IsSession(s)'
    BY <2>2 DEF Session, IsSession, Fields
  <2> QED
    BY <1>5, <2>1, <2>3
<1> HIDE DEF s, cleared
<1>9. /\ act' = [e \in Device |-> act'[e]] /\ act'["J"] = act["J"]
      /\ slot' \in [Device -> [Net -> Nat]] /\ slot'["J"] = slot["J"]
      /\ \/ act'["H"] = s /\ \A m \in Net : slot'["H"][m] = IF m = n THEN i ELSE 0
         \/ act'["H"] = None /\ \A m \in Net : slot'["H"][m] = 0
  <2> DEFINE v == [cleared EXCEPT ![n] = i]
  <2>1. v \in [Net -> Nat] /\ \A m \in Net : v[m] = IF m = n THEN i ELSE 0
    BY <1>5, <1>6
  <2>2. slot \in [Device -> [Net -> Nat]] /\ act = [e \in Device |-> act[e]]
    BY <1>1 DEF CoreTypes
  <2>3. CASE act' = [act EXCEPT !["H"] = s] /\ slot' = [slot EXCEPT !["H"] = v]
    <3> HIDE DEF v
    <3> QED
      BY <1>1, <2>1, <2>2, <2>3
  <2>4. CASE act' = [act EXCEPT !["H"] = None] /\ slot' = [slot EXCEPT !["H"] = cleared]
    BY <1>1, <1>6, <2>2, <2>4
  <2> QED
    BY <1>7, <2>3, <2>4
<1>10. Slots'
  <2> SUFFICES ASSUME NEW e \in Device, NEW m \in Net
               PROVE  slot'[e][m] = IF act'[e] # None /\ act'[e].net = m THEN act'[e].id ELSE 0
    BY DEF Slots, Active
  <2>1. CASE e = "H"
    BY <1>8, <1>9, <2>1
  <2>2. CASE e = "J"
    BY <1>1, <1>9, <2>2 DEF Slots, Active
  <2> QED
    BY <2>1, <2>2 DEF Device
<1>11. CoreTypes'
  <2>1. \A e \in Device : (act[e] = None \/ IsSession(act[e]))'
    <3>1. (act["H"] = None \/ IsSession(act["H"]))'
      BY <1>8, <1>9
    <3>2. (act["J"] = None \/ IsSession(act["J"]))'
      BY <1>1, <1>4, <1>9, SessionKept DEF CoreTypes
    <3> QED
      BY <3>1, <3>2 DEF Device
  <2> QED
    BY <1>1, <1>4, <1>9, <2>1 DEF CoreTypes, IsSession
<1>12. LogsFit'
  <2>1. \A k \in DOMAIN rdv : LogFits(k)'
    BY <1>1, <1>4, LogKept
  <2>2. LogFits(i)'
    <3>1. Len(rdv'[i].log) = 0 /\ DOMAIN rdv'[i].log = {}
      BY <1>4
    <3> QED
      BY <3>1 DEF LogFits
  <2> QED
    BY <1>4, <2>1, <2>2 DEF LogsFit
<1>13. JoinerFits'
  <2>1. Active("J") => act["J"].id \in DOMAIN rdv
    BY <1>1, ActiveIs DEF IsSession
  <2> QED
    BY <1>1, <1>4, <1>9, <2>1, JoinerKept
<1>14. HolderFits'
  <2>1. HolderAt(s, 0)
    BY <1>8 DEF HolderAt
  <2>2. Len(rdv'[i].log) = 0
    BY <1>4
  <2> QED
    BY <1>8, <1>9, <2>1, <2>2 DEF HolderFits, Active
<1> QED
  BY <1>4, <1>10, <1>11, <1>12, <1>13, <1>14, <1>b DEF Core, Chat

\* start_joiner_any: the joiner has a session and its first message is out, or
\* it has none.
LEMMA JoinStartsCore ==
    ASSUME Core, ~Active("J"), NEW i \in DOMAIN rdv, NEW n \in Net,
           NEW eligible \in SUBSET Net, Join(i, n, eligible), UNCHANGED <<typed, list>>
    PROVE  Core' /\ Len(rdv') = Len(rdv)
<1> DEFINE s == Session(i, n, "Keyed", eligible)
           hello == [from |-> "J", wire |-> "hello", net |-> n]
           x == [[rdv[i] EXCEPT !.joined = TRUE] EXCEPT !.log = <<hello>>]
           y == [[rdv[i] EXCEPT !.joined = TRUE] EXCEPT !.open = FALSE]
<1>1. CoreTypes /\ Slots /\ LogsFit /\ HolderFits /\ JoinerFits /\ TypedGrows /\ ListsGrow
      /\ "H" \in Device /\ "J" \in Device
  BY TypedKept, ListsKept DEF Core, Chat, Device
<1>2. rdv \in Seq(RdvType) /\ rdv[i] \in RdvType /\ i \in Nat /\ i # 0 /\ LogFits(i)
      /\ Len(rdv[i].log) \in Nat
  BY <1>1, RdvIds DEF CoreTypes, LogsFit
<1>3. hello \in MsgType
  BY DEF MsgType, Device, Wire
<1>4. x \in RdvType /\ x.log = <<hello>> /\ x.joined
  <2> HIDE DEF hello
  <2>1. <<hello>> \in Seq(MsgType)
    BY <1>3
  <2> QED
    BY <1>2, <2>1 DEF RdvType
<1>5. y \in RdvType /\ y.log = rdv[i].log /\ y.joined
  BY <1>2 DEF RdvType
<1>6. CASE UNCHANGED <<rdv, act, slot>>
  BY <1>1, <1>6, QuietKeepsCore
<1>7. CASE UNCHANGED <<act, slot>> /\ rdv' = [rdv EXCEPT ![i] = y]
  <2> HIDE DEF y
  <2>1. /\ rdv' \in Seq(RdvType) /\ Len(rdv') = Len(rdv) /\ DOMAIN rdv' = DOMAIN rdv
        /\ rdv'[i] = y /\ \A k \in DOMAIN rdv : k # i => rdv'[k] = rdv[k]
    BY <1>2, <1>5, <1>7
  <2>2. \A k \in DOMAIN rdv : rdv'[k].log = rdv[k].log /\ (rdv[k].joined => rdv'[k].joined)
    BY <1>5, <2>1
  <2>3. LogsFit' /\ Chat'
    BY <1>1, <1>7, <2>1, <2>2, LogsKept, ChatKept DEF Core
  <2>4. CoreTypes'
    <3>1. \A e \in Device : (act[e] = None \/ IsSession(act[e]))'
      BY <1>1, <1>7, <2>1, SessionKept DEF CoreTypes
    <3> QED
      BY <1>1, <1>7, <2>1, <3>1 DEF CoreTypes, IsSession
  <2>5. Slots'
    BY <1>1, <1>7 DEF Slots, Active
  <2> QED
    BY <2>1, <2>3, <2>4, <2>5 DEF Core
<1>8. CASE /\ ~rdv[i].joined /\ act' = [act EXCEPT !["J"] = s]
           /\ slot' = [slot EXCEPT !["J"][n] = i] /\ rdv' = [rdv EXCEPT ![i] = x]
  <2>1. /\ s.id = i /\ s.net = n /\ s # None /\ ~s.master /\ ~s.joinSent /\ ~s.confirmed
        /\ s.seq = 0
    <3>1. None.id = 0
      BY DEF None
    <3>2. /\ s.id = i /\ s.net = n /\ ~s.master /\ ~s.joinSent /\ ~s.confirmed /\ s.seq = 0
      BY DEF Session
    <3> QED
      BY <1>2, <3>1, <3>2
  <2>2. /\ rdv' \in Seq(RdvType) /\ Len(rdv') = Len(rdv) /\ DOMAIN rdv' = DOMAIN rdv
        /\ rdv'[i] = x /\ \A k \in DOMAIN rdv : k # i => rdv'[k] = rdv[k]
    <3> HIDE DEF x
    <3> QED
      BY <1>2, <1>4, <1>8
  <2>3. IsSession(s)'
    <3>1. i \in DOMAIN rdv'
      BY <2>2
    <3> QED
      BY <3>1 DEF Session, IsSession, Fields
  <2> HIDE DEF s, x
  <2>4. act' = [e \in Device |-> act'[e]] /\ act'["J"] = s /\ act'["H"] = act["H"]
    BY <1>1, <1>8 DEF CoreTypes
  <2>5. /\ slot' \in [Device -> [Net -> Nat]] /\ slot'["H"] = slot["H"]
        /\ \A m \in Net : slot'["J"][m] = IF m = n THEN i ELSE slot["J"][m]
    <3>1. slot \in [Device -> [Net -> Nat]]
      BY <1>1 DEF CoreTypes
    <3> QED
      BY <1>1, <1>2, <1>8, <3>1
  <2>6. Slots'
    <3> SUFFICES ASSUME NEW e \in Device, NEW m \in Net
                 PROVE  slot'[e][m] = IF act'[e] # None /\ act'[e].net = m THEN act'[e].id ELSE 0
      BY DEF Slots, Active
    <3>1. slot["J"][m] = 0
      BY <1>1 DEF Slots
    <3>2. CASE e = "J"
      BY <2>1, <2>4, <2>5, <3>1, <3>2
    <3>3. CASE e = "H"
      BY <1>1, <2>4, <2>5, <3>3 DEF Slots, Active
    <3> QED
      BY <3>2, <3>3 DEF Device
  <2>7. CoreTypes'
    <3>1. (act["J"] = None \/ IsSession(act["J"]))'
      BY <2>3, <2>4
    <3>2. (act["H"] = None \/ IsSession(act["H"]))'
      BY <1>1, <2>2, <2>4, SessionKept DEF CoreTypes
    <3>3. \A e \in Device : (act[e] = None \/ IsSession(act[e]))'
      BY <3>1, <3>2 DEF Device
    <3> QED
      BY <1>1, <2>2, <2>4, <2>5, <3>3 DEF CoreTypes, IsSession
  <2>8. Len(rdv[i].log) = 0
    BY <1>2, <1>8 DEF LogFits
  <2>9. Len(rdv'[i].log) = 1 /\ DOMAIN rdv'[i].log = {1} /\ rdv'[i].log[1] = hello
    <3> HIDE DEF hello
    <3>1. Len(<<hello>>) = 1 /\ DOMAIN <<hello>> = {1} /\ <<hello>>[1] = hello
      OBVIOUS
    <3>2. rdv'[i].log = <<hello>>
      BY <1>4, <2>2
    <3> QED
      BY <3>1, <3>2
  <2>10. LogsFit'
    <3>1. \A k \in DOMAIN rdv : k # i => LogFits(k)'
      BY <1>1, <2>2, LogKept
    <3>2. LogFits(i)'
      <4>1. hello.from = "J" /\ hello.wire = "hello"
        OBVIOUS
      <4>2. \A k \in DOMAIN rdv'[i].log : k = 1 /\ rdv'[i].log[k] = hello
        BY <2>9
      <4>3. rdv'[i].joined
        BY <1>4, <2>2
      <4> HIDE DEF hello
      <4> QED
        BY <2>9, <4>1, <4>2, <4>3 DEF LogFits
    <3> QED
      BY <2>2, <3>1, <3>2 DEF LogsFit
  <2>11. HolderFits'
    <3>1. CASE Active("H") /\ act["H"].id = i
      <4>1. HolderAt(act["H"], 0) /\ (act["H"].confirmed => "H" \in typed[i])
        BY <1>1, <2>8, <3>1 DEF HolderFits
      <4>2. HolderAt(act["H"], 1)
        BY <4>1 DEF HolderAt
      <4> QED
        BY <2>4, <2>9, <3>1, <4>1, <4>2 DEF HolderFits
    <3>2. CASE ~(Active("H") /\ act["H"].id = i)
      <4>1. Active("H") => act["H"].id \in DOMAIN rdv
        BY <1>1, ActiveIs DEF IsSession
      <4> QED
        BY <1>1, <2>2, <2>4, <3>2, <4>1, HolderKept
    <3> QED
      BY <3>1, <3>2
  <2>12. JoinerFits'
    <3>1. JoinerAt(s, 1)
      BY <2>1 DEF JoinerAt
    <3> QED
      BY <2>1, <2>4, <2>9, <3>1 DEF JoinerFits
  <2> QED
    BY <2>2, <2>6, <2>7, <2>10, <2>11, <2>12 DEF Core, Chat
<1> QED
  <2>1. \/ UNCHANGED <<rdv, act, slot>>
        \/ UNCHANGED <<act, slot>> /\ rdv' = [[rdv EXCEPT ![i].joined = TRUE] EXCEPT ![i].open = FALSE]
        \/ /\ ~rdv[i].joined /\ act' = [act EXCEPT !["J"] = s]
           /\ slot' = [slot EXCEPT !["J"][n] = i]
           /\ rdv' = [[rdv EXCEPT ![i].joined = TRUE] EXCEPT ![i].log = <<hello>>]
    BY DEF Join
  <2>2. [[rdv EXCEPT ![i].joined = TRUE] EXCEPT ![i].open = FALSE] = [rdv EXCEPT ![i] = y]
    BY <1>2
  <2>3. [[rdv EXCEPT ![i].joined = TRUE] EXCEPT ![i].log = <<hello>>] = [rdv EXCEPT ![i] = x]
    <3> HIDE DEF hello
    <3> QED
      BY <1>2
  <2> QED
    BY <1>6, <1>7, <1>8, <2>1, <2>2, <2>3

\* The program of a device stops.
LEMMA RestartKeepsCore ==
    ASSUME Core, NEW d \in Device, Restart(d)
    PROVE  Core' /\ Len(rdv') = Len(rdv)
<1>1. CoreTypes /\ Slots /\ Chat /\ TypedGrows /\ ListsGrow
  BY TypedKept, ListsKept DEF Core, Restart
<1>2. PICK left : CloseRdv(left)
  BY DEF Restart
<1>3. act' = [act EXCEPT ![d] = None] /\ slot' = [slot EXCEPT ![d] = [n \in Net |-> 0]]
      /\ UNCHANGED typed
  BY DEF Restart
<1>4. /\ rdv' \in Seq(RdvType) /\ Len(rdv') = Len(rdv) /\ DOMAIN rdv' = DOMAIN rdv
      /\ \A i \in DOMAIN rdv : rdv'[i].log = rdv[i].log /\ rdv'[i].joined = rdv[i].joined
  BY <1>1, <1>2, CloseFacts DEF CoreTypes
<1>5. /\ act' = [e \in Device |-> act'[e]] /\ act'[d] = None
      /\ \A e \in Device : e # d => act'[e] = act[e] /\ slot'[e] = slot[e]
      /\ slot' \in [Device -> [Net -> Nat]] /\ \A m \in Net : slot'[d][m] = 0
  BY <1>1, <1>3 DEF CoreTypes
<1>6. Slots'
  <2> SUFFICES ASSUME NEW e \in Device, NEW m \in Net
               PROVE  slot'[e][m] = IF act'[e] # None /\ act'[e].net = m THEN act'[e].id ELSE 0
    BY DEF Slots, Active
  <2>1. CASE e = d
    BY <1>5, <2>1
  <2>2. CASE e # d
    BY <1>1, <1>5, <2>2 DEF Slots, Active
  <2> QED
    BY <2>1, <2>2
<1>7. CoreTypes'
  <2>1. \A e \in Device : (act[e] = None \/ IsSession(act[e]))'
    BY <1>1, <1>4, <1>5, SessionKept DEF CoreTypes
  <2> QED
    BY <1>1, <1>3, <1>4, <1>5, <2>1 DEF CoreTypes, IsSession
<1>8. Chat'
  BY <1>1, <1>4, <1>5, ChatKept
<1> QED
  BY <1>4, <1>6, <1>7, <1>8 DEF Core

-----------------------------------------------------------------------------
(* Every step keeps the invariant. *)

LEMMA OfferKept ==
    ASSUME CoreTypes, Rest, TypedGrows, Len(rdv') = Len(rdv),
           UNCHANGED <<list, published, granted, origin>>, needs' \subseteq Net,
           offer' \in {0, offer}
    PROVE  Rest'
<1>1. offer' \in 0 .. Len(rdv')
  BY RdvIds DEF Rest
<1> QED
  BY <1>1, RestKept

\* A fetch and what it leads to.
LEMMA FetchKeeps ==
    ASSUME Core, Rest, NEW d \in Device, Fetch(d)
    PROVE  Core' /\ Rest'
<1>1. CoreTypes /\ UNCHANGED <<offer, typed>> /\ TypedGrows /\ "H" \in Device /\ "J" \in Device
      /\ needs \subseteq Net
  BY TypedKept DEF Core, Fetch, Device, Rest
<1>2. CASE TakeHello
  <2>1. Core' /\ Len(rdv') = Len(rdv)
    BY <1>1, <1>2, TakeHelloKeepsCore
  <2>2. UNCHANGED <<list, published, granted, origin, needs>>
    BY <1>2 DEF TakeHello
  <2> QED
    BY <1>1, <2>1, <2>2, OfferKept
<1>3. CASE TakeJoin
  BY <1>1, <1>3, TakeJoinKeeps
<1>4. CASE TakeOffer
  <2>1. Core' /\ Len(rdv') = Len(rdv)
    BY <1>1, <1>4, TakeOfferKeepsCore
  <2>2. UNCHANGED <<list, published, granted, origin, needs>>
    BY <1>4 DEF TakeOffer
  <2> QED
    BY <1>1, <2>1, <2>2, OfferKept
<1>5. CASE TakeSigned
  BY <1>1, <1>5, TakeSignedKeeps
<1>6. ASSUME NEW e \in Device, Active(e), Aborted(e),
             UNCHANGED <<list, published, granted, origin, needs>>
      PROVE  Core' /\ Rest'
  <2>1. Core' /\ Len(rdv') = Len(rdv)
    BY <1>1, <1>6, AbortKeepsCore, ListsKept
  <2> QED
    BY <1>1, <1>6, <2>1, OfferKept
<1>7. CASE TakeRefusal
  BY <1>1, <1>6, <1>7 DEF TakeRefusal, Read
<1>8. CASE TakeDone
  BY <1>1, <1>6, <1>8 DEF TakeDone, Read
<1>9. CASE FetchFails(d)
  BY <1>6, <1>9 DEF FetchFails
<1> QED
  BY <1>2, <1>3, <1>4, <1>5, <1>7, <1>8, <1>9 DEF Fetch, Pump

\* A published list of another holder, or the read of one.
LEMMA ListsKeep ==
    ASSUME Core, Rest, NEW n \in Net, AnotherPublishes(n) \/ SyncOwnList(n)
    PROVE  Core' /\ Rest'
<1>1. /\ CoreTypes /\ TypedGrows
      /\ UNCHANGED <<rdv, act, slot, granted, needs, offer, typed, origin>>
      /\ list \in [Net -> ListType] /\ published \in [Net -> ListType]
      /\ \A m \in Net : "J" \in list[m].keys => "J" \in published[m].keys
  BY TypedKept DEF Core, Rest, AnotherPublishes, SyncOwnList, server, stores, offers
<1>2. ListsGrow /\ list' \in [Net -> ListType] /\ published' \in [Net -> ListType]
      /\ \A m \in Net : "J" \in list'[m].keys => "J" \in published'[m].keys
  <2>1. CASE AnotherPublishes(n)
    <3> DEFINE g == [ver |-> published[n].ver + 1, keys |-> published[n].keys \cup {"K"}]
    <3>1. g \in ListType /\ published[n].keys \subseteq g.keys
      BY <1>1 DEF ListType
    <3>2. published' = [published EXCEPT ![n] = g] /\ list' = list
      BY <2>1 DEF AnotherPublishes, stores
    <3> HIDE DEF g
    <3>3. published' \in [Net -> ListType]
          /\ \A m \in Net : published[m].keys \subseteq published'[m].keys
      BY <1>1, <3>1, <3>2
    <3> QED
      BY <1>1, <3>2, <3>3, ListsKept
  <2>2. CASE SyncOwnList(n)
    <3>1. list' = [list EXCEPT ![n] = published[n]] /\ published' = published
      BY <2>2 DEF SyncOwnList, server
    <3>2. list' \in [Net -> ListType]
          /\ \A m \in Net : list'[m] = list[m] \/ list'[m] = published[m]
      BY <1>1, <3>1
    <3> QED
      BY <1>1, <3>1, <3>2 DEF ListsGrow
  <2> QED
    BY <2>1, <2>2
<1>3. Core'
  BY <1>1, <1>2, QuietKeepsCore
<1>4. Rest'
  BY <1>1, <1>2 DEF Rest, ListsGrow
<1> QED
  BY <1>3, <1>4

LEMMA JoinerStarts ==
    ASSUME Core, Rest, Accept \/ \E i \in Rdv, n \in Net : JoinByCode(i, n)
    PROVE  Core' /\ Rest'
<1>1. /\ CoreTypes /\ TypedGrows /\ needs \subseteq Net /\ offer \in 0 .. Len(rdv)
      /\ DOMAIN rdv = 1 .. Len(rdv) /\ Len(rdv) \in Nat
  BY TypedKept, RdvIds DEF Core, Rest, Accept, JoinByCode
<1>2. /\ UNCHANGED <<typed, list, published, granted, origin, needs>> /\ offer' = 0
      /\ ListsGrow
  BY ListsKept DEF Accept, JoinByCode
<1>3. Core' /\ Len(rdv') = Len(rdv)
  <2>1. CASE UNCHANGED <<rdv, act, slot>>
    BY <1>1, <1>2, <2>1, QuietKeepsCore
  <2>2. CASE /\ ~Active("J") /\ needs # {} /\ offer # 0
             /\ Join(offer, CHOOSE n \in needs : \A m \in needs : n <= m, needs)
    <3> DEFINE first == CHOOSE n \in needs : \A m \in needs : n <= m
    <3>1. first \in needs
      BY <1>1, <2>2, PairingConstants
    <3>2. offer \in DOMAIN rdv
      BY <1>1, <2>2
    <3> HIDE DEF first
    <3>3. first \in Net /\ needs \in SUBSET Net
      BY <1>1, <3>1
    <3>4. Join(offer, first, needs)
      BY <2>2 DEF first
    <3> QED
      BY <1>2, <2>2, <3>2, <3>3, <3>4, JoinStartsCore
  <2>3. CASE \E i \in Rdv, n \in Net : JoinByCode(i, n)
    <3>1. PICK i \in DOMAIN rdv, n \in Net : ~Active("J") /\ Join(i, n, {})
      BY <2>3 DEF JoinByCode
    <3>2. {} \in SUBSET Net
      OBVIOUS
    <3> QED
      BY <1>2, <3>1, <3>2, JoinStartsCore
  <2> QED
    BY <2>1, <2>2, <2>3 DEF Accept
<1> QED
  BY <1>1, <1>2, <1>3, OfferKept

\* A session ends by its user, by its time or by an event.
LEMMA EndKeeps ==
    ASSUME Core, Rest, NEW d \in Device,
           \/ ConfirmWrong(d) \/ Cancel(d) \/ Expire(d)
           \/ \E n \in HolderNet : StartFails(n)
           \/ \E i \in Rdv : ClosedEvent(d, i)
    PROVE  Core' /\ Rest'
<1>1. /\ CoreTypes /\ UNCHANGED <<typed, list, published, granted, needs, origin>>
      /\ offer' \in {0, offer} /\ needs \subseteq Net /\ "H" \in Device
      /\ TypedGrows /\ ListsGrow
  BY TypedKept, ListsKept
  DEF Core, Rest, ConfirmWrong, Cancel, Expire, StartFails, ClosedEvent, OfferClosed, offers,
      server, Device
<1>2. Core' /\ Len(rdv') = Len(rdv)
  <2>1. CASE ConfirmWrong(d) \/ Cancel(d)
    BY <1>1, <2>1, AbortKeepsCore DEF ConfirmWrong, Cancel
  <2>2. CASE Expire(d)
    BY <1>1, <2>2, EndKeepsCore DEF Expire
  <2>3. CASE \E n \in HolderNet : StartFails(n)
    <3>1. Active("H") /\ Aborted("H")
      BY <2>3 DEF StartFails, StartRefused
    <3> QED
      BY <1>1, <3>1, AbortKeepsCore
  <2>4. CASE \E i \in Rdv : ClosedEvent(d, i)
    <3>1. PICK i \in DOMAIN rdv : UNCHANGED rdv /\ IF act[d].id = i THEN Gone(d)
                                                   ELSE UNCHANGED <<act, slot>>
      BY <2>4 DEF ClosedEvent, server
    <3>2. CASE act[d].id = i
      <4>1. Active(d)
        BY <1>1, <3>2, RdvIds, ActiveIs
      <4> QED
        BY <1>1, <3>1, <3>2, <4>1, EndKeepsCore
    <3>3. CASE act[d].id # i
      BY <1>1, <3>1, <3>3, QuietKeepsCore
    <3> QED
      BY <3>2, <3>3
  <2> QED
    BY <2>1, <2>2, <2>3, <2>4
<1> QED
  BY <1>1, <1>2, OfferKept

\* The offer that waits, the events of the topic and the end of a lifetime.
LEMMA EventKeeps ==
    ASSUME Core, Rest,
           \/ Decline \/ JoinedElsewhere \/ ExpireOffer
           \/ \E i \in Rdv : OfferEvent(i) \/ RelayExpires(i)
           \/ \E d \in Device : Reconnect(d)
    PROVE  Core' /\ Rest'
<1>1. /\ CoreTypes /\ UNCHANGED <<act, slot, typed, list, published, granted, origin>>
      /\ TypedGrows /\ ListsGrow /\ needs' \subseteq Net /\ offer \in 0 .. Len(rdv)
      /\ UNCHANGED rdv \/ \E ids : CloseRdv(ids)
  BY TypedKept, ListsKept
  DEF Core, Rest, Decline, JoinedElsewhere, ExpireOffer, OfferEvent, RelayExpires, Reconnect,
      server, stores, offers
<1>2. Core' /\ Len(rdv') = Len(rdv)
  BY <1>1, QuietKeepsCore
<1>3. offer' \in 0 .. Len(rdv')
  <2>1. DOMAIN rdv = 1 .. Len(rdv) /\ Len(rdv) \in Nat
    BY <1>1, RdvIds
  <2>2. offer' \in {0, offer} \/ offer' \in DOMAIN rdv
    BY DEF Decline, JoinedElsewhere, ExpireOffer, OfferEvent, RelayExpires, Reconnect, offers
  <2> QED
    BY <1>1, <1>2, <2>1, <2>2
<1> QED
  BY <1>1, <1>2, <1>3, RestKept

LEMMA StartKeeps ==
    ASSUME Core, Rest, NEW n \in Net, Start(n)
    PROVE  Core' /\ Rest'
<1>1. /\ CoreTypes /\ UNCHANGED <<typed, list, published, granted, needs, offer, origin>>
      /\ TypedGrows /\ needs \subseteq Net /\ offer \in 0 .. Len(rdv)
  BY TypedKept DEF Core, Rest, Start, offers
<1>2. Core' /\ Len(rdv') = Len(rdv) + 1
  BY StartKeepsCore
<1>3. offer' \in 0 .. Len(rdv')
  BY <1>1, <1>2, RdvIds
<1> QED
  BY <1>1, <1>2, <1>3, RestKept

LEMMA StepKeeps ==
    ASSUME Core, Rest, [Next]_vars
    PROVE  Core' /\ Rest'
<1>0. CoreTypes /\ HolderNet \subseteq Net
  BY PairingConstants DEF Core
<1>1. CASE \E n \in HolderNet : Start(n) \/ AnotherPublishes(n) \/ SyncOwnList(n)
  BY <1>0, <1>1, StartKeeps, ListsKeep
<1>2. CASE Accept \/ \E i \in Rdv, n \in Net : JoinByCode(i, n)
  BY <1>2, JoinerStarts
<1>3. CASE \E d \in Device : \/ ConfirmWrong(d) \/ Cancel(d) \/ Expire(d)
                             \/ \E n \in HolderNet : StartFails(n)
                             \/ \E i \in Rdv : ClosedEvent(d, i)
  BY <1>3, EndKeeps
<1>4. CASE \/ Decline \/ JoinedElsewhere \/ ExpireOffer
           \/ \E i \in Rdv : OfferEvent(i) \/ RelayExpires(i)
           \/ \E d \in Device : Reconnect(d)
  BY <1>4, EventKeeps
<1>5. CASE \E d \in Device : Fetch(d)
  BY <1>5, FetchKeeps
<1>6. CASE \E d \in Device : ConfirmRight(d)
  <2>1. PICK d \in Device : ConfirmRight(d)
    BY <1>6
  <2>2. Core' /\ Len(rdv') = Len(rdv) /\ TypedGrows
    BY <2>1, ConfirmKeepsCore
  <2>3. UNCHANGED <<list, published, granted, origin, needs, offer>> /\ needs \subseteq Net
    BY <2>1 DEF ConfirmRight, offers, Rest
  <2> QED
    BY <1>0, <2>2, <2>3, OfferKept
<1>7. CASE \E d \in Device : Restart(d)
  <2>1. PICK d \in Device : Restart(d)
    BY <1>7
  <2>2. Core' /\ Len(rdv') = Len(rdv)
    BY <2>1, RestartKeepsCore
  <2>3. /\ UNCHANGED <<typed, list, published, granted, origin>> /\ offer' \in {0, offer}
        /\ needs' \subseteq Net /\ TypedGrows
    BY <1>0, <2>1, TypedKept DEF Restart, Rest
  <2> QED
    BY <1>0, <2>2, <2>3, OfferKept
<1>8. CASE UNCHANGED vars
  <2>1. /\ UNCHANGED <<rdv, act, slot, typed, list, published, granted, needs, offer, origin>>
        /\ needs \subseteq Net
    BY <1>8 DEF vars, server, stores, offers, Rest
  <2>2. TypedGrows /\ ListsGrow
    BY <1>0, <2>1, TypedKept, ListsKept
  <2>3. Core' /\ Len(rdv') = Len(rdv)
    BY <2>1, <2>2, QuietKeepsCore
  <2> QED
    BY <1>0, <2>1, <2>2, <2>3, OfferKept
<1>9. "H" \in Device
  BY DEF Device
<1> QED
  BY <1>1, <1>2, <1>3, <1>4, <1>5, <1>6, <1>7, <1>8, <1>9 DEF Next

-----------------------------------------------------------------------------
(* The memory of the offers. *)

\* No id is remembered twice, what was told ended is remembered, and no offer
\* waits that was told ended.
Memory ==
    /\ \A j, k \in DOMAIN seen : seen[j] = seen[k] => j = k
    /\ closedSeen \subseteq ToSet(seen)
    /\ NoOfferAfterClose

\* What a step may do to the offer and to what the joiner remembers.
OfferLeft == offer' \in {0, offer} /\ UNCHANGED <<seen, closedSeen>>
OfferShown(i) ==
    i \notin ToSet(seen) /\ offer' = i /\ seen' = Remembered(i) /\ UNCHANGED closedSeen
OffersForgotten == offer' = 0 /\ seen' = << >> /\ closedSeen' = {}

LEMMA OfferMoves ==
    ASSUME CoreTypes, [Next]_vars
    PROVE  OfferLeft \/ OffersForgotten \/ \E i \in DOMAIN rdv : OfferShown(i) \/ OfferClosed(i)
<1>1. CASE \E n \in HolderNet : Start(n) \/ StartFails(n) \/ AnotherPublishes(n) \/ SyncOwnList(n)
  BY <1>1 DEF Start, StartFails, AnotherPublishes, SyncOwnList, offers, OfferLeft
<1>2. CASE \/ Accept \/ Decline \/ JoinedElsewhere \/ ExpireOffer
           \/ \E i \in Rdv, n \in Net : JoinByCode(i, n)
           \/ \E i \in Rdv : RelayExpires(i)
  BY <1>2 DEF Accept, Decline, JoinedElsewhere, ExpireOffer, JoinByCode, RelayExpires, offers,
              OfferLeft
<1>3. CASE \E i \in Rdv : OfferEvent(i)
  BY <1>3 DEF OfferEvent, OfferShown
<1>4. CASE \E d \in Device : ConfirmRight(d) \/ ConfirmWrong(d) \/ Fetch(d) \/ Cancel(d) \/ Expire(d)
  BY <1>4 DEF ConfirmRight, ConfirmWrong, Fetch, Cancel, Expire, offers, OfferLeft
<1>5. CASE \E d \in Device, i \in Rdv : ClosedEvent(d, i)
  BY <1>5 DEF ClosedEvent, OfferLeft
<1>6. CASE \E d \in Device : Reconnect(d)
  BY <1>6 DEF Reconnect, OfferLeft
<1>7. CASE \E d \in Device : Restart(d)
  BY <1>7 DEF Restart, OfferLeft, OffersForgotten
<1>8. CASE UNCHANGED vars
  BY <1>8 DEF vars, offers, OfferLeft
<1> QED
  BY <1>1, <1>2, <1>3, <1>4, <1>5, <1>6, <1>7, <1>8 DEF Next

\* remember_offer: the oldest goes when the memory is full.
LEMMA RememberedTypes ==
    ASSUME SeenFits, NEW i \in Rdv
    PROVE  Remembered(i) \in Seq(Rdv) /\ Len(Remembered(i)) <= SeenMax
<1>1. seen \in Seq(Rdv) /\ Len(seen) <= SeenMax /\ SeenMax \in Nat /\ SeenMax # 0
      /\ Len(seen) \in Nat
  BY PairingConstants DEF SeenFits
<1>2. Append(seen, i) \in Seq(Rdv) /\ Len(Append(seen, i)) = Len(seen) + 1
  BY <1>1
<1>3. CASE i \in ToSet(seen)
  BY <1>1, <1>3 DEF Remembered
<1>4. CASE i \notin ToSet(seen) /\ Len(seen) >= SeenMax
  <2>1. seen # << >>
    BY <1>1, <1>4
  <2>2. Tail(seen) \in Seq(Rdv) /\ Len(Tail(seen)) = Len(seen) - 1
    BY <1>1, <2>1
  <2>3. Append(Tail(seen), i) \in Seq(Rdv) /\ Len(Append(Tail(seen), i)) = Len(seen)
    BY <1>1, <2>2
  <2> QED
    BY <1>1, <1>4, <2>3 DEF Remembered
<1>5. CASE i \notin ToSet(seen) /\ Len(seen) < SeenMax
  BY <1>1, <1>2, <1>5 DEF Remembered
<1> QED
  BY <1>1, <1>3, <1>4, <1>5

LEMMA SeenKept ==
    ASSUME CoreTypes, SeenFits, [Next]_vars
    PROVE  SeenFits'
<1>1. DOMAIN rdv \subseteq Rdv /\ SeenMax \in Nat
  BY RdvIds, PairingConstants
<1>2. CASE seen' = seen
  BY <1>2 DEF SeenFits
<1>3. CASE seen' = << >>
  BY <1>1, <1>3 DEF SeenFits
<1>4. CASE \E i \in DOMAIN rdv : seen' = Remembered(i)
  BY <1>1, <1>4, RememberedTypes DEF SeenFits
<1> QED
  BY <1>2, <1>3, <1>4, OfferMoves DEF OfferLeft, OffersForgotten, OfferShown, OfferClosed

\* The memory has room for each of the rendezvous: an id that is not in it finds
\* it not full.
LEMMA RoomForAll ==
    ASSUME MaxRdv <= SeenMax, SeenFits,
           \A j, k \in DOMAIN seen : seen[j] = seen[k] => j = k,
           NEW i \in Rdv, i \notin ToSet(seen)
    PROVE  Len(seen) < SeenMax
<1> DEFINE L == Len(seen)
           f == [k \in 1 .. L + 1 |-> IF k \in 1 .. L THEN seen[k] ELSE i]
<1>1. /\ seen \in Seq(Rdv) /\ L \in Nat /\ MaxRdv \in Nat /\ SeenMax \in Nat
      /\ DOMAIN seen = 1 .. L /\ \A k \in 1 .. L : seen[k] \in Rdv /\ seen[k] # i
  BY PairingConstants DEF SeenFits, ToSet
<1> HIDE DEF L
<1>2. f \in [1 .. L + 1 -> Rdv]
  BY <1>1
<1>3. ASSUME NEW j \in 1 .. L + 1, NEW k \in 1 .. L + 1, f[j] = f[k] PROVE j = k
  BY <1>1, <1>3
<1>4. /\ IsFiniteSet(1 .. L + 1) /\ Cardinality(1 .. L + 1) = L + 1
      /\ IsFiniteSet(Rdv) /\ Cardinality(Rdv) = MaxRdv
  <2>1. 1 \in Int /\ L + 1 \in Int /\ MaxRdv \in Int /\ ~(1 > L + 1)
    BY <1>1
  <2>2. IsFiniteSet(1 .. L + 1) /\ Cardinality(1 .. L + 1) = L + 1
    BY <1>1, <2>1, FS_Interval
  <2>3. IsFiniteSet(1 .. MaxRdv) /\ Cardinality(1 .. MaxRdv) = MaxRdv
    BY <1>1, <2>1, FS_Interval
  <2> QED
    BY <2>2, <2>3 DEF Rdv
<1>5. ~(MaxRdv < L + 1)
  <2> HIDE DEF f
  <2>1. SUFFICES ASSUME Cardinality(Rdv) < Cardinality(1 .. L + 1) PROVE FALSE
    BY <1>4
  <2>2. \E x, y \in 1 .. L + 1 : x # y /\ f[x] = f[y]
    BY <1>2, <1>4, <2>1, FS_PigeonHole
  <2> QED
    BY <1>3, <2>2
<1> QED
  BY <1>1, <1>5 DEF L

\* A memory with room forgets nothing.
LEMMA RememberedFacts ==
    ASSUME MaxRdv <= SeenMax, SeenFits, NEW i \in Rdv,
           \A j, k \in DOMAIN seen : seen[j] = seen[k] => j = k
    PROVE  LET new == Remembered(i)
           IN  /\ \A j, k \in DOMAIN new : new[j] = new[k] => j = k
               /\ ToSet(new) = ToSet(seen) \cup {i}
<1>1. CASE i \in ToSet(seen)
  BY <1>1 DEF Remembered
<1>2. CASE i \notin ToSet(seen)
  <2> DEFINE L == Len(seen)
             new == Append(seen, i)
  <2>1. /\ seen \in Seq(Rdv) /\ L \in Nat /\ SeenMax \in Nat /\ DOMAIN seen = 1 .. L
        /\ \A k \in 1 .. L : seen[k] # i
    BY <1>2, PairingConstants DEF SeenFits, ToSet
  <2>2. Remembered(i) = new
    BY <1>2, <2>1, RoomForAll DEF Remembered
  <2>3. /\ DOMAIN new = 1 .. L + 1 /\ new[L + 1] = i
        /\ \A k \in 1 .. L : new[k] = seen[k]
    BY <2>1
  <2>4. ToSet(seen) = {seen[k] : k \in 1 .. L} /\ ToSet(new) = {new[k] : k \in 1 .. L + 1}
    BY <2>1, <2>3 DEF ToSet
  <2> HIDE DEF L, new
  <2>5. \A k \in 1 .. L + 1 : k \in 1 .. L \/ k = L + 1
    BY <2>1
  <2>6. L + 1 \in 1 .. L + 1 /\ 1 .. L \subseteq 1 .. L + 1
    BY <2>1
  <2>7. \A j, k \in DOMAIN new : new[j] = new[k] => j = k
    BY <2>1, <2>3, <2>5
  <2>8. ToSet(new) = ToSet(seen) \cup {i}
    BY <2>3, <2>4, <2>5, <2>6
  <2> QED
    BY <2>2, <2>7, <2>8
<1> QED
  BY <1>1, <1>2

LEMMA MemoryKept ==
    ASSUME MaxRdv <= SeenMax, CoreTypes, SeenFits, Memory, [Next]_vars
    PROVE  Memory'
<1>1. /\ \A j, k \in DOMAIN seen : seen[j] = seen[k] => j = k
      /\ closedSeen \subseteq ToSet(seen) /\ offer \notin closedSeen
      /\ ToSet(seen) \subseteq Rdv /\ DOMAIN rdv \subseteq Rdv /\ 0 \notin Rdv
  <2>1. seen \in Seq(Rdv) /\ DOMAIN rdv \subseteq Rdv
    BY RdvIds DEF SeenFits
  <2>2. ToSet(seen) \subseteq Rdv
    BY <2>1 DEF ToSet
  <2>3. 0 \notin Rdv
    BY DEF Rdv
  <2> QED
    BY <2>1, <2>2, <2>3 DEF Memory, NoOfferAfterClose
<1>2. CASE OfferLeft
  BY <1>1, <1>2 DEF OfferLeft, Memory, NoOfferAfterClose
<1>3. CASE OffersForgotten
  <2>1. DOMAIN seen' = {} /\ closedSeen' = {}
    BY <1>3 DEF OffersForgotten
  <2> QED
    BY <2>1 DEF Memory, NoOfferAfterClose
<1>4. ASSUME NEW i \in DOMAIN rdv, OfferShown(i) \/ OfferClosed(i) PROVE Memory'
  <2>1. /\ \A j, k \in DOMAIN seen' : seen'[j] = seen'[k] => j = k
        /\ ToSet(seen)' = ToSet(seen) \cup {i}
    <3>1. seen' = Remembered(i)
      BY <1>4 DEF OfferShown, OfferClosed
    <3>2. i \in Rdv
      BY <1>1
    <3>3. ToSet(seen)' = ToSet(seen')
      OBVIOUS
    <3> QED
      BY <1>1, <3>1, <3>2, <3>3, RememberedFacts
  <2>2. CASE OfferShown(i)
    BY <1>1, <2>1, <2>2 DEF OfferShown, Memory, NoOfferAfterClose
  <2>3. CASE OfferClosed(i)
    BY <1>1, <2>1, <2>3 DEF OfferClosed, Memory, NoOfferAfterClose
  <2> QED
    BY <1>4, <2>2, <2>3
<1> QED
  BY <1>2, <1>3, <1>4, OfferMoves

-----------------------------------------------------------------------------
(* The theorems. *)

LEMMA InvInit ==
    ASSUME Init
    PROVE  Inv /\ Memory
<1>1. /\ rdv = << >> /\ act = [d \in Device |-> None]
      /\ slot = [d \in Device |-> [n \in Net |-> 0]]
      /\ list = [n \in Net |-> [ver |-> 1, keys |-> {"H"}]] /\ published = list
      /\ granted = {} /\ needs = Net /\ offer = 0 /\ seen = << >>
      /\ typed = [i \in Rdv |-> {}] /\ origin = [n \in Net |-> 0] /\ closedSeen = {}
  BY DEF Init
<1>2. MaxRdv \in Nat /\ SeenMax \in Nat
  BY PairingConstants
<1>3. DOMAIN rdv = {} /\ Len(rdv) = 0 /\ DOMAIN seen = {} /\ Len(seen) = 0
  BY <1>1
<1>4. \A d \in Device : act[d] = None /\ ~Active(d)
  BY <1>1 DEF Active
<1>5. CoreTypes
  <2>1. rdv \in Seq(RdvType) /\ Len(rdv) <= MaxRdv
    BY <1>1, <1>2, <1>3
  <2>2. act = [d \in Device |-> act[d]]
    BY <1>1
  <2>3. slot \in [Device -> [Net -> Nat]]
    BY <1>1
  <2>4. typed \in [Rdv -> SUBSET Device]
    BY <1>1
  <2> QED
    BY <1>4, <2>1, <2>2, <2>3, <2>4 DEF CoreTypes
<1>6. Slots
  BY <1>1, <1>4 DEF Slots
<1>7. Chat
  BY <1>3, <1>4 DEF Chat, LogsFit, HolderFits, JoinerFits, Device
<1>8. Rest
  <2>1. [ver |-> 1, keys |-> {"H"}] \in ListType
    BY DEF ListType
  <2>2. list \in [Net -> ListType] /\ \A n \in Net : "J" \notin list[n].keys
    BY <1>1, <2>1
  <2>3. origin \in [Net -> Nat] /\ \A n \in Net : origin[n] = 0
    BY <1>1
  <2> QED
    BY <1>1, <1>3, <2>2, <2>3 DEF Rest
<1>9. SeenFits
  BY <1>1, <1>2, <1>3 DEF SeenFits
<1>10. Memory
  BY <1>1, <1>3 DEF Memory, NoOfferAfterClose
<1> QED
  BY <1>5, <1>6, <1>7, <1>8, <1>9, <1>10 DEF Inv, Core

LEMMA InvKept ==
    ASSUME Inv, [Next]_vars
    PROVE  Inv'
<1>1. Core' /\ Rest'
  BY StepKeeps DEF Inv
<1>2. SeenFits'
  BY SeenKept DEF Inv, Core
<1> QED
  BY <1>1, <1>2 DEF Inv

LEMMA InvIsSafe ==
    ASSUME Inv
    PROVE  TypeOK /\ BothConfirmed /\ GrantedIsListed
<1>1. TypeOK
  BY DEF Inv, Core, CoreTypes, Slots, Rest, SeenFits, TypeOK
<1>2. BothConfirmed
  BY DEF Inv, Rest, BothConfirmed
<1>3. GrantedIsListed
  BY DEF Inv, Rest, GrantedIsListed
<1> QED
  BY <1>1, <1>2, <1>3

\* Whatever the networks, the faults, the restarts, the order of the events and
\* the number of pairings: the state keeps its type and no slot is left behind,
\* the joiner is on a list only after both users typed the code of the same
\* rendezvous, and a joiner with a stored grant is on the list of the server and
\* of the holder (confirm_sas, finish_creator, finish_joiner, cleanup).
THEOREM PairingConsent == Spec => [](TypeOK /\ BothConfirmed /\ GrantedIsListed)
<1>1. Init => Inv
  BY InvInit
<1>2. Inv /\ [Next]_vars => Inv'
  BY InvKept
<1>3. Inv => TypeOK /\ BothConfirmed /\ GrantedIsListed
  BY InvIsSafe
<1> QED
  BY <1>1, <1>2, <1>3, PTL DEF Spec

\* While the memory of seen offers holds every rendezvous, all of PairingSound:
\* an event that comes after the end of its rendezvous shows no offer
\* (admit_offer, close_offer_of, remember_offer).
THEOREM PairingStaysSound ==
    ASSUME MaxRdv <= SeenMax
    PROVE  Spec => []PairingSound
<1>1. Init => Inv /\ Memory
  BY InvInit
<1>2. Inv /\ Memory /\ [Next]_vars => Inv' /\ Memory'
  <2>1. Inv => CoreTypes /\ SeenFits
    BY DEF Inv, Core
  <2> QED
    BY <2>1, InvKept, MemoryKept
<1>3. Inv /\ Memory => PairingSound
  BY InvIsSafe DEF Memory, PairingSound
<1> QED
  BY <1>1, <1>2, <1>3, PTL DEF Spec
=============================================================================
