------------------------------ MODULE SendProofs ------------------------------
(***************************************************************************)
(* Proofs about the send path, for any devices, texts and limits, and any  *)
(* number of one-time keys, new sessions, NACKs, failed writes, lost       *)
(* answers and restarts:                                                   *)
(*                                                                         *)
(*   OlmStepsUsedOnce   no step of an Olm session is used twice;           *)
(*   SendStaysTyped     the state keeps its types;                         *)
(*   SendStaysSound     the queue, the waiting texts and the book agree,   *)
(*                      and no unsent text looks sent;                     *)
(*   SendsBounded       a device gets a text at most MAX_SENDS times, and  *)
(*                      the own devices get one copy of it.                *)
(*                                                                         *)
(* Each rests on an inductive invariant: OlmInv, QueueInv on top of it and *)
(* TimesInv on top of both.                                                *)
(***************************************************************************)
EXTENDS SendQueue, FiniteSetTheorems, TLAPS

-----------------------------------------------------------------------------
(* The inductive invariant. *)

OlmTypes ==
    /\ session \in [Device -> OlmSession] /\ otk \in [Device -> Nat] /\ sessions \in Nat
    /\ known \subseteq Device /\ next \in Nat \ {0}
    /\ \A m \in DOMAIN wire :
         /\ m \in Nat /\ m < next /\ DOMAIN wire[m].body \subseteq Device
         /\ \A d \in DOMAIN wire[m].body : wire[m].body[d] \in Nat \X Nat

\* Sessions and one-time keys are numbered, and a key that is held is of no
\* session.
IdsFresh(s, k) ==
    /\ s.id <= sessions /\ k <= sessions /\ (s # NoSession => s.id # 0)
    /\ k # 0 => k # s.id

KeysFresh == \A d \in Device : IdsFresh(session[d], otk[d])

\* A message b that the relay took is of a known session, not of the key that
\* is held, and behind the next step of the stored session.
IsBehind(b, s, k) ==
    b[1] # 0 /\ b[1] <= sessions /\ b[1] # k /\ (b[1] = s.id => b[2] < s.n)

WireBehind ==
    \A m \in DOMAIN wire : \A d \in DOMAIN wire[m].body :
        IsBehind(wire[m].body[d], session[d], otk[d])

\* What seal gives for a device.
SealedFor(d) ==
    IF session[d] # NoSession THEN session[d] ELSE [NoSession EXCEPT !.id = otk[d]]

\* The copies that a send in progress holds are still those of the store, until
\* its request is made.
SealedNow(sealed) ==
    DOMAIN sealed \subseteq Ready /\ \A d \in DOMAIN sealed : sealed[d] = SealedFor(d)

JobFits ==
    job # None => /\ stage = "send" /\ DOMAIN job = {"item", "what", "sealed", "out"}
                  /\ SealedNow(job.sealed)

OlmInv == OlmTypes /\ KeysFresh /\ WireBehind /\ JobFits /\ OlmNotReused

-----------------------------------------------------------------------------
(* The steps. *)

LEMMA SealedFits ==
    ASSUME OlmTypes, KeysFresh, NEW d \in Ready
    PROVE  /\ d \in Device /\ SealedFor(d) \in OlmSession
           /\ SealedFor(d).id # 0 /\ SealedFor(d).id <= sessions
           /\ \/ SealedFor(d) = session[d]
              \/ SealedFor(d).id = otk[d] /\ otk[d] # 0
<1>1. d \in Device /\ (session[d] # NoSession \/ otk[d] # 0) /\ session[d] \in OlmSession
      /\ otk[d] \in Nat /\ IdsFresh(session[d], otk[d])
  BY DEF Ready, OlmTypes, KeysFresh
<1>2. CASE session[d] # NoSession
  BY <1>1, <1>2 DEF SealedFor, IdsFresh
<1>3. CASE session[d] = NoSession
  <2>1. SealedFor(d) = [id |-> otk[d], n |-> 0, received |-> FALSE]
    BY <1>3 DEF SealedFor, NoSession
  <2> QED
    BY <1>1, <1>3, <2>1 DEF OlmSession, IdsFresh
<1> QED
  BY <1>2, <1>3

\* Nothing goes out and no session changes.
LEMMA QuietKeeps ==
    ASSUME OlmInv, UNCHANGED <<session, otk, known, sessions, wire>>, next' \in Nat, next <= next',
           job' # None => /\ stage' = "send" /\ DOMAIN job' = {"item", "what", "sealed", "out"}
                          /\ SealedNow(job'.sealed)
    PROVE  OlmInv'
<1>1. OlmTypes'
  BY DEF OlmInv, OlmTypes
<1>2. KeysFresh' /\ WireBehind' /\ OlmNotReused'
  BY DEF OlmInv, KeysFresh, WireBehind, OlmNotReused, IdsFresh, IsBehind
<1>3. JobFits'
  BY DEF JobFits, SealedNow, SealedFor, Ready
<1> QED
  BY <1>1, <1>2, <1>3 DEF OlmInv

\* A session is replaced, taken away or answered, or a key comes, while no send
\* is in progress.
LEMMA OutsideKeeps ==
    ASSUME OlmInv, job' = None, UNCHANGED wire, next' \in Nat, next <= next',
           session' \in [Device -> OlmSession], otk' \in [Device -> Nat], known' \subseteq Device,
           sessions' \in Nat, sessions <= sessions',
           \A d \in Device :
              /\ \/ session'[d].id = session[d].id /\ session'[d].n = session[d].n
                    /\ (session'[d] # NoSession => session'[d].id # 0)
                 \/ session'[d] = NoSession
                 \/ session'[d].id = sessions + 1 /\ otk'[d] # sessions + 1
                    /\ sessions' = sessions + 1
              /\ \/ otk'[d] = otk[d] \/ otk'[d] = 0
                 \/ otk'[d] = sessions + 1 /\ sessions' = sessions + 1
                    /\ session'[d] = session[d]
    PROVE  OlmInv'
<1>1. OlmTypes /\ KeysFresh /\ WireBehind /\ OlmNotReused
  BY DEF OlmInv
<1>2. OlmTypes' /\ OlmNotReused' /\ JobFits'
  BY <1>1 DEF OlmTypes, OlmNotReused, JobFits
<1>3. NoSession.id = 0
  BY DEF NoSession
<1>4. ASSUME NEW d \in Device
      PROVE  /\ session[d].id \in Nat /\ otk[d] \in Nat /\ sessions \in Nat
             /\ session'[d].id \in Nat /\ otk'[d] \in Nat /\ session[d].n \in Nat
             /\ session'[d].n \in Nat /\ IdsFresh(session[d], otk[d])
  BY <1>1 DEF OlmTypes, OlmSession, KeysFresh
<1>5. KeysFresh'
  <2> SUFFICES ASSUME NEW d \in Device PROVE IdsFresh(session[d], otk[d])'
    BY DEF KeysFresh
  <2> QED
    BY <1>3, <1>4 DEF IdsFresh
<1>6. WireBehind'
  <2> SUFFICES ASSUME NEW m \in DOMAIN wire, NEW d \in DOMAIN wire[m].body
               PROVE  IsBehind(wire[m].body[d], session[d], otk[d])'
    BY DEF WireBehind
  <2> DEFINE b == wire[m].body[d]
  <2>1. d \in Device /\ b \in Nat \X Nat /\ IsBehind(b, session[d], otk[d])
    BY <1>1 DEF OlmTypes, WireBehind
  <2>2. b[1] \in Nat /\ b[2] \in Nat /\ b[1] # 0 /\ b[1] <= sessions /\ b[1] # otk[d]
        /\ (b[1] = session[d].id => b[2] < session[d].n)
    BY <2>1 DEF IsBehind
  <2>3. wire'[m].body[d] = b
    OBVIOUS
  <2> HIDE DEF b
  <2>4. b[1] <= sessions' /\ b[1] # otk'[d]
    BY <1>4, <2>1, <2>2
  <2>5. b[1] = session'[d].id => b[2] < session'[d].n
    BY <1>3, <1>4, <2>1, <2>2
  <2> QED
    BY <2>2, <2>3, <2>4, <2>5 DEF IsBehind
<1> QED
  BY <1>1, <1>2, <1>5, <1>6 DEF OlmInv

\* emit_group: the sessions of some devices of the send are saved, and at most
\* these get a message of the step before.
LEMMA EmitKeeps ==
    ASSUME OlmInv, Emitting, NEW c \in SUBSET DOMAIN job.sealed, SessionsSaved(c),
           UNCHANGED <<known, sessions>>,
           \/ UNCHANGED wire /\ next' = next
           \/ wire' = OnWire(c) /\ next' = next + 1,
           \/ job' = None
           \/ /\ stage' = "send" /\ DOMAIN job' = {"item", "what", "sealed", "out"}
              /\ \E x : c \subseteq x /\ job'.sealed = Without(job.sealed, x)
    PROVE  OlmInv'
<1>1. OlmTypes /\ KeysFresh /\ WireBehind /\ OlmNotReused /\ SealedNow(job.sealed)
      /\ DOMAIN job.sealed \subseteq Device
  BY DEF OlmInv, OlmTypes, JobFits, Emitting, SealedNow, Ready
<1>2. ASSUME NEW d \in c
      PROVE  /\ d \in Device /\ job.sealed[d] = SealedFor(d) /\ otk'[d] = 0
             /\ session'[d] = [SealedFor(d) EXCEPT !.n = @ + 1]
             /\ SealedFor(d) \in OlmSession
             /\ SealedFor(d).id # 0 /\ SealedFor(d).id <= sessions
             /\ SealedFor(d) = session[d] \/ (SealedFor(d).id = otk[d] /\ otk[d] # 0)
  <2>1. d \in Ready /\ job.sealed[d] = SealedFor(d)
    BY <1>1 DEF SealedNow
  <2>2. d \in Device
    BY <1>1, <2>1 DEF Ready, OlmTypes
  <2>3. session'[d] = [job.sealed[d] EXCEPT !.n = @ + 1] /\ otk'[d] = 0
    BY <2>2 DEF SessionsSaved
  <2> QED
    BY <1>1, <2>1, <2>2, <2>3, SealedFits
\* The same, of the numbers alone.
<1>3. \A d \in c :
         /\ d \in Device /\ job.sealed[d] = SealedFor(d) /\ otk'[d] = 0
         /\ SealedFor(d).id # 0 /\ SealedFor(d).id <= sessions
         /\ SealedFor(d) = session[d] \/ (SealedFor(d).id = otk[d] /\ otk[d] # 0)
         /\ session'[d] \in OlmSession /\ session'[d].id = SealedFor(d).id
         /\ session'[d].n = SealedFor(d).n + 1
         /\ SealedFor(d).id \in Nat /\ SealedFor(d).n \in Nat
  <2> SUFFICES ASSUME NEW d \in c
               PROVE  /\ session'[d] \in OlmSession /\ session'[d].id = SealedFor(d).id
                      /\ session'[d].n = SealedFor(d).n + 1
                      /\ SealedFor(d).id \in Nat /\ SealedFor(d).n \in Nat
    BY <1>2
  <2> DEFINE s == SealedFor(d)
  <2>1. s \in OlmSession /\ session'[d] = [s EXCEPT !.n = @ + 1]
    BY <1>2
  <2> HIDE DEF s
  <2>2. [s EXCEPT !.n = @ + 1] \in OlmSession /\ [s EXCEPT !.n = @ + 1].id = s.id
        /\ [s EXCEPT !.n = @ + 1].n = s.n + 1 /\ s.id \in Nat /\ s.n \in Nat
    BY <2>1 DEF OlmSession
  <2> QED
    BY <2>1, <2>2 DEF s
<1>4. \A d \in Device \ c : session'[d] = session[d] /\ otk'[d] = otk[d]
  BY DEF SessionsSaved
<1>5. session' \in [Device -> OlmSession] /\ otk' \in [Device -> Nat]
  <2>1. \A d \in Device : session'[d] \in OlmSession /\ otk'[d] \in Nat
    BY <1>1, <1>3, <1>4 DEF OlmTypes
  <2>2. session' = [d \in Device |-> session'[d]] /\ otk' = [d \in Device |-> otk'[d]]
    BY DEF SessionsSaved
  <2> QED
    BY <2>1, <2>2
<1>6. KeysFresh'
  <2> SUFFICES ASSUME NEW d \in Device PROVE IdsFresh(session[d], otk[d])'
    BY DEF KeysFresh
  <2>1. CASE d \in c
    BY <1>1, <1>3, <2>1 DEF IdsFresh, OlmTypes
  <2>2. CASE d \notin c
    BY <1>1, <1>4, <2>2 DEF IdsFresh, KeysFresh
  <2> QED
    BY <2>1, <2>2
\* The messages that were there, against the new sessions.
<1>7. ASSUME NEW m \in DOMAIN wire, NEW d \in DOMAIN wire[m].body
      PROVE  /\ IsBehind(wire[m].body[d], session'[d], otk'[d])
             /\ d \in c => wire[m].body[d] # <<SealedFor(d).id, SealedFor(d).n>>
  <2> DEFINE b == wire[m].body[d]
  <2>1. d \in Device /\ b \in Nat \X Nat /\ IsBehind(b, session[d], otk[d])
    BY <1>1 DEF OlmTypes, WireBehind
  <2>2. b[1] \in Nat /\ b[2] \in Nat /\ b[1] # 0 /\ b[1] <= sessions /\ b[1] # otk[d]
        /\ (b[1] = session[d].id => b[2] < session[d].n)
    BY <2>1 DEF IsBehind
  <2> HIDE DEF b
  <2>3. CASE d \in c
    <3>1. b[1] = SealedFor(d).id => b[2] < SealedFor(d).n
      BY <1>3, <2>2, <2>3
    <3>2. b[1] = session'[d].id => b[2] < session'[d].n
      BY <1>3, <2>2, <2>3, <3>1
    <3>3. b # <<SealedFor(d).id, SealedFor(d).n>>
      BY <1>3, <2>3, <3>1
    <3> QED
      BY <1>3, <2>2, <2>3, <3>2, <3>3 DEF IsBehind, b
  <2>4. CASE d \notin c
    BY <1>4, <2>1, <2>4 DEF b
  <2> QED
    BY <2>3, <2>4
<1>8. JobFits'
  <2> SUFFICES ASSUME job' # None,
                      NEW x, c \subseteq x, job'.sealed = Without(job.sealed, x)
               PROVE  SealedNow(job.sealed)'
    BY DEF JobFits
  <2>1. DOMAIN job'.sealed = DOMAIN job.sealed \ x
        /\ \A d \in DOMAIN job'.sealed : job'.sealed[d] = job.sealed[d]
    BY DEF Without
  <2>2. ASSUME NEW d \in DOMAIN job'.sealed
        PROVE  d \in Ready' /\ job'.sealed[d] = SealedFor(d)'
    <3>1. d \in Ready /\ d \in Device \ c /\ job.sealed[d] = SealedFor(d)
      BY <1>1, <2>1 DEF SealedNow
    <3> QED
      BY <1>4, <2>1, <3>1 DEF Ready, SealedFor
  <2> QED
    BY <2>2 DEF SealedNow
<1>9. CASE UNCHANGED wire /\ next' = next
  <2>1. OlmTypes' /\ OlmNotReused'
    BY <1>1, <1>5, <1>9 DEF OlmTypes, OlmNotReused
  <2>2. WireBehind'
    BY <1>7, <1>9 DEF WireBehind, IsBehind
  <2> QED
    BY <1>6, <1>8, <2>1, <2>2 DEF OlmInv
<1>10. CASE wire' = OnWire(c) /\ next' = next + 1
  <2> DEFINE body == [d \in c |-> <<job.sealed[d].id, job.sealed[d].n>>]
  <2>1. /\ DOMAIN wire' = DOMAIN wire \cup {next} /\ next \notin DOMAIN wire /\ next \in Nat
        /\ wire'[next].body = body /\ \A m \in DOMAIN wire : wire'[m] = wire[m]
    <3>1. next \notin DOMAIN wire /\ next \in Nat
      BY <1>1 DEF OlmTypes
    <3> QED
      BY <1>10, <3>1 DEF OnWire, Put
  <2>2. DOMAIN body = c /\ \A d \in c : body[d] = <<SealedFor(d).id, SealedFor(d).n>>
    BY <1>3
  <2> HIDE DEF body
  <2>3. OlmTypes'
    <3>1. ASSUME NEW d \in c PROVE body[d] \in Nat \X Nat /\ d \in Device
      <4>1. SealedFor(d).id \in Nat /\ SealedFor(d).n \in Nat /\ d \in Device
        BY <1>3
      <4>2. body[d] = <<SealedFor(d).id, SealedFor(d).n>>
        BY <2>2
      <4>3. \A a, b \in Nat : <<a, b>> \in Nat \X Nat
        OBVIOUS
      <4> QED
        BY <4>1, <4>2, <4>3
    <3>2. \A m \in DOMAIN wire' : m \in Nat /\ m < next' /\ DOMAIN wire'[m].body \subseteq Device
      BY <1>1, <1>10, <2>1, <2>2, <3>1 DEF OlmTypes
    <3>3. \A m \in DOMAIN wire' : \A d \in DOMAIN wire'[m].body : wire'[m].body[d] \in Nat \X Nat
      BY <1>1, <2>1, <2>2, <3>1 DEF OlmTypes
    <3> QED
      BY <1>1, <1>5, <1>10, <3>2, <3>3 DEF OlmTypes
  <2>4. WireBehind'
    <3> SUFFICES ASSUME NEW m \in DOMAIN wire', NEW d \in DOMAIN wire'[m].body
                 PROVE  IsBehind(wire[m].body[d], session[d], otk[d])'
      BY DEF WireBehind
    <3>1. CASE m \in DOMAIN wire
      BY <1>7, <2>1, <3>1 DEF IsBehind
    <3>2. CASE m = next
      <4>1. d \in c /\ wire'[m].body[d] = <<SealedFor(d).id, SealedFor(d).n>>
        BY <2>1, <2>2, <3>2
      <4> QED
        BY <1>3, <4>1 DEF IsBehind
    <3> QED
      BY <2>1, <3>1, <3>2
  <2>5. OlmNotReused'
    <3>1. ASSUME NEW m \in DOMAIN wire, NEW d \in DOMAIN wire[m].body \cap c
          PROVE  wire[m].body[d] # body[d]
      BY <1>7, <2>2
    <3>2. ASSUME NEW m \in DOMAIN wire', NEW z \in DOMAIN wire', m # z,
                 NEW d \in DOMAIN wire'[m].body \cap DOMAIN wire'[z].body
          PROVE  wire'[m].body[d] # wire'[z].body[d]
      <4>1. CASE m \in DOMAIN wire /\ z \in DOMAIN wire
        BY <1>1, <2>1, <3>2, <4>1 DEF OlmNotReused
      <4>2. CASE m = next /\ z \in DOMAIN wire
        BY <2>1, <2>2, <3>1, <3>2, <4>2
      <4>3. CASE m \in DOMAIN wire /\ z = next
        BY <2>1, <2>2, <3>1, <3>2, <4>3
      <4> QED
        BY <2>1, <3>2, <4>1, <4>2, <4>3
    <3> QED
      BY <3>2 DEF OlmNotReused
  <2> QED
    BY <1>6, <1>8, <2>3, <2>4, <2>5 DEF OlmInv
<1> QED
  BY <1>9, <1>10

\* NoteDrops and DeliverFails touch no session.
LEMMA RequestEnds ==
    ASSUME NEW c, NEW why, NEW ok, RequestFails(c, why, ok), Emitting, JobFits
    PROVE  \/ job' = None
           \/ /\ stage' = "send" /\ DOMAIN job' = {"item", "what", "sealed", "out"}
              /\ job'.sealed = Without(job.sealed, c)
<1>1. stage = "send" /\ DOMAIN job = {"item", "what", "sealed", "out"}
  BY DEF Emitting, JobFits
<1>2. CASE job.out = {}
  BY <1>2 DEF RequestFails, DeliverFails
<1>3. CASE job.out # {}
  <2>1. job' = [job EXCEPT !.sealed = Without(@, c)] /\ stage' = stage
    BY <1>3 DEF RequestFails
  <2> QED
    BY <1>1, <2>1
<1> QED
  BY <1>2, <1>3

LEMMA EmitStepKeeps ==
    ASSUME OlmInv, EmitStep
    PROVE  OlmInv'
<1>1. Emitting /\ JobFits /\ stage = "send" /\ DOMAIN job = {"item", "what", "sealed", "out"}
  BY DEF EmitStep, EmitAccepted, EmitRefused, EmitLost, EmitUnsaved, TooLarge, Emitting, OlmInv,
         JobFits
<1>2. Chunks \subseteq SUBSET DOMAIN job.sealed
  BY DEF Chunks, Group
<1>3. UNCHANGED <<known, sessions>>
  BY DEF EmitStep, EmitAccepted, EmitRefused, EmitLost, EmitUnsaved, TooLarge, unsent
<1>4. CASE EmitAccepted
  <2>1. PICK c \in Chunks, named \in BOOLEAN :
            /\ SessionsSaved(c) /\ wire' = OnWire(c)
            /\ job' = [job EXCEPT !.sealed = Without(@, c),
                                  !.out = @ \cup {[id |-> next, named |-> named, dids |-> c]}]
    BY <1>4 DEF EmitAccepted
  <2>2. next' = next + 1 /\ stage' = stage
    BY <1>4 DEF EmitAccepted
  <2>3. job'.sealed = Without(job.sealed, c) /\ DOMAIN job' = {"item", "what", "sealed", "out"}
    BY <1>1, <2>1
  <2>4. c \in SUBSET DOMAIN job.sealed /\ c \subseteq c
    BY <1>2, <2>1
  <2> QED
    BY <1>1, <1>3, <2>1, <2>2, <2>3, <2>4, EmitKeeps
<1>5. CASE EmitRefused
  <2>1. PICK c \in Chunks, why \in {"busy", "refused"}, ok \in BOOLEAN :
            SessionsSaved(c) /\ RequestFails(c, why, ok)
    BY <1>5 DEF EmitRefused
  <2>2. UNCHANGED <<wire, next>>
    BY <1>5 DEF EmitRefused
  <2>3. c \in SUBSET DOMAIN job.sealed /\ c \subseteq c
    BY <1>2, <2>1
  <2>4. \/ job' = None
        \/ /\ stage' = "send" /\ DOMAIN job' = {"item", "what", "sealed", "out"}
           /\ job'.sealed = Without(job.sealed, c)
    BY <1>1, <2>1, RequestEnds
  <2> QED
    BY <1>1, <1>3, <2>1, <2>2, <2>3, <2>4, EmitKeeps
<1>6. CASE EmitLost
  <2>1. PICK c \in Chunks, taken \in BOOLEAN, ok \in BOOLEAN :
            /\ SessionsSaved(c) /\ RequestFails(c, "lost", ok)
            /\ wire' = IF taken THEN OnWire(c) ELSE wire
            /\ next' = IF taken THEN next + 1 ELSE next
    BY <1>6 DEF EmitLost
  <2>2. \/ UNCHANGED wire /\ next' = next
        \/ wire' = OnWire(c) /\ next' = next + 1
    BY <2>1
  <2>3. c \in SUBSET DOMAIN job.sealed /\ c \subseteq c
    BY <1>2, <2>1
  <2>4. \/ job' = None
        \/ /\ stage' = "send" /\ DOMAIN job' = {"item", "what", "sealed", "out"}
           /\ job'.sealed = Without(job.sealed, c)
    BY <1>1, <2>1, RequestEnds
  <2> QED
    BY <1>1, <1>3, <2>1, <2>2, <2>3, <2>4, EmitKeeps
<1>7. CASE EmitUnsaved
  <2>1. PICK c \in Chunks, ok \in BOOLEAN, saves \in SUBSET DOMAIN job.sealed :
            saves \subseteq c /\ SessionsSaved(saves) /\ RequestFails(c, "store", ok)
    BY <1>2, <1>7 DEF EmitUnsaved
  <2>2. UNCHANGED <<wire, next>>
    BY <1>7 DEF EmitUnsaved
  <2>3. \/ job' = None
        \/ /\ stage' = "send" /\ DOMAIN job' = {"item", "what", "sealed", "out"}
           /\ job'.sealed = Without(job.sealed, c)
    BY <1>1, <2>1, RequestEnds
  <2> QED
    BY <1>1, <1>3, <2>1, <2>2, <2>3, EmitKeeps
<1>8. CASE TooLarge
  <2>1. UNCHANGED <<session, otk, known, wire, next>> /\ job' = None
    BY <1>8 DEF TooLarge, DeliverFails, unsent
  <2>2. next \in Nat
    BY DEF OlmInv, OlmTypes
  <2> QED
    BY <1>3, <2>1, <2>2, QuietKeeps
<1> QED
  BY <1>4, <1>5, <1>6, <1>7, <1>8 DEF EmitStep

\* A new send takes copies of what the store holds.
LEMMA JobIsNow ==
    ASSUME NEW item, NEW what, NEW ds \in SUBSET Ready
    PROVE  /\ DOMAIN Job(item, what, ds) = {"item", "what", "sealed", "out"}
           /\ SealedNow(Job(item, what, ds).sealed)
<1>1. DOMAIN Job(item, what, ds) = {"item", "what", "sealed", "out"}
      /\ Job(item, what, ds).sealed = Seal(ds)
  BY DEF Job
<1>2. SealedNow(Seal(ds))
  BY DEF Seal, SealedNow, SealedFor
<1> QED
  BY <1>1, <1>2

\* The other steps of the worker.
LEMMA WorkerKeeps ==
    ASSUME OlmInv,
           Deliver \/ Settle \/ FlushItem \/ FlushEnd \/ RequestKeys \/ TickEngines \/ Tick
    PROVE  OlmInv'
<1>1. UNCHANGED <<session, otk, known, sessions, wire, next>> /\ next \in Nat /\ JobFits
  BY DEF OlmInv, OlmTypes, Deliver, Settle, FlushItem, FlushEnd, RequestKeys, TickEngines, Tick,
         engine, disk, worker, ghost, limits
<1>2. job' # None => /\ stage' = "send" /\ DOMAIN job' = {"item", "what", "sealed", "out"}
                     /\ SealedNow(job'.sealed)
  <2>1. CASE Deliver
    BY <2>1 DEF Deliver
  <2>2. CASE Settle \/ FlushEnd \/ RequestKeys \/ TickEngines
    <3>1. stage # "send" /\ job' = job
      BY <2>2 DEF Settle, FlushEnd, RequestKeys, TickEngines
    <3> QED
      BY <1>1, <3>1 DEF JobFits
  <2>3. CASE FlushItem
    <3>1. stage # "send"
      BY <2>3 DEF FlushItem
    <3>2. CASE job' = job
      BY <1>1, <3>1, <3>2 DEF JobFits
    <3>3. CASE job' # job
      <4>1. PICK item, p : job' = Job(item, p, Entries(p)) /\ stage' = "send"
        BY <2>3, <3>3 DEF FlushItem
      <4>2. Entries(p) \in SUBSET Ready
        BY DEF Entries
      <4> QED
        BY <4>1, <4>2, JobIsNow
    <3> QED
      BY <3>2, <3>3
  <2>4. CASE Tick
    <3>1. stage' = stage /\ (job = None => job' = None)
          /\ (job # None => job' = job \/ job' = [job EXCEPT !.item.left = Sooner(@)])
      BY <2>4 DEF Tick
    <3>2. ASSUME job # None
          PROVE  DOMAIN job' = DOMAIN job /\ job'.sealed = job.sealed
      BY <1>1, <3>1, <3>2 DEF JobFits
    <3> QED
      BY <1>1, <3>1, <3>2 DEF JobFits
  <2> QED
    BY <2>1, <2>2, <2>3, <2>4
<1> QED
  BY <1>1, <1>2, QuietKeeps

\* What reaches the engine from outside, and a restart.
LEMMA EventKeeps ==
    ASSUME OlmInv, Event \/ Restart
    PROVE  OlmInv'
<1>1. /\ OlmTypes /\ KeysFresh /\ JobFits /\ next \in Nat /\ known \subseteq Device
      /\ session \in [Device -> OlmSession] /\ otk \in [Device -> Nat] /\ sessions \in Nat
      /\ \A d \in Device : /\ session[d].id \in Nat /\ session[d].id <= sessions
                           /\ otk[d] <= sessions /\ (session[d] # NoSession => session[d].id # 0)
  BY DEF OlmInv, OlmTypes, KeysFresh, IdsFresh, OlmSession
<1>2. NoSession \in OlmSession /\ NoSession.id = 0
  BY DEF NoSession, OlmSession
<1>3. stage = "idle" => job = None
  BY <1>1 DEF JobFits
<1>4. CASE \E t \in Text : SendOrQueue(t)
  <2>1. PICK t \in Text : SendOrQueue(t)
    BY <1>4
  <2>2. UNCHANGED <<session, otk, known, sessions, wire>> /\ stage = "idle"
    BY <2>1 DEF SendOrQueue
  <2>3. next' \in Nat /\ next <= next'
    <3>1. next' = next \/ next' = next + 1
      BY <2>1 DEF SendOrQueue, QueueText
    <3> QED
      BY <1>1, <3>1
  <2>4. \/ job' = job
        \/ job' = Job(None, Waiting(t, 1, None), Ready) /\ stage' = "send"
    BY <2>1 DEF SendOrQueue
  <2>5. Ready \in SUBSET Ready
    OBVIOUS
  <2> QED
    BY <1>3, <2>2, <2>3, <2>4, <2>5, JobIsNow, QuietKeeps
<1>5. CASE \E d \in Device : KeysRow(d)
  <2>1. PICK d \in Device : KeysRow(d)
    BY <1>5
  <2>2. /\ stage = "idle" /\ sessions' = sessions + 1 /\ UNCHANGED <<session, wire, next, job>>
        /\ otk' = [otk EXCEPT ![d] = sessions + 1] /\ known' = known \cup {d}
    BY <2>1 DEF KeysRow, disk, ghost
  <2>3. otk' \in [Device -> Nat] /\ \A e \in Device : otk'[e] = IF e = d THEN sessions + 1 ELSE otk[e]
    BY <1>1, <2>2
  <2>4. sessions' \in Nat /\ sessions <= sessions'
    BY <1>1, <2>2
  <2> QED
    BY <1>1, <1>3, <2>2, <2>3, <2>4, OutsideKeeps
<1>6. CASE \E d \in Device : PeerMessage(d)
  <2>1. PICK d \in Device : PeerMessage(d)
    BY <1>6
  <2>2. stage = "idle" /\ UNCHANGED <<otk, wire, next, job>> /\ known' \subseteq Device
    BY <1>1, <2>1 DEF PeerMessage, ghost
  <2>3. CASE session[d] # NoSession /\ session' = [session EXCEPT ![d].received = TRUE]
             /\ UNCHANGED sessions
    <3> DEFINE s == [session[d] EXCEPT !.received = TRUE]
    <3>1. s \in OlmSession /\ s.id = session[d].id /\ s.n = session[d].n
      <4>1. session[d] \in OlmSession
        BY <1>1
      <4> QED
        BY <4>1 DEF OlmSession
    <3>2. session' = [session EXCEPT ![d] = s]
      BY <2>3
    <3> HIDE DEF s
    <3>3. session' \in [Device -> OlmSession]
          /\ \A e \in Device : session'[e] = IF e = d THEN s ELSE session[e]
      BY <1>1, <3>1, <3>2
    <3>4. \A e \in Device : /\ session'[e].id = session[e].id /\ session'[e].n = session[e].n
                            /\ (session'[e] # NoSession => session'[e].id # 0)
      BY <1>1, <2>3, <3>1, <3>3
    <3> QED
      BY <1>1, <1>3, <2>2, <2>3, <3>3, <3>4, OutsideKeeps
  <2>4. CASE /\ sessions' = sessions + 1
             /\ session' = [session EXCEPT ![d] = [id |-> sessions + 1, n |-> 0, received |-> TRUE]]
    <3> DEFINE s == [id |-> sessions + 1, n |-> 0, received |-> TRUE]
    <3>1. s \in OlmSession /\ s.id = sessions + 1
      BY <1>1 DEF OlmSession
    <3>2. session' = [session EXCEPT ![d] = s]
      BY <2>4
    <3> HIDE DEF s
    <3>3. session' \in [Device -> OlmSession]
          /\ \A e \in Device : session'[e] = IF e = d THEN s ELSE session[e]
      BY <1>1, <3>1, <3>2
    <3>4. \A e \in Device : otk'[e] # sessions + 1
      BY <1>1, <2>2
    <3> QED
      BY <1>1, <1>3, <2>2, <2>4, <3>1, <3>3, <3>4, OutsideKeeps
  <2> QED
    BY <2>1, <2>3, <2>4 DEF PeerMessage
<1>7. CASE \E m \in DOMAIN wire, from \in Device \cup {Wildcard, Stranger} : OnNack(m, from)
  <2>1. PICK m \in DOMAIN wire, from \in Device \cup {Wildcard, Stranger} : OnNack(m, from)
    BY <1>7
  <2>2. stage = "idle" /\ UNCHANGED <<otk, known, wire, sessions, job>>
    BY <2>1 DEF OnNack, ghost
  <2>3. \/ UNCHANGED <<session, next>>
        \/ session' = [session EXCEPT ![from] = NoSession] /\ next' = next + 1
    BY <2>1 DEF OnNack, Requeue
  <2>4. CASE UNCHANGED <<session, next>>
    BY <1>1, <1>3, <2>2, <2>4, QuietKeeps
  <2>5. CASE session' = [session EXCEPT ![from] = NoSession] /\ next' = next + 1
    <3>1. session' \in [Device -> OlmSession]
          /\ \A e \in Device : session'[e] = NoSession \/ session'[e] = session[e]
      BY <1>1, <1>2, <2>5
    <3>2. next' \in Nat /\ next <= next' /\ sessions <= sessions
      BY <1>1, <2>5
    <3> QED
      BY <1>1, <1>3, <2>2, <3>1, <3>2, OutsideKeeps
  <2> QED
    BY <2>3, <2>4, <2>5
<1>8. CASE (\E k \in DOMAIN wire : SendDropped(k)) \/ NoSuchNick \/ EndSession
  <2>1. stage = "idle" /\ UNCHANGED <<session, otk, known, wire, sessions, next, job>>
    BY <1>8 DEF SendDropped, NoSuchNick, EndSession, ghost, worker
  <2> QED
    BY <1>1, <1>3, <2>1, QuietKeeps
<1>9. CASE Restart
  <2>1. /\ job' = None /\ UNCHANGED <<session, wire, sessions, next>>
        /\ otk' = [d \in Device |-> 0] /\ known' = {}
    BY <1>9 DEF Restart, disk
  <2>2. otk' \in [Device -> Nat] /\ \A d \in Device : otk'[d] = 0
    BY <2>1
  <2> QED
    BY <1>1, <2>1, <2>2, OutsideKeeps
<1> QED
  BY <1>4, <1>5, <1>6, <1>7, <1>8, <1>9 DEF Event

LEMMA OlmInit ==
    ASSUME Init
    PROVE  OlmInv
<1>1. /\ otk = [d \in Device |-> 0] /\ known = {} /\ session = [d \in Device |-> NoSession] /\ job = None
      /\ wire = << >> /\ next = 1 /\ sessions = 0
  BY DEF Init
<1>2. NoSession \in OlmSession /\ NoSession.id = 0
  BY DEF NoSession, OlmSession
<1>3. DOMAIN wire = {}
  BY <1>1
<1>4. \A d \in Device : session[d] = NoSession /\ otk[d] = 0
  BY <1>1
<1>5. OlmTypes
  BY <1>1, <1>2, <1>3 DEF OlmTypes
<1>6. KeysFresh
  BY <1>1, <1>2, <1>4 DEF KeysFresh, IdsFresh
<1> QED
  BY <1>1, <1>3, <1>5, <1>6 DEF OlmInv, WireBehind, JobFits, OlmNotReused

LEMMA OlmNext ==
    ASSUME OlmInv, [Next]_vars
    PROVE  OlmInv'
<1>1. CASE UNCHANGED vars
  <2>1. UNCHANGED <<session, otk, known, sessions, wire, next, job, stage>> /\ next \in Nat
    BY <1>1 DEF vars, engine, disk, worker, ghost, limits, OlmInv, OlmTypes
  <2> QED
    BY <2>1, QuietKeeps DEF OlmInv, JobFits
<1> QED
  BY <1>1, EmitStepKeeps, WorkerKeeps, EventKeeps DEF Next, WorkerStep

\* The relay never gets two messages of one step of one Olm session, and no
\* one-time key starts two sessions, whatever answers are lost, writes fail,
\* sessions are replaced or programs stop (seal, emit_group, on_nack).
THEOREM OlmStepsUsedOnce == Spec => []OlmNotReused
<1>1. OlmInv => OlmNotReused
  BY DEF OlmInv
<1> QED
  BY <1>1, OlmInit, OlmNext, PTL DEF Spec

-----------------------------------------------------------------------------
(* The queue, the book and the rows: the inductive invariant. *)

\* The types, in parts.
ListTypes ==
    /\ queue \in Seq(Item) /\ flush \in [taken : Seq(Item), retry : Seq(Item)]
    /\ DOMAIN pending \subseteq SendKey
    /\ \A k \in DOMAIN pending : pending[k] \in PendingText

BookTypes ==
    /\ DOMAIN book \subseteq SendKey
    /\ \A k \in DOMAIN book :
          book[k] \in [row : Text, status : {"pending", "accepted", "dropped"}]
    /\ marks \subseteq Text /\ saved \subseteq Text

SentRecord == [text : Text, sends : 1 .. MaxSends, left : Nat, dids : SUBSET Device]
SentTypes ==
    /\ DOMAIN sent \subseteq DOMAIN wire
    /\ \A m \in DOMAIN sent : sent[m] \in SentRecord

GhostTypes ==
    /\ rows \subseteq Text /\ typed \subseteq Text /\ lost \subseteq Text
    /\ copied \in [Text -> Nat]
    /\ \A m \in DOMAIN wire : wire[m].text \in Text
    /\ sessions <= MaxSessions
    /\ wanted \in BOOLEAN /\ keyreq \in Nat /\ rekey \in Nat

JobTypes ==
    /\ stage \in {"idle", "settle", "flush", "send", "keys"}
    /\ stage = "send" <=> job # None
    /\ job \in SendJob \cup {None}

\* No key is twice in a list, and none is in two of them.
Distinct(items) == \A i, j \in DOMAIN items : items[i].key = items[j].key => i = j
Slots ==
    /\ Distinct(queue) /\ Distinct(flush.taken) /\ Distinct(flush.retry)
    /\ Keys(queue) \cap Keys(flush.taken) = {} /\ Keys(queue) \cap Keys(flush.retry) = {}
    /\ Keys(flush.taken) \cap Keys(flush.retry) = {}
    /\ DOMAIN pending = Keys(queue) \cup Keys(flush.taken) \cup Keys(flush.retry)

\* flush_queue holds items only while it runs.
FlushIdle ==
    stage \in {"idle", "settle", "keys"} \/ (job # None /\ job.item = None) => flush = NoFlush

\* A waiting send is pending in the book, with its row, and no msgid is its key.
Backed(k, t) ==
    /\ k \in DOMAIN book /\ book[k] = [row |-> t, status |-> "pending"]
    /\ k \notin DOMAIN wire /\ k < next

BookInv ==
    /\ \A k \in DOMAIN pending : Backed(k, pending[k].text)
    /\ job # None /\ job.item # None =>
          job.item.key \notin DOMAIN pending /\ Backed(job.item.key, job.what.text)

\* What a send noted of its requests, and a send without a device left went out.
OutInv ==
    job # None =>
       /\ \A o \in job.out : o.id \in DOMAIN wire /\ wire[o.id].text = job.what.text
       /\ DOMAIN job.sealed = {} => job.out # {}

QueueInv ==
    /\ ListTypes /\ BookTypes /\ SentTypes /\ GhostTypes /\ JobTypes
    /\ Slots /\ FlushIdle /\ BookInv /\ OutInv /\ UnsentIsShown

-----------------------------------------------------------------------------
(* How often a device gets a text: the inductive invariant. *)

\* The messages of a text that reached the relay for a device.
Got(t, d) == {m \in DOMAIN wire : wire[m].text = t /\ d \in DOMAIN wire[m].body}
Times(t, d) == Cardinality(Got(t, d))

\* The devices that a waiting text may go to.
Reach(p) == IF p.did = None THEN Device ELSE {p.did}

\* Two sends of one text are re-sends to two devices.
Apart(p, q) == p.text = q.text => p.did # None /\ q.did # None /\ p.did # q.did
\* A re-send goes to a device that may not ask for another one.
ApartFrom(p, r) == p.text = r.text => p.did # None /\ p.did \notin r.dids

TextsTyped ==
    /\ \A k \in DOMAIN pending : pending[k].text \in typed
    /\ \A m \in DOMAIN sent : sent[m].text \in typed
    /\ \A m \in DOMAIN wire : wire[m].text \in typed
    /\ job # None => job.what.text \in typed
    /\ \A t \in Text \ typed : copied[t] = 0

\* Only a first send has no device of its own.
IsFirst(p) == p.did = None <=> p.sends = 1
FirstsKnown ==
    /\ \A k \in DOMAIN pending : IsFirst(pending[k])
    /\ job # None => IsFirst(job.what)

WaitsApart ==
    /\ \A k, l \in DOMAIN pending : k # l => Apart(pending[k], pending[l])
    /\ \A k \in DOMAIN pending, m \in DOMAIN sent : ApartFrom(pending[k], sent[m])
    /\ \A m, x \in DOMAIN sent : m # x /\ sent[m].text = sent[x].text =>
          sent[m].dids \cap sent[x].dids = {}

JobApart ==
    job # None =>
       /\ \A k \in DOMAIN pending : Apart(pending[k], job.what)
       /\ \A m \in DOMAIN sent : ApartFrom(job.what, sent[m])
       /\ DOMAIN job.sealed \subseteq Reach(job.what)
       /\ \A o \in job.out : o.dids \subseteq Reach(job.what) /\ o.dids \cap DOMAIN job.sealed = {}
       /\ \A o, x \in job.out : o # x => o.dids \cap x.dids = {}

\* A send that waits may go out once more, and one that a NACK may bring back not.
TimesFit ==
    /\ \A t \in Text, d \in Device : Times(t, d) <= MaxSends
    /\ \A k \in DOMAIN pending : \A d \in Reach(pending[k]) :
          Times(pending[k].text, d) < pending[k].sends
    /\ \A m \in DOMAIN sent : \A d \in sent[m].dids : Times(sent[m].text, d) <= sent[m].sends
    /\ job # None =>
          /\ \A d \in DOMAIN job.sealed : Times(job.what.text, d) < job.what.sends
          /\ job.out = {} => \A d \in Reach(job.what) : Times(job.what.text, d) < job.what.sends
          /\ \A o \in job.out : \A d \in o.dids : Times(job.what.text, d) <= job.what.sends

\* A text whose first send is still open has no copies.
CopyInv ==
    /\ CopiedOnce
    /\ \A k \in DOMAIN pending : pending[k].did = None => copied[pending[k].text] = 0
    /\ job # None /\ job.what.did = None => copied[job.what.text] = 0

TimesInv ==
    TextsTyped /\ FirstsKnown /\ WaitsApart /\ JobApart /\ TimesFit /\ CopyInv
-----------------------------------------------------------------------------
(* Lists of items and their keys. *)

\* r has the items of s at the places at, each of them once.
Picks(r, s, at) ==
    \E f \in [DOMAIN r -> at] :
       /\ \A i \in DOMAIN r : r[i] = s[f[i]]
       /\ \A i, j \in DOMAIN r : f[i] = f[j] => i = j
       /\ \A p \in at : \E i \in DOMAIN r : f[i] = p

LEMMA RetainedPlaces ==
    ASSUME NEW T, NEW s \in Seq(T), NEW at \in SUBSET DOMAIN s
    PROVE  Retained(s, at) \in Seq(T) /\ Picks(Retained(s, at), s, at)
<1> DEFINE Below(p) == {q \in at : q <= p}
           n == Cardinality(at)
           rank == [p \in at |-> Cardinality(Below(p))]
           place(i) == CHOOSE p \in at : Cardinality(Below(p)) = i
           f == [i \in 1 .. n |-> place(i)]
<1>1. at \subseteq 1 .. Len(s) /\ Len(s) \in Nat
  OBVIOUS
<1>2. IsFiniteSet(at) /\ n \in Nat
  <2>1. IsFiniteSet(1 .. Len(s))
    BY <1>1, FS_Interval
  <2> QED
    BY <1>1, <2>1, FS_Subset, FS_CardinalityType
<1>3. ASSUME NEW p \in at
      PROVE  /\ IsFiniteSet(Below(p)) /\ Cardinality(Below(p)) \in 1 .. n
  <2>1. Below(p) \in SUBSET at /\ p \in Below(p)
    BY <1>1
  <2>2. IsFiniteSet(Below(p)) /\ Cardinality(Below(p)) <= n
    BY <1>2, <2>1, FS_Subset
  <2>3. Cardinality(Below(p)) \in Nat /\ Cardinality(Below(p)) # 0
    BY <2>1, <2>2, FS_CardinalityType, FS_EmptySet
  <2> QED
    BY <1>2, <2>2, <2>3
<1>4. ASSUME NEW p \in at, NEW q \in at, p < q
      PROVE  Cardinality(Below(p)) # Cardinality(Below(q))
  <2>1. Below(p) \in SUBSET Below(q) /\ q \in Below(q) /\ q \notin Below(p)
    BY <1>1, <1>4
  <2> QED
    BY <1>3, <2>1, FS_Subset
<1>5. rank \in Injection(at, 1 .. n)
  <2>1. rank \in [at -> 1 .. n]
    BY <1>3
  <2>2. \A p, q \in at : rank[p] = rank[q] => p = q
    <3>1. \A p, q \in at : p = q \/ p < q \/ q < p
      BY <1>1
    <3> QED
      BY <1>4, <3>1
  <2> QED
    BY <2>1, <2>2 DEF Injection, IsInjective
<1>6. \A i \in 1 .. n : \E p \in at : Cardinality(Below(p)) = i
  <2>1. IsFiniteSet(1 .. n) /\ Cardinality(1 .. n) = n
    BY <1>2, FS_Interval
  <2>2. rank \in Surjection(at, 1 .. n)
    BY <1>2, <1>5, <2>1, FS_Injection
  <2> QED
    BY <2>2 DEF Surjection
<1>7. \A i \in 1 .. n : place(i) \in at /\ Cardinality(Below(place(i))) = i
  BY <1>6
<1>8. \A p \in at : place(Cardinality(Below(p))) = p
  <2>1. \A p, q \in at : Cardinality(Below(p)) = Cardinality(Below(q)) => p = q
    <3>1. \A p, q \in at : p = q \/ p < q \/ q < p
      BY <1>1
    <3> QED
      BY <1>4, <3>1
  <2> QED
    BY <1>3, <1>7, <2>1
<1>9. Retained(s, at) = [i \in 1 .. n |-> s[place(i)]]
  BY DEF Retained
<1> HIDE DEF place, n, Below
<1>10. f \in [1 .. n -> at]
  BY <1>7
<1>11. \A i, j \in 1 .. n : f[i] = f[j] => i = j
  BY <1>7
<1>12. \A p \in at : \E i \in 1 .. n : f[i] = p
  BY <1>3, <1>8
<1>13. DOMAIN Retained(s, at) = 1 .. n /\ \A i \in 1 .. n : Retained(s, at)[i] = s[f[i]]
  BY <1>9
<1>14. Retained(s, at) \in Seq(T)
  <2>1. \A i \in 1 .. n : s[place(i)] \in T
    BY <1>1, <1>7
  <2> QED
    BY <1>2, <1>9, <2>1
<1> HIDE DEF f
<1>15. f \in [DOMAIN Retained(s, at) -> at]
  BY <1>10, <1>13
<1>16. /\ \A i \in DOMAIN Retained(s, at) : Retained(s, at)[i] = s[f[i]]
       /\ \A i, j \in DOMAIN Retained(s, at) : f[i] = f[j] => i = j
       /\ \A p \in at : \E i \in DOMAIN Retained(s, at) : f[i] = p
  BY <1>11, <1>12, <1>13
<1>17. Picks(Retained(s, at), s, at)
  BY <1>15, <1>16 DEF Picks
<1> QED
  BY <1>14, <1>17

\* So its keys are those of the places, none of them twice.
LEMMA RetainedKeys ==
    ASSUME NEW s \in Seq(Item), Distinct(s), NEW at \in SUBSET DOMAIN s
    PROVE  /\ Retained(s, at) \in Seq(Item) /\ Distinct(Retained(s, at))
           /\ Keys(Retained(s, at)) = {s[p].key : p \in at}
<1> DEFINE r == Retained(s, at)
<1>0. Picks(r, s, at)
  BY RetainedPlaces
<1>1. PICK f \in [DOMAIN r -> at] :
         /\ \A i \in DOMAIN r : r[i] = s[f[i]]
         /\ \A i, j \in DOMAIN r : f[i] = f[j] => i = j
         /\ \A p \in at : \E i \in DOMAIN r : f[i] = p
  BY <1>0 DEF Picks
<1>2. r \in Seq(Item)
  BY RetainedPlaces
<1> HIDE DEF r
<1>3. Distinct(r)
  BY <1>1 DEF Distinct
<1>4. Keys(r) = {s[p].key : p \in at}
  <2>1. \A k : k \in Keys(r) => k \in {s[p].key : p \in at}
    BY <1>1 DEF Keys
  <2>2. ASSUME NEW p \in at PROVE s[p].key \in Keys(r)
    BY <1>1 DEF Keys
  <2> QED
    BY <2>1, <2>2
<1> QED
  BY <1>2, <1>3, <1>4 DEF r

LEMMA AppendedKeys ==
    ASSUME NEW s \in Seq(Item), NEW x \in Item
    PROVE  /\ Append(s, x) \in Seq(Item) /\ Keys(Append(s, x)) = Keys(s) \cup {x.key}
           /\ Distinct(s) /\ x.key \notin Keys(s) => Distinct(Append(s, x))
<1>1. /\ Append(s, x) \in Seq(Item) /\ DOMAIN Append(s, x) = 1 .. Len(s) + 1
      /\ DOMAIN s = 1 .. Len(s) /\ Len(s) \in Nat
      /\ \A i \in 1 .. Len(s) : Append(s, x)[i] = s[i]
      /\ Append(s, x)[Len(s) + 1] = x
  OBVIOUS
<1> DEFINE r == Append(s, x)
<1>2. \A i \in DOMAIN r : i \in DOMAIN s \/ i = Len(s) + 1
  BY <1>1
<1>3. Keys(r) = Keys(s) \cup {x.key}
  BY <1>1, <1>2 DEF Keys
<1>4. ASSUME Distinct(s), x.key \notin Keys(s) PROVE Distinct(r)
  BY <1>1, <1>2, <1>4 DEF Distinct, Keys
<1> QED
  BY <1>1, <1>3, <1>4

LEMMA TailKeys ==
    ASSUME NEW s \in Seq(Item), s # << >>
    PROVE  /\ Tail(s) \in Seq(Item) /\ Head(s) \in Item
           /\ Keys(s) = Keys(Tail(s)) \cup {Head(s).key}
           /\ Distinct(s) => Distinct(Tail(s)) /\ Head(s).key \notin Keys(Tail(s))
<1>1. /\ Tail(s) \in Seq(Item) /\ DOMAIN Tail(s) = 1 .. Len(s) - 1 /\ Head(s) = s[1]
      /\ DOMAIN s = 1 .. Len(s) /\ Len(s) \in Nat /\ Len(s) # 0
      /\ \A i \in 1 .. Len(s) - 1 : Tail(s)[i] = s[i + 1]
  OBVIOUS
<1>2. Head(s) \in Item
  BY <1>1
<1>3. \A i \in DOMAIN s : i = 1 \/ (i - 1 \in DOMAIN Tail(s) /\ Tail(s)[i - 1] = s[i])
  BY <1>1
<1>4. \A i \in DOMAIN Tail(s) : i + 1 \in DOMAIN s /\ i + 1 # 1 /\ i \in Nat
  BY <1>1
<1>5. Keys(s) = Keys(Tail(s)) \cup {Head(s).key}
  <2>1. 1 \in DOMAIN s
    BY <1>1
  <2>2. \A i \in DOMAIN s : s[i].key = Head(s).key \/ s[i].key \in Keys(Tail(s))
    BY <1>1, <1>3 DEF Keys
  <2>3. \A i \in DOMAIN Tail(s) : Tail(s)[i].key \in Keys(s)
    BY <1>1, <1>4 DEF Keys
  <2>4. Head(s).key \in Keys(s)
    BY <1>1, <2>1 DEF Keys
  <2> QED
    BY <2>2, <2>3, <2>4 DEF Keys
<1>6. ASSUME Distinct(s) PROVE Distinct(Tail(s)) /\ Head(s).key \notin Keys(Tail(s))
  BY <1>1, <1>4, <1>6 DEF Distinct, Keys
<1> QED
  BY <1>1, <1>2, <1>5, <1>6

LEMMA JoinedKeys ==
    ASSUME NEW s \in Seq(Item), NEW r \in Seq(Item)
    PROVE  /\ s \o r \in Seq(Item) /\ Keys(s \o r) = Keys(s) \cup Keys(r)
           /\ Distinct(s) /\ Distinct(r) /\ Keys(s) \cap Keys(r) = {} => Distinct(s \o r)
<1> DEFINE j == s \o r
<1>1. /\ j \in Seq(Item) /\ DOMAIN j = 1 .. Len(s) + Len(r)
      /\ DOMAIN s = 1 .. Len(s) /\ DOMAIN r = 1 .. Len(r) /\ Len(s) \in Nat /\ Len(r) \in Nat
      /\ \A i \in 1 .. Len(s) : j[i] = s[i]
      /\ \A i \in 1 .. Len(r) : j[Len(s) + i] = r[i]
  OBVIOUS
<1>2. \A i \in DOMAIN j : \/ i \in DOMAIN s /\ j[i] = s[i]
                          \/ i - Len(s) \in DOMAIN r /\ j[i] = r[i - Len(s)] /\ i \in Int
  <2> SUFFICES ASSUME NEW i \in DOMAIN j, i \notin DOMAIN s
               PROVE  i - Len(s) \in DOMAIN r /\ j[i] = r[i - Len(s)] /\ i \in Int
    BY <1>1
  <2> DEFINE k == i - Len(s)
  <2>1. k \in 1 .. Len(r) /\ i = Len(s) + k /\ i \in Int
    BY <1>1
  <2> QED
    BY <1>1, <2>1
<1>3. \A i \in DOMAIN s : i \in DOMAIN j /\ j[i] = s[i]
  BY <1>1
<1>4. \A i \in DOMAIN r : Len(s) + i \in DOMAIN j /\ j[Len(s) + i] = r[i]
  BY <1>1
<1> HIDE DEF j
<1>5. Keys(j) = Keys(s) \cup Keys(r)
  BY <1>2, <1>3, <1>4 DEF Keys
<1>6. ASSUME Distinct(s), Distinct(r), Keys(s) \cap Keys(r) = {} PROVE Distinct(j)
  <2> SUFFICES ASSUME NEW a \in DOMAIN j, NEW b \in DOMAIN j, j[a].key = j[b].key PROVE a = b
    BY DEF Distinct
  <2>1. CASE a \in DOMAIN s /\ j[a] = s[a] /\ b \in DOMAIN s /\ j[b] = s[b]
    BY <1>6, <2>1 DEF Distinct
  <2>2. CASE a \in DOMAIN s /\ j[a] = s[a] /\ b - Len(s) \in DOMAIN r /\ j[b] = r[b - Len(s)]
    BY <1>6, <2>2 DEF Keys
  <2>3. CASE b \in DOMAIN s /\ j[b] = s[b] /\ a - Len(s) \in DOMAIN r /\ j[a] = r[a - Len(s)]
    BY <1>6, <2>3 DEF Keys
  <2>4. CASE /\ a - Len(s) \in DOMAIN r /\ j[a] = r[a - Len(s)] /\ a \in Int
             /\ b - Len(s) \in DOMAIN r /\ j[b] = r[b - Len(s)] /\ b \in Int
    <3>1. a - Len(s) = b - Len(s)
      BY <1>6, <2>4 DEF Distinct
    <3> QED
      BY <1>1, <2>4, <3>1
  <2> QED
    BY <1>2, <2>1, <2>2, <2>3, <2>4
<1> QED
  BY <1>1, <1>5, <1>6 DEF j

LEMMA AgedKeys ==
    ASSUME NEW s \in Seq(Item)
    PROVE  /\ Aged(s) \in Seq(Item) /\ Keys(Aged(s)) = Keys(s)
           /\ Distinct(s) => Distinct(Aged(s))
<1>1. ASSUME NEW x \in Item
      PROVE  /\ [x EXCEPT !.left = Sooner(@)] \in Item
             /\ [x EXCEPT !.left = Sooner(@)].key = x.key
  BY DEF Item, Sooner
<1>2. DOMAIN Aged(s) = DOMAIN s
      /\ \A i \in DOMAIN s : Aged(s)[i] \in Item /\ Aged(s)[i].key = s[i].key
  <2>1. DOMAIN Aged(s) = DOMAIN s /\ \A i \in DOMAIN s : s[i] \in Item
    BY DEF Aged
  <2>2. \A i \in DOMAIN s : Aged(s)[i] = [s[i] EXCEPT !.left = Sooner(@)]
    BY DEF Aged
  <2> QED
    BY <1>1, <2>1, <2>2
<1>3. Aged(s) \in Seq(Item)
  <2>1. \E n \in Nat : DOMAIN s = 1 .. n
    OBVIOUS
  <2>2. Aged(s) = [i \in DOMAIN s |-> Aged(s)[i]]
    BY DEF Aged
  <2> QED
    BY <1>2, <2>1, <2>2
<1> QED
  BY <1>2, <1>3 DEF Keys, Distinct

LEMMA NoKeys == << >> \in Seq(Item) /\ Keys(<< >>) = {} /\ Distinct(<< >>)
  BY DEF Keys, Distinct
-----------------------------------------------------------------------------
(* What the steps have in common. *)

\* note_drops.
LEMMA DropsNoted ==
    ASSUME BookTypes, NEW ks, NEW ok \in BOOLEAN, NoteDrops(ks, ok)
    PROVE  /\ BookTypes' /\ DOMAIN book' = DOMAIN book /\ marks \subseteq marks'
           /\ \A k \in DOMAIN book : k \notin ks => book'[k] = book[k]
           /\ \A k \in DOMAIN book : k \in ks /\ book[k].status = "pending" => book[k].row \in marks'
<1> DEFINE dropped == {book[k].row : k \in Open(ks)}
<1>1. /\ book' = [k \in DOMAIN book |->
                     IF k \in Open(ks) THEN [book[k] EXCEPT !.status = "dropped"] ELSE book[k]]
      /\ marks' = marks \cup dropped /\ saved' \subseteq saved \cup dropped
  BY DEF NoteDrops
<1>2. Open(ks) \subseteq ks /\ Open(ks) \subseteq DOMAIN book
  BY DEF Open
<1>3. dropped \subseteq Text
  BY <1>2 DEF BookTypes
<1>4. \A k \in DOMAIN book : k \in ks /\ book[k].status = "pending" => k \in Open(ks)
  BY DEF Open
<1>5. DOMAIN book' = DOMAIN book
      /\ \A k \in DOMAIN book : book'[k] = IF k \in Open(ks) THEN [book[k] EXCEPT !.status = "dropped"]
                                           ELSE book[k]
  BY <1>1
<1>6. \A k \in DOMAIN book' :
         book'[k] \in [row : Text, status : {"pending", "accepted", "dropped"}]
  BY <1>5 DEF BookTypes
<1>7. BookTypes'
  BY <1>1, <1>3, <1>5, <1>6 DEF BookTypes
<1> QED
  BY <1>1, <1>2, <1>4, <1>5, <1>7

\* The relay takes at most one more message.
WireGrows ==
    /\ DOMAIN wire \subseteq DOMAIN wire' /\ DOMAIN wire' \subseteq DOMAIN wire \cup {next}
    /\ \A m \in DOMAIN wire : wire'[m] = wire[m]
    /\ next \in DOMAIN wire' => next < next'
    /\ next' \in Nat /\ next <= next'

LEMMA WireSame ==
    ASSUME OlmInv, wire' = wire, next' = next \/ next' = next + 1
    PROVE  WireGrows
  BY DEF OlmInv, OlmTypes, WireGrows

\* A send stays in the book.
LEMMA StaysBacked ==
    ASSUME OlmInv, WireGrows, NEW k, NEW t, Backed(k, t), k \in Nat,
           k \in DOMAIN book', book'[k] = book[k]
    PROVE  Backed(k, t)'
<1>1. k < next /\ k \notin DOMAIN wire /\ next \in Nat
  BY DEF Backed, OlmInv, OlmTypes
<1>2. k < next' /\ k \notin DOMAIN wire'
  BY <1>1 DEF WireGrows
<1> QED
  BY <1>2 DEF Backed

\* The rows stay shown.
LEMMA StaysShown ==
    ASSUME UnsentIsShown, WireGrows, marks \cup lost \subseteq marks' \cup lost',
           \A t \in rows : Waits(t) => Waits(t)' \/ OnTheWire(t)' \/ t \in marks' \cup lost',
           \A t \in rows' \ rows : Waits(t)' \/ OnTheWire(t)'
    PROVE  UnsentIsShown'
<1>1. ASSUME NEW t, OnTheWire(t) PROVE OnTheWire(t)'
  BY <1>1 DEF OnTheWire, WireGrows
<1> QED
  BY <1>1 DEF UnsentIsShown

\* A step that changes neither the lists nor the book nor the rows.
LEMMA QuietQueue ==
    ASSUME QueueInv, stage \in {"idle", "settle", "keys"}, stage' \in {"idle", "settle", "keys"},
           UNCHANGED <<queue, pending, flush, job, book, marks, saved, rows, sent, ghost, next>>,
           sessions' <= MaxSessions, wanted' \in BOOLEAN, keyreq' \in Nat, rekey' \in Nat
    PROVE  QueueInv'
<1>1. UNCHANGED <<wire, copied, typed, lost>>
  BY DEF ghost
<1>2. job = None /\ flush = NoFlush
  BY DEF QueueInv, JobTypes, FlushIdle
<1>3. ListTypes' /\ BookTypes' /\ SentTypes' /\ GhostTypes'
  BY <1>1 DEF QueueInv, ListTypes, BookTypes, SentTypes, GhostTypes
<1>4. JobTypes' /\ FlushIdle'
  BY <1>2 DEF JobTypes, FlushIdle
<1>5. Slots'
  BY DEF QueueInv, Slots
<1>6. BookInv' /\ OutInv'
  BY <1>1, <1>2 DEF QueueInv, BookInv, OutInv, Backed
<1>7. UnsentIsShown'
  BY <1>1 DEF QueueInv, UnsentIsShown, OnTheWire, Waits
<1> QED
  BY <1>3, <1>4, <1>5, <1>6, <1>7 DEF QueueInv

\* emit and emit_group in two cases: the send goes on without the devices of c,
\* or it ends before anything went out.
WireStep(c) ==
    \/ UNCHANGED <<wire, next>>
    \/ wire' = OnWire(c) /\ next' = next + 1

GoesOn(c) ==
    /\ WireStep(c) /\ UNCHANGED <<unsent, pending, book, marks, saved, flush, stage>>
    /\ \/ job.out # {} /\ job' = [job EXCEPT !.sealed = Without(@, c)]
       \/ /\ wire' = OnWire(c) /\ next' = next + 1
          /\ \E named \in BOOLEAN :
               job' = [job EXCEPT !.sealed = Without(@, c),
                                  !.out = @ \cup {[id |-> next, named |-> named, dids |-> c]}]

Ends(c) ==
    /\ WireStep(c) /\ UNCHANGED unsent /\ job.out = {}
    /\ \E why, ok : ok \in BOOLEAN /\ DeliverFails(why, ok) /\ (why = "busy" => wire' = wire)

LEMMA EmitCases ==
    ASSUME EmitStep
    PROVE  /\ stage = "send" /\ job # None
           /\ \E c \in SUBSET DOMAIN job.sealed : GoesOn(c) \/ Ends(c)
<1>1. stage = "send" /\ job # None
  BY DEF EmitStep, EmitAccepted, EmitRefused, EmitLost, EmitUnsaved, TooLarge, Emitting
<1>2. Chunks \subseteq SUBSET DOMAIN job.sealed
  BY DEF Chunks, Group
<1>3. ASSUME NEW c \in Chunks, NEW why, NEW ok \in BOOLEAN, RequestFails(c, why, ok), WireStep(c),
             UNCHANGED unsent, why = "busy" => wire' = wire
      PROVE  GoesOn(c) \/ Ends(c)
  <2>1. CASE job.out = {}
    BY <1>3, <2>1 DEF RequestFails, Ends
  <2>2. CASE job.out # {}
    BY <1>3, <2>2 DEF RequestFails, GoesOn
  <2> QED
    BY <2>1, <2>2
<1>4. CASE EmitAccepted
  <2>1. PICK c \in Chunks, named \in BOOLEAN :
            /\ wire' = OnWire(c)
            /\ job' = [job EXCEPT !.sealed = Without(@, c),
                                  !.out = @ \cup {[id |-> next, named |-> named, dids |-> c]}]
    BY <1>4 DEF EmitAccepted
  <2>2. next' = next + 1 /\ UNCHANGED <<unsent, pending, book, marks, saved, flush, stage>>
    BY <1>4 DEF EmitAccepted
  <2>3. GoesOn(c)
    BY <2>1, <2>2 DEF GoesOn, WireStep
  <2> QED
    BY <1>1, <1>2, <2>1, <2>3
<1>5. CASE EmitRefused
  <2>1. PICK c \in Chunks, why \in {"busy", "refused"}, ok \in BOOLEAN : RequestFails(c, why, ok)
    BY <1>5 DEF EmitRefused
  <2>2. WireStep(c) /\ UNCHANGED <<unsent, wire>>
    BY <1>5 DEF EmitRefused, WireStep
  <2> QED
    BY <1>1, <1>2, <1>3, <2>1, <2>2
<1>6. CASE EmitLost
  <2>1. PICK c \in Chunks, taken \in BOOLEAN, ok \in BOOLEAN :
            /\ RequestFails(c, "lost", ok)
            /\ wire' = IF taken THEN OnWire(c) ELSE wire
            /\ next' = IF taken THEN next + 1 ELSE next
    BY <1>6 DEF EmitLost
  <2>2. WireStep(c) /\ UNCHANGED unsent
    BY <1>6, <2>1 DEF EmitLost, WireStep
  <2> QED
    BY <1>1, <1>2, <1>3, <2>1, <2>2
<1>7. CASE EmitUnsaved
  <2>1. PICK c \in Chunks, ok \in BOOLEAN : RequestFails(c, "store", ok)
    BY <1>7 DEF EmitUnsaved
  <2>2. WireStep(c) /\ UNCHANGED unsent
    BY <1>7 DEF EmitUnsaved, WireStep
  <2> QED
    BY <1>1, <1>2, <1>3, <2>1, <2>2
<1>8. CASE TooLarge
  <2>1. PICK ok \in BOOLEAN : DeliverFails("large", ok)
    BY <1>8 DEF TooLarge
  <2>2. Ends({})
    BY <1>8, <2>1 DEF TooLarge, Ends, WireStep
  <2> QED
    BY <1>1, <2>2
<1> QED
  BY <1>4, <1>5, <1>6, <1>7, <1>8 DEF EmitStep

LEMMA WireStepGrows ==
    ASSUME OlmInv, NEW c, WireStep(c)
    PROVE  /\ WireGrows
           /\ wire' = OnWire(c) /\ next' = next + 1 =>
                 /\ DOMAIN wire' = DOMAIN wire \cup {next} /\ next \notin DOMAIN wire
                 /\ wire'[next].text = job.what.text /\ DOMAIN wire'[next].body = c
           /\ \A m \in DOMAIN wire' \ DOMAIN wire : wire'[m].text = job.what.text
<1>1. next \in Nat /\ next \notin DOMAIN wire
  BY DEF OlmInv, OlmTypes
<1>2. CASE UNCHANGED <<wire, next>>
  <2>1. WireGrows
    BY <1>2, WireSame
  <2>2. wire' = OnWire(c) /\ next' = next + 1 => FALSE
    BY <1>1, <1>2
  <2> QED
    BY <1>2, <2>1, <2>2
<1>3. CASE wire' = OnWire(c) /\ next' = next + 1
  BY <1>1, <1>3 DEF OnWire, Put, WireGrows
<1> QED
  BY <1>2, <1>3 DEF WireStep
-----------------------------------------------------------------------------
(* The steps of the worker keep the queue, the book and the rows. *)

LEMMA JobFields ==
    ASSUME JobTypes, job # None
    PROVE  /\ job \in SendJob /\ DOMAIN job = {"item", "what", "sealed", "out"}
           /\ job.item \in Item \cup {None} /\ job.what \in PendingText
           /\ DOMAIN job.sealed \subseteq Device /\ job.out \subseteq Request
           /\ \E ds \in SUBSET Device : job.sealed \in [ds -> OlmSession]
<1>1. job \in SendJob
  BY DEF JobTypes
<1>2. job.sealed \in UNION {[ds -> OlmSession] : ds \in SUBSET Device}
  BY <1>1 DEF SendJob
<1>3. PICK ds \in SUBSET Device : job.sealed \in [ds -> OlmSession]
  BY <1>2
<1> QED
  BY <1>1, <1>3 DEF SendJob

LEMMA FewerSealed ==
    ASSUME NEW ds \in SUBSET Device, NEW s \in [ds -> OlmSession], NEW c
    PROVE  /\ Without(s, c) \in UNION {[es -> OlmSession] : es \in SUBSET Device}
           /\ DOMAIN Without(s, c) = DOMAIN s \ c
<1>1. Without(s, c) \in [ds \ c -> OlmSession] /\ ds \ c \in SUBSET Device
  BY DEF Without
<1> QED
  BY <1>1 DEF Without

\* What GoesOn does to the send.
LEMMA GoesOnFields ==
    ASSUME OlmInv, JobTypes, job # None, NEW c \in SUBSET DOMAIN job.sealed, GoesOn(c)
    PROVE  /\ job' \in SendJob /\ job' # None /\ job'.item = job.item /\ job'.what = job.what
           /\ DOMAIN job'.sealed = DOMAIN job.sealed \ c
           /\ \/ job.out # {} /\ job'.out = job.out
              \/ /\ wire' = OnWire(c) /\ next' = next + 1
                 /\ \E named \in BOOLEAN :
                       job'.out = job.out \cup {[id |-> next, named |-> named, dids |-> c]}
<1>1. /\ job \in SendJob /\ DOMAIN job = {"item", "what", "sealed", "out"}
      /\ job.item \in Item \cup {None} /\ job.what \in PendingText
      /\ DOMAIN job.sealed \subseteq Device /\ job.out \subseteq Request
  BY JobFields
<1>2. PICK ds \in SUBSET Device : job.sealed \in [ds -> OlmSession]
  BY JobFields
<1> DEFINE w == Without(job.sealed, c)
<1>3. w \in UNION {[es -> OlmSession] : es \in SUBSET Device} /\ DOMAIN w = DOMAIN job.sealed \ c
  BY <1>2, FewerSealed
<1> HIDE DEF w
<1>4. CASE job.out # {} /\ job' = [job EXCEPT !.sealed = Without(@, c)]
  <2>1. job' = [job EXCEPT !.sealed = w]
    BY <1>4 DEF w
  <2>2. job' \in SendJob
    BY <1>1, <1>3, <2>1 DEF SendJob
  <2>3. job'.item = job.item /\ job'.what = job.what /\ job'.sealed = w /\ job'.out = job.out
    BY <1>1, <2>1
  <2> QED
    BY <1>3, <1>4, <2>2, <2>3, NoneIsApart
<1>5. ASSUME NEW named \in BOOLEAN, wire' = OnWire(c), next' = next + 1,
             job' = [job EXCEPT !.sealed = Without(@, c),
                                !.out = @ \cup {[id |-> next, named |-> named, dids |-> c]}]
      PROVE  /\ job' \in SendJob /\ job' # None /\ job'.item = job.item /\ job'.what = job.what
             /\ DOMAIN job'.sealed = DOMAIN job.sealed \ c
             /\ job'.out = job.out \cup {[id |-> next, named |-> named, dids |-> c]}
  <2> DEFINE o == [id |-> next, named |-> named, dids |-> c]
  <2>1. o \in Request
    BY <1>1 DEF OlmInv, OlmTypes, Request, SendKey
  <2>2. job' = [job EXCEPT !.sealed = w, !.out = @ \cup {o}]
    BY <1>5 DEF w
  <2> HIDE DEF o
  <2>3. job' \in SendJob
    <3>1. job.out \cup {o} \in SUBSET Request
      BY <1>1, <2>1
    <3> QED
      BY <1>1, <1>3, <2>2, <3>1 DEF SendJob
  <2>4. job'.item = job.item /\ job'.what = job.what /\ job'.sealed = w /\ job'.out = job.out \cup {o}
    BY <1>1, <2>2
  <2> QED
    BY <1>3, <2>3, <2>4, NoneIsApart DEF o
<1> QED
  BY <1>4, <1>5 DEF GoesOn

LEMMA GoesOnKeeps ==
    ASSUME OlmInv, QueueInv, stage = "send", job # None,
           NEW c \in SUBSET DOMAIN job.sealed, GoesOn(c)
    PROVE  QueueInv'
<1>1. /\ UNCHANGED <<queue, pending, book, marks, saved, flush, stage, sent, rows, copied, typed,
                     lost, sessions, wanted, keyreq, rekey>>
      /\ WireStep(c)
  BY DEF GoesOn, unsent
<1>2. /\ WireGrows /\ \A m \in DOMAIN wire' \ DOMAIN wire : wire'[m].text = job.what.text
      /\ wire' = OnWire(c) /\ next' = next + 1 =>
            next \in DOMAIN wire' /\ wire'[next].text = job.what.text
  BY <1>1, WireStepGrows
<1>3. JobTypes /\ ListTypes /\ BookTypes /\ SentTypes /\ GhostTypes /\ Slots /\ FlushIdle
      /\ BookInv /\ OutInv /\ UnsentIsShown
  BY DEF QueueInv
<1>4. /\ job' \in SendJob /\ job' # None /\ job'.item = job.item /\ job'.what = job.what
      /\ DOMAIN job'.sealed = DOMAIN job.sealed \ c
      /\ \/ job.out # {} /\ job'.out = job.out
         \/ /\ wire' = OnWire(c) /\ next' = next + 1
            /\ \E named \in BOOLEAN :
                  job'.out = job.out \cup {[id |-> next, named |-> named, dids |-> c]}
  BY <1>3, GoesOnFields
<1>5. job.what.text \in Text /\ job.item \in Item \cup {None}
  BY <1>3, JobFields DEF PendingText
<1>6. ListTypes' /\ BookTypes' /\ JobTypes' /\ Slots' /\ FlushIdle'
  BY <1>1, <1>3, <1>4 DEF ListTypes, BookTypes, JobTypes, Slots, FlushIdle
<1>7. SentTypes' /\ GhostTypes'
  <2>1. \A m \in DOMAIN wire' : wire'[m].text \in Text
    BY <1>2, <1>3, <1>5 DEF GhostTypes, WireGrows
  <2> QED
    BY <1>1, <1>2, <1>3, <2>1 DEF SentTypes, GhostTypes, WireGrows
<1>8. BookInv'
  <2>1. ASSUME NEW k \in DOMAIN pending PROVE Backed(k, pending[k].text)'
    <3>1. k \in Nat /\ Backed(k, pending[k].text)
      BY <1>3 DEF ListTypes, SendKey, BookInv
    <3> QED
      BY <1>1, <1>2, <3>1, StaysBacked DEF Backed
  <2>2. ASSUME job.item # None
        PROVE  job.item.key \notin DOMAIN pending /\ Backed(job.item.key, job.what.text)'
    <3>1. job.item.key \in Nat /\ Backed(job.item.key, job.what.text)
          /\ job.item.key \notin DOMAIN pending
      BY <1>3, <1>5, <2>2 DEF Item, SendKey, BookInv
    <3> QED
      BY <1>1, <1>2, <1>4, <3>1, StaysBacked DEF Backed
  <2> QED
    BY <1>1, <1>4, <2>1, <2>2 DEF BookInv
<1>9. OutInv'
  <2>1. \A o \in job.out : o.id \in DOMAIN wire' /\ wire'[o.id].text = job.what.text
    BY <1>2, <1>3 DEF OutInv, WireGrows
  <2>2. job'.out # {}
    BY <1>4
  <2>3. \A o \in job'.out : o \in job.out \/ (o.id = next /\ wire' = OnWire(c) /\ next' = next + 1)
    BY <1>4
  <2> QED
    BY <1>2, <1>4, <2>1, <2>2, <2>3 DEF OutInv
<1>10. UnsentIsShown'
  <2>1. \A t : Waits(t) => Waits(t)'
    BY <1>1, <1>4 DEF Waits
  <2> QED
    BY <1>1, <1>2, <1>3, <2>1, StaysShown
<1> QED
  BY <1>6, <1>7, <1>8, <1>9, <1>10 DEF QueueInv

\* The waiting sends stay in the book when it changes for others only.
LEMMA PendingStays ==
    ASSUME OlmInv, WireGrows, ListTypes, BookInv, NEW ks,
           \A k \in DOMAIN book \ ks : k \in DOMAIN book' /\ book'[k] = book[k],
           \A k \in DOMAIN pending' : \/ k \in DOMAIN pending \ ks /\ pending'[k] = pending[k]
                                     \/ Backed(k, pending[k].text)'
    PROVE  \A k \in DOMAIN pending' : Backed(k, pending[k].text)'
<1> SUFFICES ASSUME NEW k \in DOMAIN pending \ ks, pending'[k] = pending[k]
             PROVE  Backed(k, pending[k].text)'
  OBVIOUS
<1> DEFINE t == pending[k].text
<1>1. k \in Nat /\ Backed(k, t)
  BY DEF ListTypes, SendKey, BookInv
<1>2. k \in DOMAIN book' /\ book'[k] = [row |-> t, status |-> "pending"] /\ k < next
      /\ k \notin DOMAIN wire
  BY <1>1 DEF Backed
<1>3. k < next' /\ k \notin DOMAIN wire' /\ pending'[k].text = t
  BY <1>1, <1>2 DEF OlmInv, OlmTypes, WireGrows
<1> HIDE DEF t
<1> QED
  BY <1>2, <1>3 DEF Backed

\* The end of a send that did not go out.
LEMMA EndsKeeps ==
    ASSUME OlmInv, QueueInv, stage = "send", job # None,
           NEW c \in SUBSET DOMAIN job.sealed, Ends(c)
    PROVE  QueueInv'
<1>1. /\ UNCHANGED <<queue, sent, rows, copied, typed, lost, sessions, wanted, keyreq, rekey>>
      /\ WireStep(c) /\ job' = None
  BY DEF Ends, unsent, DeliverFails
<1>2. PICK why, ok : ok \in BOOLEAN /\ DeliverFails(why, ok)
  BY DEF Ends
<1>3. WireGrows /\ \A m \in DOMAIN wire' \ DOMAIN wire : wire'[m].text = job.what.text
  BY <1>1, WireStepGrows
<1>4. JobTypes /\ ListTypes /\ BookTypes /\ SentTypes /\ GhostTypes /\ Slots /\ FlushIdle
      /\ BookInv /\ OutInv /\ UnsentIsShown
  BY DEF QueueInv
<1>5. job.item \in Item \cup {None} /\ job.what \in PendingText /\ job.what.text \in Text
  BY <1>4, JobFields DEF PendingText
<1>6. SentTypes' /\ GhostTypes'
  <2>1. \A m \in DOMAIN wire' : wire'[m].text \in Text
    BY <1>3, <1>4, <1>5 DEF GhostTypes, WireGrows
  <2> QED
    BY <1>1, <1>3, <1>4, <2>1 DEF SentTypes, GhostTypes, WireGrows
<1>7. OutInv'
  BY <1>1 DEF OutInv
<1>8. CASE job.item = None
  <2>1. stage' = "settle" /\ UNCHANGED <<pending, book, marks, saved, flush>> /\ flush = NoFlush
    BY <1>2, <1>4, <1>8 DEF DeliverFails, FlushIdle
  <2>2. ListTypes' /\ BookTypes' /\ JobTypes' /\ Slots' /\ FlushIdle'
    BY <1>1, <1>4, <2>1 DEF ListTypes, BookTypes, JobTypes, Slots, FlushIdle
  <2>3. BookInv'
    <3>1. \A k \in DOMAIN pending' : Backed(k, pending[k].text)'
      BY <1>3, <1>4, <2>1, PendingStays
    <3> QED
      BY <1>1, <3>1 DEF BookInv
  <2>4. UnsentIsShown'
    <3>1. \A t : Waits(t) => Waits(t)'
      BY <1>1, <1>8, <2>1 DEF Waits
    <3> QED
      BY <1>1, <1>3, <1>4, <2>1, <3>1, StaysShown
  <2> QED
    BY <1>6, <1>7, <2>2, <2>3, <2>4 DEF QueueInv
<1>9. CASE job.item # None
  <2> DEFINE k == job.item.key
             t == job.what.text
  <2>1. /\ job.item \in Item /\ k \in SendKey /\ k \notin DOMAIN pending /\ Backed(k, t)
    BY <1>4, <1>5, <1>9 DEF BookInv, Item
  <2>2. k \in DOMAIN book /\ book[k].status = "pending" /\ book[k].row = t
    BY <2>1 DEF Backed
  <2>3. CASE why = "busy"
    <3>1. /\ stage' = "flush" /\ pending' = Put(pending, k, job.what)
          /\ flush' = [flush EXCEPT !.retry = Append(@, job.item)]
          /\ UNCHANGED <<book, marks, saved>>
      BY <1>2, <1>9, <2>3 DEF DeliverFails
    <3>2. /\ DOMAIN pending' = DOMAIN pending \cup {k} /\ pending'[k] = job.what
          /\ \A x \in DOMAIN pending : pending'[x] = pending[x]
      <4>1. \A x \in DOMAIN pending : x # k
        BY <2>1
      <4> HIDE DEF k
      <4> QED
        BY <3>1, <4>1 DEF Put
    <3>3. /\ flush.retry \in Seq(Item) /\ flush.taken \in Seq(Item)
          /\ flush' = [taken |-> flush.taken, retry |-> Append(flush.retry, job.item)]
      BY <1>4, <3>1 DEF ListTypes
    <3>4. k \notin Keys(flush.retry) /\ k \notin Keys(flush.taken) /\ k \notin Keys(queue)
      BY <1>4, <2>1 DEF Slots
    <3>5. /\ Append(flush.retry, job.item) \in Seq(Item) /\ Distinct(Append(flush.retry, job.item))
          /\ Keys(Append(flush.retry, job.item)) = Keys(flush.retry) \cup {k}
      BY <1>4, <2>1, <3>3, <3>4, AppendedKeys DEF Slots
    <3>6. ListTypes' /\ BookTypes'
      <4>1. flush' \in [taken : Seq(Item), retry : Seq(Item)]
        BY <3>3, <3>5
      <4> HIDE DEF k
      <4> QED
        BY <1>1, <1>4, <1>5, <2>1, <3>1, <3>2, <4>1 DEF ListTypes, BookTypes
    <3>7. Slots'
      <4>1. flush'.taken = flush.taken /\ flush'.retry = Append(flush.retry, job.item)
        BY <3>3
      <4> HIDE DEF k
      <4> QED
        BY <1>1, <1>4, <3>2, <3>4, <3>5, <4>1 DEF Slots
    <3>8. JobTypes' /\ FlushIdle'
      BY <1>1, <3>1 DEF JobTypes, FlushIdle
    <3>9. BookInv'
      <4>1. Backed(k, job.what.text)
        BY <2>1
      <4>2. k \in DOMAIN book' /\ book'[k] = [row |-> t, status |-> "pending"]
            /\ k \notin DOMAIN wire /\ k < next /\ k \in Nat
        BY <2>1, <3>1 DEF Backed, SendKey
      <4>3. k \notin DOMAIN wire' /\ k < next'
        BY <1>3, <4>2 DEF OlmInv, OlmTypes, WireGrows
      <4>4. pending'[k].text = t
        BY <3>2
      <4> HIDE DEF k, t
      <4>5. \A x \in DOMAIN pending' : \/ x \in DOMAIN pending \ {} /\ pending'[x] = pending[x]
                                       \/ Backed(x, pending[x].text)'
        BY <3>2, <4>2, <4>3, <4>4 DEF Backed
      <4>6. \A x \in DOMAIN book \ {} : x \in DOMAIN book' /\ book'[x] = book[x]
        BY <3>1
      <4>7. \A x \in DOMAIN pending' : Backed(x, pending[x].text)'
        BY <1>3, <1>4, <4>5, <4>6, PendingStays
      <4> QED
        BY <1>1, <4>7 DEF BookInv
    <3>10. UnsentIsShown'
      <4> HIDE DEF k
      <4>1. \A x : Waits(x) => Waits(x)'
        BY <1>1, <1>9, <3>2 DEF Waits
      <4> QED
        BY <1>1, <1>3, <1>4, <3>1, <4>1, StaysShown
    <3> QED
      BY <1>6, <1>7, <3>6, <3>7, <3>8, <3>9, <3>10 DEF QueueInv
  <2>4. CASE why # "busy"
    <3>1. stage' = "flush" /\ NoteDrops({k}, ok) /\ UNCHANGED <<pending, flush>>
      BY <1>2, <1>9, <2>4 DEF DeliverFails
    <3>2. /\ BookTypes' /\ DOMAIN book' = DOMAIN book /\ marks \subseteq marks'
          /\ \A x \in DOMAIN book : x # k => book'[x] = book[x]
          /\ t \in marks'
      BY <1>2, <1>4, <2>2, <3>1, DropsNoted
    <3> HIDE DEF k
    <3>3. ListTypes' /\ JobTypes' /\ Slots' /\ FlushIdle'
      BY <1>1, <1>4, <3>1 DEF ListTypes, JobTypes, Slots, FlushIdle
    <3>4. BookInv'
      <4>1. \A x \in DOMAIN pending' : Backed(x, pending[x].text)'
        BY <1>3, <1>4, <2>1, <3>1, <3>2, PendingStays
      <4> QED
        BY <1>1, <4>1 DEF BookInv
    <3>5. UnsentIsShown'
      <4>1. \A x : Waits(x) => Waits(x)' \/ x \in marks'
        BY <1>1, <3>1, <3>2 DEF Waits
      <4> QED
        BY <1>1, <1>3, <1>4, <3>2, <4>1, StaysShown
    <3> QED
      BY <1>6, <1>7, <3>2, <3>3, <3>4, <3>5 DEF QueueInv
  <2> QED
    BY <2>3, <2>4
<1> QED
  BY <1>8, <1>9

\* trim_sent keeps the records that it keeps.
LEMMA TrimmedFields ==
    ASSUME NEW s
    PROVE  /\ DOMAIN Trimmed(s) \subseteq DOMAIN s
           /\ \A m \in DOMAIN Trimmed(s) : Trimmed(s)[m] = s[m]
<1>1. DOMAIN Live(s) \subseteq DOMAIN s /\ \A m \in DOMAIN Live(s) : Live(s)[m] = s[m]
  BY DEF Live, Without
<1>2. \E ks : Trimmed(s) = Without(Live(s), ks)
  BY DEF Trimmed
<1>3. PICK ks : Trimmed(s) = Without(Live(s), ks)
  BY <1>2
<1> QED
  BY <1>1, <1>3 DEF Without

\* deliver, its records: an accepted request enters the book, and the memory
\* for a re-send.
LEMMA AcceptedFields ==
    ASSUME JobTypes, BookTypes, SentTypes, OutInv, job # None
    PROVE  /\ DOMAIN Accepted = DOMAIN book \cup {o.id : o \in Named}
           /\ \A k \in DOMAIN book : Accepted[k] = book[k]
           /\ DOMAIN Accepted \subseteq SendKey
           /\ \A k \in DOMAIN Accepted :
                 Accepted[k] \in [row : Text, status : {"pending", "accepted", "dropped"}]
<1>1. job.out \subseteq Request /\ job.what.text \in Text
  BY JobFields DEF PendingText
<1>2. \A o \in Named : o.id \in SendKey
  BY <1>1 DEF Named, Request
<1>3. DOMAIN Accepted = DOMAIN book \cup {o.id : o \in Named}
      /\ \A k \in DOMAIN Accepted :
            Accepted[k] = IF k \in DOMAIN book THEN book[k]
                          ELSE [row |-> job.what.text, status |-> "accepted"]
  BY DEF Accepted
<1>4. [row |-> job.what.text, status |-> "accepted"] \in
          [row : Text, status : {"pending", "accepted", "dropped"}]
  BY <1>1
<1> HIDE DEF Named
<1> QED
  BY <1>2, <1>3, <1>4 DEF BookTypes

LEMMA RememberedFields ==
    ASSUME JobTypes, SentTypes, OutInv, job # None
    PROVE  /\ DOMAIN Remembered \subseteq DOMAIN wire
           /\ \A m \in DOMAIN Remembered :
                 \/ m \in DOMAIN sent /\ Remembered[m] = sent[m]
                 \/ \E o \in job.out : /\ o.id = m /\ Remembered[m].dids = o.dids
                                       /\ Remembered[m].text = job.what.text
                                       /\ Remembered[m].sends = job.what.sends
           /\ \A m \in DOMAIN Remembered : Remembered[m] \in SentRecord
<1> DEFINE all == [m \in DOMAIN sent \cup {o.id : o \in Named} |->
                     IF m \in DOMAIN sent THEN sent[m]
                     ELSE [text |-> job.what.text, sends |-> job.what.sends, left |-> SentMemory,
                           dids |-> (CHOOSE o \in Named : o.id = m).dids]]
<1>1. /\ Named \subseteq job.out /\ Named \subseteq Request
      /\ job.what.text \in Text /\ job.what.sends \in 1 .. MaxSends
  BY JobFields DEF Named, PendingText
<1>2. Remembered = Trimmed(all)
  BY DEF Remembered
<1>3. DOMAIN all = DOMAIN sent \cup {o.id : o \in Named}
  OBVIOUS
<1>4. ASSUME NEW m \in DOMAIN all, m \notin DOMAIN sent
      PROVE  /\ \E o \in job.out : o.id = m /\ all[m].dids = o.dids
             /\ all[m].text = job.what.text /\ all[m].sends = job.what.sends
             /\ all[m] \in SentRecord
  <2> DEFINE o == CHOOSE x \in Named : x.id = m
  <2>1. \E x \in Named : x.id = m
    BY <1>3, <1>4
  <2>2. o \in Named /\ o.id = m
    BY <2>1
  <2> HIDE DEF o
  <2>3. o \in job.out /\ o.dids \in SUBSET Device
    BY <1>1, <2>2 DEF Request
  <2>4. all[m] = [text |-> job.what.text, sends |-> job.what.sends, left |-> SentMemory,
                  dids |-> o.dids]
    BY <1>4 DEF o
  <2>5. SentMemory \in Nat
    BY SendConstants
  <2> HIDE DEF all
  <2>6. all[m] \in SentRecord
    BY <1>1, <2>3, <2>4, <2>5 DEF SentRecord
  <2> QED
    BY <2>2, <2>3, <2>4, <2>6
<1>5. \A m \in DOMAIN all : m \in DOMAIN sent => all[m] = sent[m]
  OBVIOUS
<1> HIDE DEF all
<1>6. DOMAIN Remembered \subseteq DOMAIN all /\ \A m \in DOMAIN Remembered : Remembered[m] = all[m]
  BY <1>2, TrimmedFields
<1>7. DOMAIN all \subseteq DOMAIN wire
  BY <1>1, <1>3 DEF SentTypes, OutInv
<1> QED
  BY <1>4, <1>5, <1>6, <1>7 DEF SentTypes

LEMMA DeliverKeeps ==
    ASSUME OlmInv, QueueInv, Deliver
    PROVE  QueueInv'
<1>1. /\ stage = "send" /\ job # None /\ job.sealed = << >> /\ job' = None
      /\ UNCHANGED <<queue, pending, marks, saved, flush, wire, typed, lost, next, sessions, wanted,
                     keyreq, rekey>>
      /\ stage' = IF job.item = None THEN "settle" ELSE "flush"
  BY DEF Deliver, waiting
<1>2. JobTypes /\ ListTypes /\ BookTypes /\ SentTypes /\ GhostTypes /\ Slots /\ FlushIdle
      /\ BookInv /\ OutInv /\ UnsentIsShown
  BY DEF QueueInv
<1>3. job.item \in Item \cup {None} /\ job.what \in PendingText /\ job.what.text \in Text
  BY <1>1, <1>2, JobFields DEF PendingText
<1>4. OnTheWire(job.what.text)
  <2>1. DOMAIN job.sealed = {}
    BY <1>1
  <2> QED
    BY <1>1, <1>2, <2>1 DEF OutInv, OnTheWire
<1>5. \/ /\ rows' = rows \cup {job.what.text}
         /\ book' = IF job.item = None THEN Accepted ELSE Without(Accepted, {job.item.key})
         /\ sent' = Remembered
         /\ copied' = copied \/ copied' = [copied EXCEPT ![job.what.text] = @ + 1]
      \/ job.item = None /\ UNCHANGED <<rows, book, sent, copied>>
  BY DEF Deliver
<1>6. WireGrows
  BY <1>1, WireSame
<1>7. ListTypes' /\ JobTypes' /\ OutInv' /\ Slots'
  BY <1>1, <1>2 DEF ListTypes, JobTypes, OutInv, Slots
<1>8. FlushIdle'
  BY <1>1, <1>2 DEF FlushIdle
<1>9. GhostTypes'
  <2>1. rows' \subseteq Text
    BY <1>2, <1>3, <1>5 DEF GhostTypes
  <2>2. copied' \in [Text -> Nat]
    BY <1>2, <1>3, <1>5 DEF GhostTypes
  <2> QED
    BY <1>1, <1>2, <2>1, <2>2 DEF GhostTypes
<1>10. BookTypes'
  <2>1. CASE UNCHANGED book
    BY <1>1, <1>2, <2>1 DEF BookTypes
  <2>2. CASE book' = Accepted
    BY <1>1, <1>2, <2>2, AcceptedFields DEF BookTypes
  <2>3. CASE book' = Without(Accepted, {job.item.key})
    <3>1. DOMAIN book' \subseteq DOMAIN Accepted /\ \A k \in DOMAIN book' : book'[k] = Accepted[k]
      BY <2>3 DEF Without
    <3> QED
      BY <1>1, <1>2, <3>1, AcceptedFields DEF BookTypes
  <2> QED
    BY <1>5, <2>1, <2>2, <2>3
<1>11. SentTypes'
  BY <1>1, <1>2, <1>5, RememberedFields DEF SentTypes
<1>12. BookInv'
  <2> DEFINE ks == IF job.item = None THEN {} ELSE {job.item.key}
  <2>1. \A k \in DOMAIN book \ ks : k \in DOMAIN book' /\ book'[k] = book[k]
    <3>1. CASE UNCHANGED book
      BY <3>1
    <3>2. CASE book' = Accepted
      BY <1>1, <1>2, <3>2, AcceptedFields
    <3>3. CASE book' = Without(Accepted, {job.item.key}) /\ job.item # None
      <4>1. ks = {job.item.key}
        BY <3>3
      <4>2. DOMAIN book' = DOMAIN Accepted \ ks /\ \A k \in DOMAIN book' : book'[k] = Accepted[k]
        BY <3>3, <4>1 DEF Without
      <4> HIDE DEF ks
      <4> QED
        BY <1>1, <1>2, <4>2, AcceptedFields
    <3> QED
      BY <1>5, <3>1, <3>2, <3>3
  <2>2. \A k \in DOMAIN pending : k \notin ks
    BY <1>1, <1>2 DEF BookInv
  <2> HIDE DEF ks
  <2>3. \A k \in DOMAIN pending' : Backed(k, pending[k].text)'
    BY <1>1, <1>2, <1>6, <2>1, <2>2, PendingStays
  <2> QED
    BY <1>1, <2>3 DEF BookInv
<1>13. UnsentIsShown'
  <2>1. \A t : Waits(t) => Waits(t)' \/ t = job.what.text
    BY <1>1 DEF Waits
  <2> DEFINE w == job.what.text
  <2>2. \A t : t = w => OnTheWire(t)'
    BY <1>1, <1>4 DEF OnTheWire
  <2> HIDE DEF w
  <2>3. rows' \subseteq rows \cup {w} /\ \A t : Waits(t) => Waits(t)' \/ t = w
    BY <1>5, <2>1 DEF w
  <2> QED
    BY <1>1, <1>2, <1>6, <2>2, <2>3, StaysShown
<1> QED
  BY <1>7, <1>8, <1>9, <1>10, <1>11, <1>12, <1>13 DEF QueueInv

\* expire_queue and take_matching.
LEMMA SettleKeeps ==
    ASSUME OlmInv, QueueInv, Settle
    PROVE  QueueInv'
<1> DEFINE lateAt == {j \in DOMAIN queue : TooLate(queue[j])}
           liveAt == {j \in DOMAIN queue : ~TooLate(queue[j])}
           late == {queue[i].key : i \in lateAt}
           live == Retained(queue, liveAt)
<1>1. /\ pending' = Without(pending, late)
      /\ \E ok \in BOOLEAN : NoteDrops(late, ok)
      /\ queue' = IF Ready = {} THEN live ELSE << >>
      /\ flush' = [NoFlush EXCEPT !.taken = IF Ready = {} THEN << >> ELSE live]
      /\ stage' = IF live = << >> THEN "keys" ELSE "flush"
      /\ stage = "settle"
  BY DEF Settle
<1>2. UNCHANGED <<sent, rows, job, wire, copied, typed, lost, next, sessions, wanted, keyreq, rekey>>
  BY DEF Settle, ghost
<1>3. JobTypes /\ ListTypes /\ BookTypes /\ SentTypes /\ GhostTypes /\ Slots /\ FlushIdle
      /\ BookInv /\ OutInv /\ UnsentIsShown
  BY DEF QueueInv
<1>4. job = None /\ flush = NoFlush
  BY <1>1, <1>3 DEF JobTypes, FlushIdle
<1>5. queue \in Seq(Item) /\ Distinct(queue) /\ DOMAIN pending = Keys(queue)
  BY <1>3, <1>4, NoKeys DEF ListTypes, Slots, NoFlush
<1>6. live \in Seq(Item) /\ Distinct(live) /\ Keys(live) = {queue[p].key : p \in liveAt}
  <2>1. liveAt \in SUBSET DOMAIN queue
    OBVIOUS
  <2> HIDE DEF liveAt
  <2> QED
    BY <1>5, <2>1, RetainedKeys
<1>7. late \subseteq DOMAIN pending /\ DOMAIN pending \ late = Keys(live)
  <2>1. \A i \in DOMAIN queue : i \in lateAt \/ i \in liveAt
    OBVIOUS
  <2>2. lateAt \cap liveAt = {} /\ lateAt \subseteq DOMAIN queue /\ liveAt \subseteq DOMAIN queue
    OBVIOUS
  <2> HIDE DEF lateAt, liveAt, live
  <2>3. late \subseteq Keys(queue)
    BY <2>2 DEF Keys
  <2>4. \A i \in DOMAIN queue : queue[i].key \in late \/ queue[i].key \in Keys(live)
    BY <1>6, <2>1
  <2>5. \A i \in lateAt, j \in liveAt : queue[i].key # queue[j].key
    BY <1>5, <2>2 DEF Distinct
  <2>6. \A k \in Keys(live) : k \in Keys(queue) /\ k \notin late
    BY <1>6, <2>2, <2>5 DEF Keys
  <2>7. \A k \in Keys(queue) : k \in late \/ k \in Keys(live)
    BY <2>4 DEF Keys
  <2> HIDE DEF late
  <2> QED
    BY <1>5, <2>3, <2>6, <2>7
<1> HIDE DEF late, live
<1>8. PICK ok \in BOOLEAN : NoteDrops(late, ok)
  BY <1>1
<1>9. /\ BookTypes' /\ DOMAIN book' = DOMAIN book /\ marks \subseteq marks'
      /\ \A k \in DOMAIN book : k \notin late => book'[k] = book[k]
      /\ \A k \in DOMAIN book : k \in late /\ book[k].status = "pending" => book[k].row \in marks'
  BY <1>3, <1>8, DropsNoted
<1>10. DOMAIN pending' = Keys(live) /\ \A k \in DOMAIN pending' : pending'[k] = pending[k]
  BY <1>1, <1>7 DEF Without
<1>11. /\ flush' = [taken |-> IF Ready = {} THEN << >> ELSE live, retry |-> << >>]
  BY <1>1 DEF NoFlush
<1>12. ListTypes'
  <2>1. queue' \in Seq(Item) /\ flush' \in [taken : Seq(Item), retry : Seq(Item)]
    <3>1. queue' \in Seq(Item) /\ (IF Ready = {} THEN << >> ELSE live) \in Seq(Item)
      BY <1>1, <1>6, NoKeys
    <3> QED
      BY <1>11, <3>1, NoKeys
  <2>2. DOMAIN pending' \subseteq DOMAIN pending
    BY <1>7, <1>10
  <2> QED
    BY <1>3, <1>10, <2>1, <2>2 DEF ListTypes
<1>13. Slots'
  <2>1. /\ flush'.retry = << >> /\ flush'.taken = IF Ready = {} THEN << >> ELSE live
    BY <1>11
  <2>2. CASE Ready = {}
    BY <1>1, <1>6, <1>10, <2>1, <2>2, NoKeys DEF Slots
  <2>3. CASE Ready # {}
    BY <1>1, <1>6, <1>10, <2>1, <2>3, NoKeys DEF Slots
  <2> QED
    BY <2>2, <2>3
<1>14. JobTypes' /\ OutInv' /\ FlushIdle'
  <2>1. live = << >> => flush' = NoFlush
    BY <1>11 DEF NoFlush
  <2> QED
    BY <1>1, <1>2, <1>4, <2>1 DEF JobTypes, OutInv, FlushIdle
<1>15. SentTypes' /\ GhostTypes'
  BY <1>2, <1>3 DEF SentTypes, GhostTypes
<1>16. WireGrows
  BY <1>2, WireSame
<1>17. BookInv'
  <2>1. \A k \in DOMAIN pending' : k \in DOMAIN pending \ late
    BY <1>7, <1>10
  <2>2. \A k \in DOMAIN pending' : Backed(k, pending[k].text)'
    BY <1>3, <1>9, <1>10, <1>16, <2>1, PendingStays
  <2> QED
    BY <1>2, <1>4, <2>2 DEF BookInv
<1>18. UnsentIsShown'
  <2>1. ASSUME NEW k \in DOMAIN pending, k \notin DOMAIN pending' PROVE pending[k].text \in marks'
    <3>1. k \in late /\ Backed(k, pending[k].text)
      BY <1>3, <1>7, <1>10, <2>1 DEF BookInv
    <3> QED
      BY <1>9, <3>1 DEF Backed
  <2>2. \A t : Waits(t) => Waits(t)' \/ t \in marks'
    BY <1>2, <1>4, <1>10, <2>1 DEF Waits
  <2> QED
    BY <1>2, <1>3, <1>9, <1>16, <2>2, StaysShown
<1> QED
  BY <1>9, <1>12, <1>13, <1>14, <1>15, <1>17, <1>18 DEF QueueInv

\* A new send holds the sessions of the store.
LEMMA JobIsTyped ==
    ASSUME OlmInv, NEW item \in Item \cup {None}, NEW p \in PendingText, NEW ds \in SUBSET Ready
    PROVE  /\ Job(item, p, ds) \in SendJob /\ Job(item, p, ds) # None
           /\ Job(item, p, ds).item = item /\ Job(item, p, ds).what = p
           /\ DOMAIN Job(item, p, ds).sealed = ds /\ Job(item, p, ds).out = {}
<1> DEFINE s == Seal(ds)
<1>1. ds \in SUBSET Device
  BY DEF OlmInv, OlmTypes, Ready
<1>2. s = [d \in ds |-> SealedFor(d)]
  BY DEF Seal, SealedFor
<1>3. \A d \in ds : SealedFor(d) \in OlmSession
  BY SealedFits DEF OlmInv
<1> HIDE DEF s
<1>4. s \in [ds -> OlmSession]
  BY <1>2, <1>3
<1>5. s \in UNION {[es -> OlmSession] : es \in SUBSET Device}
  BY <1>1, <1>4
<1>6. Job(item, p, ds) = [item |-> item, what |-> p, sealed |-> s, out |-> {}]
  BY DEF Job, s
<1>7. [item |-> item, what |-> p, sealed |-> s, out |-> {}] \in SendJob
  BY <1>5 DEF SendJob
<1> QED
  BY <1>4, <1>6, <1>7, NoneIsApart

\* flush_queue, one item.
LEMMA FlushItemKeeps ==
    ASSUME OlmInv, QueueInv, FlushItem
    PROVE  QueueInv'
<1> DEFINE item == Head(flush.taken)
           p == pending[item.key]
           rest == Tail(flush.taken)
<1>1. /\ stage = "flush" /\ flush.taken # << >>
      /\ UNCHANGED <<queue, sent, rows, wire, copied, typed, lost, next, sessions, wanted, keyreq,
                     rekey>>
  BY DEF FlushItem, ghost
<1>2. \/ /\ pending' = Without(pending, {item.key})
         /\ \E ok \in BOOLEAN : NoteDrops({item.key}, ok)
         /\ flush' = [flush EXCEPT !.taken = rest] /\ UNCHANGED <<stage, job>>
      \/ /\ UNCHANGED <<book, marks, saved, pending, stage, job>>
         /\ flush' = [taken |-> rest, retry |-> Append(flush.retry, item)]
      \/ /\ UNCHANGED <<book, marks, saved>> /\ pending' = Without(pending, {item.key})
         /\ flush' = [flush EXCEPT !.taken = rest] /\ Entries(p) # {}
         /\ job' = Job(item, p, Entries(p)) /\ stage' = "send"
  BY DEF FlushItem
<1>3. JobTypes /\ ListTypes /\ BookTypes /\ SentTypes /\ GhostTypes /\ Slots /\ FlushIdle
      /\ BookInv /\ OutInv /\ UnsentIsShown
  BY DEF QueueInv
<1>4. job = None /\ flush.taken \in Seq(Item) /\ flush.retry \in Seq(Item)
      /\ flush = [taken |-> flush.taken, retry |-> flush.retry]
  BY <1>1, <1>3 DEF JobTypes, ListTypes
<1>5. /\ rest \in Seq(Item) /\ item \in Item /\ Keys(flush.taken) = Keys(rest) \cup {item.key}
      /\ Distinct(rest) /\ item.key \notin Keys(rest)
  BY <1>1, <1>3, <1>4, TailKeys DEF Slots
<1> HIDE DEF item, rest, p
<1>6. /\ item.key \in DOMAIN pending /\ item.key \notin Keys(queue) /\ item.key \notin Keys(flush.retry)
      /\ item.key \in SendKey
  BY <1>3, <1>5 DEF Slots, Item
<1>7. p \in PendingText /\ Backed(item.key, p.text)
  BY <1>3, <1>6 DEF ListTypes, BookInv, p
<1>8. SentTypes' /\ GhostTypes'
  BY <1>1, <1>3 DEF SentTypes, GhostTypes
<1>9. WireGrows
  BY <1>1, WireSame
<1>10. ASSUME pending' = Without(pending, {item.key}), flush' = [flush EXCEPT !.taken = rest]
       PROVE  /\ ListTypes' /\ Slots' /\ DOMAIN pending' = DOMAIN pending \ {item.key}
              /\ \A k \in DOMAIN pending' : pending'[k] = pending[k]
  <2>1. DOMAIN pending' = DOMAIN pending \ {item.key} /\ \A k \in DOMAIN pending' : pending'[k] = pending[k]
    BY <1>10 DEF Without
  <2>2. flush' = [taken |-> rest, retry |-> flush.retry]
    BY <1>4, <1>10
  <2>3. ListTypes'
    <3>1. flush' \in [taken : Seq(Item), retry : Seq(Item)]
      BY <1>4, <1>5, <2>2
    <3> QED
      BY <1>1, <1>3, <2>1, <3>1 DEF ListTypes
  <2>4. flush'.taken = rest /\ flush'.retry = flush.retry
    BY <2>2
  <2>5. Slots'
    BY <1>1, <1>3, <1>5, <1>6, <2>1, <2>4 DEF Slots
  <2> QED
    BY <2>1, <2>3, <2>5
<1>11. CASE /\ pending' = Without(pending, {item.key}) /\ flush' = [flush EXCEPT !.taken = rest]
            /\ UNCHANGED <<stage, job>> /\ \E ok \in BOOLEAN : NoteDrops({item.key}, ok)
  <2>1. PICK ok \in BOOLEAN : NoteDrops({item.key}, ok)
    BY <1>11
  <2>2. /\ BookTypes' /\ DOMAIN book' = DOMAIN book /\ marks \subseteq marks'
        /\ \A k \in DOMAIN book : k # item.key => book'[k] = book[k]
        /\ p.text \in marks'
    BY <1>3, <1>7, <2>1, DropsNoted DEF Backed
  <2>3. JobTypes' /\ OutInv' /\ FlushIdle'
    BY <1>1, <1>3, <1>4, <1>11 DEF JobTypes, OutInv, FlushIdle
  <2>4. BookInv'
    <3>1. \A k \in DOMAIN pending' : k \in DOMAIN pending \ {item.key} /\ pending'[k] = pending[k]
      BY <1>10, <1>11
    <3>2. \A k \in DOMAIN book \ {item.key} : k \in DOMAIN book' /\ book'[k] = book[k]
      BY <2>2
    <3>3. \A k \in DOMAIN pending' : Backed(k, pending[k].text)'
      BY <1>3, <1>9, <3>1, <3>2, PendingStays
    <3> QED
      BY <1>4, <1>11, <3>3 DEF BookInv
  <2>5. UnsentIsShown'
    <3>1. \A t : Waits(t) => Waits(t)' \/ t \in marks'
      BY <1>4, <1>10, <1>11, <2>2 DEF Waits, p
    <3> QED
      BY <1>1, <1>3, <1>9, <2>2, <3>1, StaysShown
  <2> QED
    BY <1>8, <1>10, <1>11, <2>2, <2>3, <2>4, <2>5 DEF QueueInv
<1>12. CASE /\ UNCHANGED <<book, marks, saved, pending, stage, job>>
            /\ flush' = [taken |-> rest, retry |-> Append(flush.retry, item)]
  <2>1. /\ Append(flush.retry, item) \in Seq(Item) /\ Distinct(Append(flush.retry, item))
        /\ Keys(Append(flush.retry, item)) = Keys(flush.retry) \cup {item.key}
    BY <1>3, <1>4, <1>5, <1>6, AppendedKeys DEF Slots
  <2>2. ListTypes'
    <3>1. flush' \in [taken : Seq(Item), retry : Seq(Item)]
      BY <1>5, <1>12, <2>1
    <3> QED
      BY <1>1, <1>3, <1>12, <3>1 DEF ListTypes
  <2>3. Slots'
    <3>1. flush'.taken = rest /\ flush'.retry = Append(flush.retry, item)
      BY <1>12
    <3> QED
      BY <1>1, <1>3, <1>5, <1>6, <1>12, <2>1, <3>1 DEF Slots
  <2>4. BookTypes' /\ JobTypes' /\ OutInv' /\ FlushIdle'
    BY <1>1, <1>3, <1>4, <1>12 DEF BookTypes, JobTypes, OutInv, FlushIdle
  <2>5. BookInv'
    BY <1>1, <1>3, <1>4, <1>12 DEF BookInv, Backed
  <2>6. UnsentIsShown'
    BY <1>1, <1>3, <1>12 DEF UnsentIsShown, OnTheWire, Waits
  <2> QED
    BY <1>8, <2>2, <2>3, <2>4, <2>5, <2>6 DEF QueueInv
<1>13. CASE /\ UNCHANGED <<book, marks, saved>> /\ pending' = Without(pending, {item.key})
            /\ flush' = [flush EXCEPT !.taken = rest] /\ Entries(p) # {}
            /\ job' = Job(item, p, Entries(p)) /\ stage' = "send"
  <2>1. /\ job' \in SendJob /\ job' # None /\ job'.item = item /\ job'.what = p
        /\ DOMAIN job'.sealed = Entries(p) /\ job'.out = {}
    <3>1. Entries(p) \in SUBSET Ready
      BY DEF Entries
    <3> QED
      BY <1>5, <1>7, <1>13, <3>1, JobIsTyped
  <2>2. item # None
    BY <1>5, NoneIsApart
  <2>3. BookTypes' /\ JobTypes' /\ OutInv' /\ FlushIdle'
    BY <1>3, <1>13, <2>1, <2>2 DEF BookTypes, JobTypes, OutInv, FlushIdle
  <2>4. BookInv'
    <3>1. \A k \in DOMAIN pending' : k \in DOMAIN pending \ {item.key} /\ pending'[k] = pending[k]
      BY <1>10, <1>13
    <3>2. \A k \in DOMAIN book \ {item.key} : k \in DOMAIN book' /\ book'[k] = book[k]
      BY <1>13
    <3>3. \A k \in DOMAIN pending' : Backed(k, pending[k].text)'
      BY <1>3, <1>9, <3>1, <3>2, PendingStays
    <3>4. Backed(job.item.key, job.what.text)'
      BY <1>1, <1>7, <1>13, <2>1 DEF Backed
    <3>5. job'.item.key \notin DOMAIN pending'
      BY <2>1, <3>1
    <3> QED
      BY <3>3, <3>4, <3>5 DEF BookInv
  <2>5. UnsentIsShown'
    <3>1. \A t : Waits(t) => Waits(t)'
      BY <1>4, <1>10, <1>13, <2>1, <2>2 DEF Waits, p
    <3> QED
      BY <1>1, <1>3, <1>9, <1>13, <3>1, StaysShown
  <2> QED
    BY <1>8, <1>10, <1>13, <2>3, <2>4, <2>5 DEF QueueInv
<1> QED
  BY <1>2, <1>11, <1>12, <1>13

\* flush_queue, the end.
LEMMA FlushEndKeeps ==
    ASSUME OlmInv, QueueInv, FlushEnd
    PROVE  QueueInv'
<1>1. /\ stage = "flush" /\ flush.taken = << >> /\ queue' = flush.retry \o queue
      /\ wanted' = (wanted \/ queue' # << >>) /\ flush' = NoFlush /\ stage' = "keys"
      /\ UNCHANGED <<pending, book, sent, marks, saved, rows, job, wire, copied, typed, lost, next,
                     sessions, keyreq, rekey>>
  BY DEF FlushEnd, disk, ghost, limits
<1>2. JobTypes /\ ListTypes /\ BookTypes /\ SentTypes /\ GhostTypes /\ Slots /\ FlushIdle
      /\ BookInv /\ OutInv /\ UnsentIsShown
  BY DEF QueueInv
<1>3. job = None /\ flush.retry \in Seq(Item) /\ queue \in Seq(Item)
  BY <1>1, <1>2 DEF JobTypes, ListTypes
<1>4. /\ flush.retry \o queue \in Seq(Item) /\ Distinct(flush.retry \o queue)
      /\ Keys(flush.retry \o queue) = Keys(flush.retry) \cup Keys(queue)
  BY <1>2, <1>3, JoinedKeys DEF Slots
<1>5. NoFlush.taken = << >> /\ NoFlush.retry = << >> /\ NoFlush \in [taken : Seq(Item), retry : Seq(Item)]
  BY NoKeys DEF NoFlush
<1>6. ListTypes'
  BY <1>1, <1>2, <1>4, <1>5 DEF ListTypes
<1>7. Slots'
  BY <1>1, <1>2, <1>4, <1>5, NoKeys DEF Slots
<1>8. BookTypes' /\ SentTypes' /\ JobTypes' /\ OutInv' /\ FlushIdle' /\ BookInv'
  BY <1>1, <1>2, <1>3 DEF BookTypes, SentTypes, JobTypes, OutInv, FlushIdle, BookInv, Backed
<1>9. GhostTypes'
  BY <1>1, <1>2 DEF GhostTypes
<1>10. UnsentIsShown'
  BY <1>1, <1>2 DEF UnsentIsShown, OnTheWire, Waits
<1> QED
  BY <1>6, <1>7, <1>8, <1>9, <1>10 DEF QueueInv

-----------------------------------------------------------------------------
(* The other steps keep the queue, the book and the rows. *)

LEMMA PendingBacked ==
    ASSUME BookInv, NEW k \in DOMAIN pending
    PROVE  /\ k \in DOMAIN book /\ book[k].status = "pending" /\ book[k].row = pending[k].text
           /\ k \notin DOMAIN wire /\ k < next
<1>1. Backed(k, pending[k].text)
  BY DEF BookInv
<1> QED
  BY <1>1 DEF Backed

\* A text enters the queue.
LEMMA PushKeeps ==
    ASSUME OlmInv, QueueInv, stage = "idle", stage' = "settle", NEW p \in PendingText,
           queue' = Pushed(next), book' = Started(book, next, p.text),
           pending' = Put(pending, next, p), next' = next + 1, rows \subseteq rows',
           rows' \subseteq rows \cup {p.text}, UNCHANGED <<marks, saved, flush, job, wire, lost>>,
           SentTypes', GhostTypes'
    PROVE  QueueInv'
<1>1. JobTypes /\ ListTypes /\ BookTypes /\ Slots /\ FlushIdle /\ BookInv /\ UnsentIsShown
  BY DEF QueueInv
<1>2. job = None /\ flush = NoFlush
  BY <1>1 DEF JobTypes, FlushIdle
<1>3. next \in SendKey /\ next \in Nat /\ next \notin DOMAIN wire
  BY DEF OlmInv, OlmTypes, SendKey
<1>4. next \notin DOMAIN pending
  <2>1. \A k \in DOMAIN pending : k < next
    BY <1>1, PendingBacked
  <2> QED
    BY <1>3, <2>1
<1> DEFINE item == [key |-> next, left |-> QueueTTL]
<1>5. item \in Item /\ item.key = next
  BY <1>3, SendConstants DEF Item
<1>6. queue' = Append(queue, item)
  BY DEF Pushed
<1> HIDE DEF item
<1>7. queue' \in Seq(Item) /\ Distinct(queue') /\ Keys(queue') = Keys(queue) \cup {next}
  <2>1. queue \in Seq(Item) /\ Distinct(queue) /\ next \notin Keys(queue)
    BY <1>1, <1>4 DEF ListTypes, Slots
  <2> QED
    BY <1>5, <1>6, <2>1, AppendedKeys
<1>8. /\ DOMAIN pending' = DOMAIN pending \cup {next} /\ pending'[next] = p
      /\ \A k \in DOMAIN pending : pending'[k] = pending[k]
  BY <1>4 DEF Put
<1>9. /\ DOMAIN book' = DOMAIN book \cup {next}
      /\ book'[next] = [row |-> p.text, status |-> "pending"]
      /\ \A k \in DOMAIN book \ {next} : book'[k] = book[k]
  BY DEF Started, Put
<1>10. ListTypes'
  BY <1>1, <1>3, <1>7, <1>8 DEF ListTypes
<1>11. Slots'
  <2>1. Keys(flush.taken) = {} /\ Keys(flush.retry) = {}
    BY <1>2, NoKeys DEF NoFlush
  <2> QED
    BY <1>1, <1>7, <1>8, <2>1 DEF Slots
<1>12. BookTypes'
  <2>1. book'[next] \in [row : Text, status : {"pending", "accepted", "dropped"}]
    BY <1>9 DEF PendingText
  <2> QED
    BY <1>1, <1>3, <1>9, <2>1 DEF BookTypes
<1>13. JobTypes' /\ OutInv' /\ FlushIdle'
  BY <1>2 DEF JobTypes, OutInv, FlushIdle
<1>14. WireGrows
  BY WireSame
<1>15. BookInv'
  <2>1. next < next' /\ pending'[next].text = p.text
    BY <1>3, <1>8
  <2>2. \A k \in DOMAIN pending' : \/ k \in DOMAIN pending \ {next} /\ pending'[k] = pending[k]
                                   \/ Backed(k, pending[k].text)'
    BY <1>3, <1>4, <1>8, <1>9, <2>1 DEF Backed
  <2>3. \A k \in DOMAIN book \ {next} : k \in DOMAIN book' /\ book'[k] = book[k]
    BY <1>9
  <2>4. \A k \in DOMAIN pending' : Backed(k, pending[k].text)'
    BY <1>1, <1>14, <2>2, <2>3, PendingStays
  <2> QED
    BY <1>2, <2>4 DEF BookInv
<1>16. UnsentIsShown'
  <2>1. \A t : Waits(t) => Waits(t)'
    BY <1>2, <1>8 DEF Waits
  <2>2. \A t : t = p.text => Waits(t)'
    BY <1>8 DEF Waits
  <2> QED
    BY <1>1, <1>14, <2>1, <2>2, StaysShown
<1> QED
  BY <1>10, <1>11, <1>12, <1>13, <1>15, <1>16 DEF QueueInv

\* Drops that change no waiting send.
LEMMA DropKeeps ==
    ASSUME OlmInv, QueueInv, stage = "idle", stage' \in {"idle", "settle"},
           NEW ks, ks \cap DOMAIN pending = {}, NEW ok \in BOOLEAN,
           NoteDrops(ks, ok) \/ UNCHANGED <<book, marks, saved>>,
           UNCHANGED <<queue, pending, flush, job, wire, lost, rows>>,
           next' = next \/ next' = next + 1, SentTypes', GhostTypes'
    PROVE  QueueInv'
<1>1. JobTypes /\ ListTypes /\ BookTypes /\ Slots /\ FlushIdle /\ BookInv /\ UnsentIsShown
  BY DEF QueueInv
<1>2. job = None /\ flush = NoFlush
  BY <1>1 DEF JobTypes, FlushIdle
<1>3. /\ BookTypes' /\ DOMAIN book' = DOMAIN book /\ marks \subseteq marks'
      /\ \A k \in DOMAIN book : k \notin ks => book'[k] = book[k]
  <2>1. CASE NoteDrops(ks, ok)
    BY <1>1, <2>1, DropsNoted
  <2>2. CASE UNCHANGED <<book, marks, saved>>
    BY <1>1, <2>2 DEF BookTypes
  <2> QED
    BY <2>1, <2>2
<1>4. ListTypes' /\ Slots'
  BY <1>1 DEF ListTypes, Slots
<1>5. JobTypes' /\ OutInv' /\ FlushIdle'
  BY <1>2 DEF JobTypes, OutInv, FlushIdle
<1>6. WireGrows
  BY WireSame
<1>7. BookInv'
  <2>1. \A k \in DOMAIN pending' : k \in DOMAIN pending \ ks /\ pending'[k] = pending[k]
    OBVIOUS
  <2>2. \A k \in DOMAIN book \ ks : k \in DOMAIN book' /\ book'[k] = book[k]
    BY <1>3
  <2>3. \A k \in DOMAIN pending' : Backed(k, pending[k].text)'
    BY <1>1, <1>6, <2>1, <2>2, PendingStays
  <2> QED
    BY <1>2, <2>3 DEF BookInv
<1>8. UnsentIsShown'
  <2>1. \A t : Waits(t) => Waits(t)'
    BY DEF Waits
  <2> QED
    BY <1>1, <1>3, <1>6, <2>1, StaysShown
<1> QED
  BY <1>3, <1>4, <1>5, <1>7, <1>8 DEF QueueInv

\* Everything that waits is dropped.
LEMMA ClearKeeps ==
    ASSUME OlmInv, QueueInv, stage = "idle", stage' = "idle",
           NEW ks, DOMAIN pending \subseteq ks, NEW ok \in BOOLEAN, NoteDrops(ks, ok),
           queue' \in Seq(Item), Keys(queue') = {}, Distinct(queue'), pending' = << >>,
           UNCHANGED <<flush, job, wire, lost, rows, next>>, SentTypes', GhostTypes'
    PROVE  QueueInv'
<1>1. JobTypes /\ ListTypes /\ BookTypes /\ Slots /\ FlushIdle /\ BookInv /\ UnsentIsShown
  BY DEF QueueInv
<1>2. job = None /\ flush = NoFlush /\ DOMAIN pending' = {}
  BY <1>1 DEF JobTypes, FlushIdle
<1>3. /\ BookTypes' /\ DOMAIN book' = DOMAIN book /\ marks \subseteq marks'
      /\ \A k \in DOMAIN book : k \in ks /\ book[k].status = "pending" => book[k].row \in marks'
  BY <1>1, DropsNoted
<1>4. ListTypes'
  BY <1>1, <1>2 DEF ListTypes
<1>5. Slots'
  <2>1. Keys(flush.taken) = {} /\ Keys(flush.retry) = {}
    BY <1>2, NoKeys DEF NoFlush
  <2> QED
    BY <1>1, <1>2, <2>1 DEF Slots
<1>6. JobTypes' /\ OutInv' /\ FlushIdle' /\ BookInv'
  BY <1>2 DEF JobTypes, OutInv, FlushIdle, BookInv
<1>7. WireGrows
  BY WireSame
<1>8. UnsentIsShown'
  <2>1. \A k \in DOMAIN pending : pending[k].text \in marks'
    BY <1>1, <1>3, PendingBacked
  <2>2. \A t : Waits(t) => t \in marks'
    BY <1>2, <2>1 DEF Waits
  <2> QED
    BY <1>1, <1>3, <1>7, <2>2, StaysShown
<1> QED
  BY <1>3, <1>4, <1>5, <1>6, <1>8 DEF QueueInv

\* The memory for a re-send only loses records, and devices of them.
SentFewer ==
    /\ DOMAIN sent' \subseteq DOMAIN sent
    /\ \A m \in DOMAIN sent' :
          /\ sent'[m] \in SentRecord /\ sent'[m].text = sent[m].text
          /\ sent'[m].sends = sent[m].sends /\ sent'[m].dids \subseteq sent[m].dids

LEMMA NackFewer ==
    ASSUME SentTypes, NEW m, NEW from, NEW s, s = Trimmed(sent),
           \/ sent' = s
           \/ sent' = Without(s, {m})
           \/ m \in DOMAIN s /\ sent' = NackUsed(s, m, from)
    PROVE  SentFewer
<1>1. DOMAIN s \subseteq DOMAIN sent /\ \A x \in DOMAIN s : s[x] = sent[x] /\ s[x] \in SentRecord
  BY TrimmedFields DEF SentTypes
<1>2. \A x \in DOMAIN sent' : x \in DOMAIN s
  BY DEF Without, NackUsed
<1>3. ASSUME NEW x \in DOMAIN sent'
      PROVE  sent'[x] = s[x] \/ sent'[x] = [s[x] EXCEPT !.dids = @ \ {from}]
  <2>1. CASE sent' = s
    BY <2>1
  <2>2. CASE sent' = Without(s, {m})
    BY <2>2 DEF Without
  <2>3. CASE m \in DOMAIN s /\ sent' = NackUsed(s, m, from)
    <3>1. CASE s[m].dids = {from}
      BY <2>3, <3>1 DEF NackUsed, Without
    <3>2. CASE s[m].dids # {from}
      <4>1. sent' = [s EXCEPT ![m].dids = @ \ {from}]
        BY <2>3, <3>2 DEF NackUsed
      <4> QED
        BY <1>2, <4>1
    <3> QED
      BY <3>1, <3>2
  <2> QED
    BY <2>1, <2>2, <2>3
<1>4. ASSUME NEW r \in SentRecord
      PROVE  /\ [r EXCEPT !.dids = @ \ {from}] \in SentRecord
             /\ [r EXCEPT !.dids = @ \ {from}].text = r.text
             /\ [r EXCEPT !.dids = @ \ {from}].sends = r.sends
             /\ [r EXCEPT !.dids = @ \ {from}].dids \subseteq r.dids
  BY DEF SentRecord
<1>5. ASSUME NEW x \in DOMAIN sent'
      PROVE  /\ sent'[x] \in SentRecord /\ sent'[x].text = sent[x].text
             /\ sent'[x].sends = sent[x].sends /\ sent'[x].dids \subseteq sent[x].dids
  <2>1. s[x] \in SentRecord /\ s[x] = sent[x]
    BY <1>1, <1>2
  <2>2. CASE sent'[x] = s[x]
    BY <2>1, <2>2
  <2>3. CASE sent'[x] = [s[x] EXCEPT !.dids = @ \ {from}]
    BY <1>4, <2>1, <2>3
  <2> QED
    BY <1>3, <2>2, <2>3
<1> QED
  BY <1>1, <1>2, <1>5 DEF SentFewer

LEMMA FewerTyped ==
    ASSUME SentTypes, SentFewer, UNCHANGED wire
    PROVE  SentTypes'
  BY DEF SentTypes, SentFewer

LEMMA SendOrQueueKeeps ==
    ASSUME OlmInv, QueueInv, NEW t \in Text, SendOrQueue(t)
    PROVE  QueueInv'
<1>1. /\ stage = "idle" /\ typed' = typed \cup {t}
      /\ UNCHANGED <<sent, marks, keyreq, rekey, saved, flush, wire, copied, lost, sessions>>
  BY DEF SendOrQueue
<1>2. SentTypes /\ GhostTypes /\ JobTypes /\ FlushIdle
  BY DEF QueueInv
<1>3. job = None /\ flush = NoFlush
  BY <1>1, <1>2 DEF JobTypes, FlushIdle
<1>4. SentTypes'
  BY <1>1, <1>2 DEF SentTypes
<1>5. Waiting(t, 1, None) \in PendingText /\ Waiting(t, 1, None).text = t
  BY SendConstants DEF Waiting, PendingText
<1>6. CASE Ready = {}
  <2>1. QueueText(t) /\ stage' = "settle" /\ job' = job
    BY <1>6 DEF SendOrQueue
  <2>2. CASE /\ queue' = Pushed(next) /\ rows' = rows \cup {t} /\ book' = Started(book, next, t)
             /\ pending' = Put(pending, next, Waiting(t, 1, None)) /\ next' = next + 1
             /\ wanted' = TRUE
    <3>1. GhostTypes'
      BY <1>1, <1>2, <2>2 DEF GhostTypes
    <3> QED
      BY <1>1, <1>4, <1>5, <2>1, <2>2, <3>1, PushKeeps
  <2>3. CASE UNCHANGED <<queue, pending, book, wanted, rows>> /\ (next' = next \/ next' = next + 1)
    <3>1. GhostTypes'
      BY <1>1, <1>2, <2>3 DEF GhostTypes
    <3>2. {} \cap DOMAIN pending = {} /\ TRUE \in BOOLEAN
      OBVIOUS
    <3> QED
      BY <1>1, <1>4, <2>1, <2>3, <3>1, <3>2, DropKeeps
  <2> QED
    BY <2>1, <2>2, <2>3 DEF QueueText, waiting
<1>7. CASE Ready # {}
  <2>1. /\ job' = Job(None, Waiting(t, 1, None), Ready) /\ stage' = "send"
        /\ UNCHANGED <<queue, pending, book, wanted, rows, next>>
    BY <1>7 DEF SendOrQueue, waiting
  <2>2. /\ job' \in SendJob /\ job' # None /\ job'.item = None
        /\ DOMAIN job'.sealed = Ready /\ job'.out = {}
    <3>1. Ready \in SUBSET Ready /\ None \in Item \cup {None}
      OBVIOUS
    <3> QED
      BY <1>5, <2>1, <3>1, JobIsTyped
  <2>3. ListTypes' /\ BookTypes' /\ GhostTypes' /\ Slots'
    BY <1>1, <2>1 DEF QueueInv, ListTypes, BookTypes, GhostTypes, Slots
  <2>4. JobTypes' /\ FlushIdle' /\ OutInv'
    BY <1>1, <1>3, <1>7, <2>1, <2>2 DEF JobTypes, FlushIdle, OutInv
  <2>5. BookInv' /\ UnsentIsShown'
    BY <1>1, <1>3, <2>1, <2>2 DEF QueueInv, BookInv, Backed, UnsentIsShown, OnTheWire, Waits
  <2> QED
    BY <1>4, <2>3, <2>4, <2>5 DEF QueueInv
<1> QED
  BY <1>6, <1>7

LEMMA OnNackKeeps ==
    ASSUME OlmInv, QueueInv, NEW m \in DOMAIN wire, NEW from, OnNack(m, from)
    PROVE  QueueInv' /\ SentFewer
<1> DEFINE s == Trimmed(sent)
<1>1. /\ stage = "idle" /\ stage' = "settle"
      /\ UNCHANGED <<keyreq, rows, flush, job, wire, copied, typed, lost, sessions>>
  BY DEF OnNack, ghost
<1>2. \E ok \in BOOLEAN :
         \/ /\ sent' = s
            /\ UNCHANGED <<queue, pending, wanted, rekey, book, marks, saved, next>>
         \/ /\ sent' = Without(s, {m}) /\ NoteDrops({m}, ok)
            /\ UNCHANGED <<queue, pending, wanted, rekey, next>>
         \/ /\ m \in DOMAIN s /\ sent' = NackUsed(s, m, from)
            /\ rekey' = rekey \/ rekey' = RekeyInterval
            /\ NoteDrops({m}, ok) /\ UNCHANGED <<queue, pending, wanted, next>>
         \/ /\ m \in DOMAIN s /\ sent' = NackUsed(s, m, from) /\ from \in s[m].dids /\ ~Spent(s[m])
            /\ Requeue(m, s[m], from, ok)
  BY DEF OnNack, waiting
<1>3. SentTypes /\ GhostTypes /\ JobTypes /\ FlushIdle /\ BookInv
  BY DEF QueueInv
<1>4. SentFewer
  <2>1. \/ sent' = s
        \/ sent' = Without(s, {m})
        \/ m \in DOMAIN s /\ sent' = NackUsed(s, m, from)
    BY <1>2
  <2> QED
    BY <1>3, <2>1, NackFewer
<1>5. SentTypes'
  BY <1>1, <1>3, <1>4, FewerTyped
<1>6. {m} \cap DOMAIN pending = {}
  BY <1>3, PendingBacked
<1>7. RekeyInterval \in Nat
  BY SendConstants
<1>8. PICK ok \in BOOLEAN :
         \/ /\ sent' = s
            /\ UNCHANGED <<queue, pending, wanted, rekey, book, marks, saved, next>>
         \/ /\ sent' = Without(s, {m}) /\ NoteDrops({m}, ok)
            /\ UNCHANGED <<queue, pending, wanted, rekey, next>>
         \/ /\ m \in DOMAIN s /\ sent' = NackUsed(s, m, from)
            /\ rekey' = rekey \/ rekey' = RekeyInterval
            /\ NoteDrops({m}, ok) /\ UNCHANGED <<queue, pending, wanted, next>>
         \/ /\ m \in DOMAIN s /\ sent' = NackUsed(s, m, from) /\ from \in s[m].dids /\ ~Spent(s[m])
            /\ Requeue(m, s[m], from, ok)
  BY <1>2
<1>9. m \in DOMAIN s => s[m] = sent[m] /\ m \in DOMAIN sent /\ sent[m] \in SentRecord
  BY <1>3, TrimmedFields DEF SentTypes
<1> HIDE DEF s
<1>10. CASE /\ NoteDrops({m}, ok) \/ UNCHANGED <<book, marks, saved>>
            /\ UNCHANGED <<queue, pending, wanted>> /\ (rekey' = rekey \/ rekey' = RekeyInterval)
            /\ (next' = next \/ next' = next + 1)
  <2>1. GhostTypes'
    BY <1>1, <1>3, <1>7, <1>10 DEF GhostTypes
  <2> QED
    BY <1>1, <1>4, <1>5, <1>6, <1>10, <2>1, DropKeeps
<1>11. CASE m \in DOMAIN s /\ from \in s[m].dids /\ ~Spent(s[m]) /\ Requeue(m, s[m], from, ok)
  <2>1. CASE Len(queue) >= QueueMax
    <3>1. /\ NoteDrops({m}, ok) /\ UNCHANGED <<queue, pending, wanted>> /\ rekey' = RekeyInterval
          /\ next' = next + 1
      BY <1>11, <2>1 DEF Requeue, waiting
    <3> QED
      BY <1>10, <3>1
  <2>2. CASE ~(Len(queue) >= QueueMax)
    <3> DEFINE p == Waiting(s[m].text, s[m].sends + 1, from)
    <3>1. /\ queue' = Pushed(next) /\ book' = Started(book, next, s[m].text)
          /\ pending' = Put(pending, next, p) /\ next' = next + 1 /\ rekey' = RekeyInterval
          /\ wanted' = TRUE /\ UNCHANGED <<marks, saved>>
      BY <1>11, <2>2 DEF Requeue
    <3>2. p \in PendingText /\ p.text = s[m].text
      <4>1. s[m].text \in Text /\ s[m].sends \in 1 .. MaxSends /\ s[m].dids \subseteq Device
        BY <1>9, <1>11 DEF SentRecord
      <4>2. s[m].sends + 1 \in 1 .. MaxSends
        BY <1>11, <4>1, SendConstants DEF Spent
      <4> QED
        BY <1>11, <4>1, <4>2 DEF Waiting, PendingText
    <3>3. GhostTypes'
      BY <1>1, <1>3, <1>7, <3>1 DEF GhostTypes
    <3> HIDE DEF p
    <3> QED
      BY <1>1, <1>4, <1>5, <3>1, <3>2, <3>3, PushKeeps
  <2> QED
    BY <2>1, <2>2
<1> QED
  BY <1>8, <1>10, <1>11

LEMMA OtherDropsKeep ==
    ASSUME OlmInv, QueueInv, (\E k \in DOMAIN wire : SendDropped(k)) \/ NoSuchNick \/ EndSession
    PROVE  QueueInv'
<1>1. JobTypes /\ ListTypes /\ SentTypes /\ GhostTypes /\ Slots /\ FlushIdle /\ BookInv
  BY DEF QueueInv
<1>2. CASE \E k \in DOMAIN wire : SendDropped(k)
  <2>1. PICK k \in DOMAIN wire : SendDropped(k)
    BY <1>2
  <2>2. /\ stage = "idle" /\ (\E ok \in BOOLEAN : NoteDrops({k}, ok))
        /\ UNCHANGED <<queue, pending, sent, wanted, keyreq, rekey, rows, stage, flush, job, wire,
                       copied, typed, lost, next, sessions>>
    BY <2>1 DEF SendDropped, waiting, worker, ghost
  <2>3. PICK ok \in BOOLEAN : NoteDrops({k}, ok)
    BY <2>2
  <2>4. SentTypes' /\ GhostTypes'
    BY <1>1, <2>2 DEF SentTypes, GhostTypes
  <2>5. {k} \cap DOMAIN pending = {}
    BY <1>1, PendingBacked
  <2> QED
    BY <2>2, <2>3, <2>4, <2>5, DropKeeps
<1>3. CASE NoSuchNick
  <2> DEFINE at == {i \in DOMAIN queue : queue[i].key \notin DOMAIN pending}
  <2>1. /\ stage = "idle" /\ (\E ok \in BOOLEAN : NoteDrops(DOMAIN pending, ok))
        /\ keyreq' = 0 /\ rekey' = 0 /\ wanted' = FALSE /\ pending' = << >>
        /\ queue' = Retained(queue, at)
        /\ UNCHANGED <<sent, rows, stage, flush, job, wire, copied, typed, lost, next, sessions>>
    BY <1>3 DEF NoSuchNick, worker, ghost
  <2>2. PICK ok \in BOOLEAN : NoteDrops(DOMAIN pending, ok)
    BY <2>1
  <2>3. at = {}
    BY <1>1 DEF Slots, Keys
  <2>4. queue' \in Seq(Item) /\ Distinct(queue') /\ Keys(queue') = {}
    <3>1. queue \in Seq(Item) /\ Distinct(queue) /\ at \in SUBSET DOMAIN queue
      BY <1>1 DEF ListTypes, Slots
    <3>2. Keys(Retained(queue, at)) = {queue[i].key : i \in at}
      BY <3>1, RetainedKeys
    <3>3. Retained(queue, at) \in Seq(Item) /\ Distinct(Retained(queue, at))
      BY <3>1, RetainedKeys
    <3> HIDE DEF at
    <3> QED
      BY <2>1, <2>3, <3>2, <3>3
  <2>5. SentTypes' /\ GhostTypes'
    BY <1>1, <2>1 DEF SentTypes, GhostTypes
  <2> HIDE DEF at
  <2> QED
    BY <2>1, <2>2, <2>4, <2>5, ClearKeeps
<1>4. CASE EndSession
  <2>1. /\ stage = "idle" /\ (\E ok \in BOOLEAN : NoteDrops(DOMAIN book, ok))
        /\ queue' = << >> /\ pending' = << >> /\ sent' = << >>
        /\ UNCHANGED <<rows, stage, flush, job, wire, copied, typed, lost, next, sessions, wanted,
                       keyreq, rekey>>
    BY <1>4 DEF EndSession, worker, ghost
  <2>2. PICK ok \in BOOLEAN : NoteDrops(DOMAIN book, ok)
    BY <2>1
  <2>3. DOMAIN pending \subseteq DOMAIN book
    BY <1>1, PendingBacked
  <2>4. SentTypes' /\ GhostTypes'
    BY <1>1, <2>1 DEF SentTypes, GhostTypes
  <2>5. queue' \in Seq(Item) /\ Distinct(queue') /\ Keys(queue') = {}
    BY <2>1, NoKeys
  <2> QED
    BY <2>1, <2>2, <2>3, <2>4, <2>5, ClearKeeps
<1> QED
  BY <1>2, <1>3, <1>4

LEMMA QuietStepsKeep ==
    ASSUME OlmInv, OlmInv', QueueInv,
           RequestKeys \/ TickEngines \/ (\E d \in Device : KeysRow(d) \/ PeerMessage(d))
    PROVE  QueueInv'
<1>1. GhostTypes /\ sessions \in Nat
  BY DEF QueueInv, OlmInv, OlmTypes
<1>2. /\ stage \in {"idle", "settle", "keys"} /\ stage' \in {"idle", "settle", "keys"}
      /\ UNCHANGED <<queue, pending, flush, job, book, marks, saved, rows, sent, ghost, next, rekey>>
  BY DEF RequestKeys, TickEngines, KeysRow, PeerMessage, waiting, engine, disk
<1>3. wanted' \in BOOLEAN /\ keyreq' \in Nat /\ rekey' \in Nat
  BY <1>1, SendConstants
     DEF RequestKeys, TickEngines, KeysRow, PeerMessage, engine, GhostTypes
<1>4. sessions' <= MaxSessions
  <2>1. sessions' = sessions \/ (sessions < MaxSessions /\ sessions' = sessions + 1)
    BY DEF RequestKeys, TickEngines, KeysRow, PeerMessage, limits
  <2> QED
    BY <1>1, <2>1, SendConstants DEF GhostTypes
<1> QED
  BY <1>2, <1>3, <1>4, QuietQueue

\* Time passes.
LEMMA TickKeeps ==
    ASSUME OlmInv, QueueInv, Tick
    PROVE  QueueInv'
<1>1. /\ queue' = Aged(queue)
      /\ flush' = [taken |-> Aged(flush.taken), retry |-> Aged(flush.retry)]
      /\ job' = IF job = None THEN None
                ELSE IF job.item = None THEN job ELSE [job EXCEPT !.item.left = Sooner(@)]
      /\ sent' = [m \in DOMAIN sent |-> [sent[m] EXCEPT !.left = Sooner(@)]]
      /\ keyreq' = Sooner(keyreq) /\ rekey' = Sooner(rekey)
      /\ UNCHANGED <<pending, book, marks, saved, rows, wanted, stage, wire, copied, typed, lost,
                     next, sessions>>
  BY DEF Tick, disk, ghost, limits
<1>2. JobTypes /\ ListTypes /\ BookTypes /\ SentTypes /\ GhostTypes /\ Slots /\ FlushIdle
      /\ BookInv /\ OutInv /\ UnsentIsShown
  BY DEF QueueInv
<1>3. queue \in Seq(Item) /\ flush.taken \in Seq(Item) /\ flush.retry \in Seq(Item)
  BY <1>2 DEF ListTypes
<1>4. \A n \in Nat : Sooner(n) \in Nat
  BY DEF Sooner
<1>5. ListTypes'
  <2>1. queue' \in Seq(Item) /\ flush' \in [taken : Seq(Item), retry : Seq(Item)]
    BY <1>1, <1>3, AgedKeys
  <2> QED
    BY <1>1, <1>2, <2>1 DEF ListTypes
<1>6. Slots'
  <2>1. flush'.taken = Aged(flush.taken) /\ flush'.retry = Aged(flush.retry)
    BY <1>1
  <2> QED
    BY <1>1, <1>2, <1>3, <2>1, AgedKeys DEF Slots
<1>7. BookTypes'
  BY <1>1, <1>2 DEF BookTypes
<1>8. SentTypes'
  <2>1. ASSUME NEW r \in SentRecord PROVE [r EXCEPT !.left = Sooner(@)] \in SentRecord
    BY <1>4 DEF SentRecord
  <2>2. \A m \in DOMAIN sent : sent'[m] = [sent[m] EXCEPT !.left = Sooner(@)]
    BY <1>1
  <2>3. DOMAIN sent' = DOMAIN sent
    BY <1>1
  <2> QED
    BY <1>1, <1>2, <2>1, <2>2, <2>3 DEF SentTypes
<1>9. GhostTypes'
  BY <1>1, <1>2, <1>4 DEF GhostTypes
<1>10. job # None =>
          /\ job' \in SendJob /\ job' # None /\ job'.what = job.what /\ job'.sealed = job.sealed
          /\ job'.out = job.out /\ (job'.item = None <=> job.item = None)
          /\ job.item # None => job'.item.key = job.item.key
  <2> SUFFICES ASSUME job # None
               PROVE  /\ job' \in SendJob /\ job' # None /\ job'.what = job.what
                      /\ job'.sealed = job.sealed
                      /\ job'.out = job.out /\ (job'.item = None <=> job.item = None)
                      /\ job.item # None => job'.item.key = job.item.key
    OBVIOUS
  <2>1. job \in SendJob /\ job.item \in Item \cup {None}
    BY <1>2, JobFields
  <2>2. CASE job.item = None
    BY <1>1, <2>1, <2>2, NoneIsApart
  <2>3. CASE job.item # None
    <3> DEFINE i == [job.item EXCEPT !.left = Sooner(@)]
    <3>1. i \in Item /\ i.key = job.item.key
      BY <1>4, <2>1, <2>3 DEF Item
    <3>2. job' = [job EXCEPT !.item = i]
      BY <1>1, <2>1, <2>3
    <3> HIDE DEF i
    <3>3. job' \in SendJob /\ job'.item = i /\ job'.what = job.what /\ job'.sealed = job.sealed
          /\ job'.out = job.out
      BY <2>1, <3>1, <3>2 DEF SendJob
    <3> QED
      BY <2>3, <3>1, <3>3, NoneIsApart
  <2> QED
    BY <2>2, <2>3
<1>11. job = None => job' = None
  BY <1>1
<1>12. JobTypes'
  BY <1>1, <1>2, <1>10, <1>11 DEF JobTypes
<1>13. FlushIdle'
  <2>1. flush = NoFlush => flush' = NoFlush
    <3>1. Aged(<< >>) = << >>
      BY DEF Aged
    <3> QED
      BY <1>1, <3>1 DEF NoFlush
  <2> QED
    BY <1>1, <1>2, <1>10, <1>11, <2>1 DEF FlushIdle
<1>14. BookInv'
  BY <1>1, <1>2, <1>10, <1>11 DEF BookInv, Backed
<1>15. OutInv'
  BY <1>1, <1>2, <1>10, <1>11 DEF OutInv
<1>16. UnsentIsShown'
  BY <1>1, <1>2, <1>10, <1>11 DEF UnsentIsShown, OnTheWire, Waits
<1> QED
  BY <1>5, <1>6, <1>7, <1>8, <1>9, <1>12, <1>13, <1>14, <1>15, <1>16 DEF QueueInv

\* The program stops.
LEMMA RestartKeeps ==
    ASSUME OlmInv, QueueInv, Restart
    PROVE  QueueInv'
<1>1. /\ lost' = lost \cup {pending[k].text : k \in DOMAIN pending} \cup (marks \ saved)
                      \cup (IF job = None \/ job.item = None THEN {} ELSE {job.what.text})
      /\ queue' = << >> /\ pending' = << >> /\ book' = << >> /\ sent' = << >> /\ marks' = saved
      /\ wanted' = FALSE /\ keyreq' = 0 /\ rekey' = 0
      /\ stage' = "idle" /\ flush' = NoFlush /\ job' = None
      /\ UNCHANGED <<rows, saved, wire, copied, typed, next, sessions>>
  BY DEF Restart, disk
<1>2. JobTypes /\ ListTypes /\ BookTypes /\ SentTypes /\ GhostTypes /\ UnsentIsShown
  BY DEF QueueInv
<1>3. job # None => job.what.text \in Text
  BY <1>2, JobFields DEF PendingText
<1>4. DOMAIN pending' = {} /\ DOMAIN book' = {} /\ DOMAIN sent' = {}
  BY <1>1
<1>5. NoFlush.taken = << >> /\ NoFlush.retry = << >> /\ NoFlush \in [taken : Seq(Item), retry : Seq(Item)]
  BY NoKeys DEF NoFlush
<1>6. ListTypes' /\ Slots'
  BY <1>1, <1>4, <1>5, NoKeys DEF ListTypes, Slots
<1>7. BookTypes' /\ SentTypes'
  BY <1>1, <1>2, <1>4 DEF BookTypes, SentTypes
<1>8. GhostTypes'
  <2>1. {pending[k].text : k \in DOMAIN pending} \subseteq Text
    BY <1>2 DEF ListTypes, PendingText
  <2>2. lost' \subseteq Text
    BY <1>1, <1>2, <1>3, <2>1 DEF GhostTypes, BookTypes
  <2> QED
    BY <1>1, <1>2, <2>2 DEF GhostTypes
<1>9. JobTypes' /\ FlushIdle' /\ BookInv' /\ OutInv'
  BY <1>1, <1>4 DEF JobTypes, FlushIdle, BookInv, OutInv
<1>10. UnsentIsShown'
  <2>1. \A t : Waits(t) => t \in lost'
    BY <1>1 DEF Waits
  <2>2. marks \cup lost \subseteq marks' \cup lost'
    BY <1>1
  <2>3. WireGrows
    BY <1>1, WireSame
  <2> QED
    BY <1>1, <1>2, <2>1, <2>2, <2>3, StaysShown
<1> QED
  BY <1>6, <1>7, <1>8, <1>9, <1>10 DEF QueueInv

-----------------------------------------------------------------------------
(* The queue, the book and the rows: the theorems. *)

LEMMA QueueInit ==
    ASSUME Init
    PROVE  QueueInv
<1>1. /\ queue = << >> /\ pending = << >> /\ book = << >> /\ sent = << >> /\ marks = {}
      /\ wanted = FALSE /\ keyreq = 0 /\ rekey = 0 /\ rows = {} /\ saved = {}
      /\ stage = "idle" /\ flush = NoFlush /\ job = None /\ wire = << >>
      /\ copied = [t \in Text |-> 0] /\ typed = {} /\ lost = {} /\ next = 1 /\ sessions = 0
  BY DEF Init
<1>2. DOMAIN pending = {} /\ DOMAIN book = {} /\ DOMAIN sent = {} /\ DOMAIN wire = {}
  BY <1>1
<1>3. NoFlush.taken = << >> /\ NoFlush.retry = << >> /\ NoFlush \in [taken : Seq(Item), retry : Seq(Item)]
  BY NoKeys DEF NoFlush
<1>4. ListTypes /\ Slots
  BY <1>1, <1>2, <1>3, NoKeys DEF ListTypes, Slots
<1>5. BookTypes /\ SentTypes /\ JobTypes /\ FlushIdle /\ BookInv /\ OutInv /\ UnsentIsShown
  BY <1>1, <1>2 DEF BookTypes, SentTypes, JobTypes, FlushIdle, BookInv, OutInv, UnsentIsShown
<1>6. GhostTypes
  <2>1. copied \in [Text -> Nat] /\ 0 <= MaxSessions
    BY <1>1, SendConstants
  <2>2. wanted \in BOOLEAN
    BY <1>1
  <2> QED
    BY <1>1, <1>2, <2>1, <2>2 DEF GhostTypes
<1> QED
  BY <1>4, <1>5, <1>6 DEF QueueInv

LEMMA QueueNext ==
    ASSUME OlmInv, QueueInv, [Next]_vars
    PROVE  QueueInv'
<1>1. OlmInv'
  BY OlmNext
<1>2. CASE EmitStep
  <2>1. PICK c \in SUBSET DOMAIN job.sealed : GoesOn(c) \/ Ends(c)
    BY <1>2, EmitCases
  <2>2. stage = "send" /\ job # None
    BY <1>2, EmitCases
  <2> QED
    BY <2>1, <2>2, GoesOnKeeps, EndsKeeps
<1>3. CASE Deliver \/ Settle \/ FlushItem \/ FlushEnd
  BY <1>3, DeliverKeeps, SettleKeeps, FlushItemKeeps, FlushEndKeeps
<1>4. CASE RequestKeys \/ TickEngines \/ (\E d \in Device : KeysRow(d) \/ PeerMessage(d))
  BY <1>1, <1>4, QuietStepsKeep
<1>5. CASE \E t \in Text : SendOrQueue(t)
  BY <1>5, SendOrQueueKeeps
<1>6. CASE \E m \in DOMAIN wire, from \in Device \cup {Wildcard, Stranger} : OnNack(m, from)
  BY <1>6, OnNackKeeps
<1>7. CASE (\E k \in DOMAIN wire : SendDropped(k)) \/ NoSuchNick \/ EndSession
  BY <1>7, OtherDropsKeep
<1>8. CASE Tick \/ Restart
  BY <1>8, TickKeeps, RestartKeeps
<1>9. CASE UNCHANGED vars
  <2>1. UNCHANGED <<queue, pending, flush, job, book, marks, saved, rows, sent, wire, copied, typed,
                    lost, next, stage, sessions, wanted, keyreq, rekey>>
    BY <1>9 DEF vars, engine, waiting, disk, worker, ghost, limits
  <2>2. ListTypes' /\ BookTypes' /\ SentTypes' /\ GhostTypes' /\ JobTypes'
    BY <2>1 DEF QueueInv, ListTypes, BookTypes, SentTypes, GhostTypes, JobTypes
  <2>3. Slots' /\ FlushIdle' /\ OutInv'
    BY <2>1 DEF QueueInv, Slots, FlushIdle, OutInv
  <2>4. BookInv' /\ UnsentIsShown'
    BY <2>1 DEF QueueInv, BookInv, Backed, UnsentIsShown, OnTheWire, Waits
  <2> QED
    BY <2>2, <2>3, <2>4 DEF QueueInv
<1> QED
  BY <1>2, <1>3, <1>4, <1>5, <1>6, <1>7, <1>8, <1>9 DEF Next, WorkerStep, Event

LEMMA QueueImplies ==
    ASSUME OlmInv, QueueInv
    PROVE  TypeOK /\ SendSound
<1>1. JobTypes /\ ListTypes /\ BookTypes /\ SentTypes /\ GhostTypes /\ Slots /\ BookInv
      /\ UnsentIsShown
  BY DEF QueueInv
<1>2. TypeOK
  <2>1. /\ session \in [Device -> OlmSession] /\ otk \in [Device -> Nat] /\ known \subseteq Device
        /\ next \in SendKey /\ sessions \in 0 .. MaxSessions
        /\ \A m \in DOMAIN wire : wire[m].text \in Text /\ DOMAIN wire[m].body \subseteq Device
    BY <1>1, SendConstants DEF OlmInv, OlmTypes, GhostTypes, SendKey
  <2>2. job # None => /\ job.item \in Item \cup {None} /\ job.what \in PendingText
                      /\ DOMAIN job.sealed \subseteq Device /\ job.out \subseteq Request
    BY <1>1, JobFields
  <2>3. \A m \in DOMAIN sent :
           sent[m] \in [text : Text, sends : 1 .. MaxSends, left : Nat, dids : SUBSET Device]
    BY <1>1 DEF SentTypes, SentRecord
  <2> QED
    BY <1>1, <2>1, <2>2, <2>3 DEF TypeOK, ListTypes, BookTypes, SentTypes, GhostTypes, JobTypes
<1>3. QueueBacked
  <2> DEFINE q == queue \o flush.taken
  <2>1. queue \in Seq(Item) /\ flush.taken \in Seq(Item) /\ flush.retry \in Seq(Item)
    BY <1>1 DEF ListTypes
  <2>2. q \in Seq(Item) /\ Distinct(q) /\ Keys(q) = Keys(queue) \cup Keys(flush.taken)
    BY <1>1, <2>1, JoinedKeys DEF Slots
  <2> HIDE DEF q
  <2>3. /\ Distinct(q \o flush.retry) /\ Keys(q \o flush.retry) = Keys(q) \cup Keys(flush.retry)
    <3>1. Keys(q) \cap Keys(flush.retry) = {} /\ Distinct(flush.retry)
      BY <1>1, <2>2 DEF Slots
    <3> QED
      BY <2>1, <2>2, <3>1, JoinedKeys
  <2>4. Distinct(InQueue) /\ DOMAIN pending = Keys(InQueue)
    BY <1>1, <2>2, <2>3 DEF InQueue, q, Slots
  <2>5. \A k \in DOMAIN pending :
           k \in DOMAIN book /\ book[k] = [row |-> pending[k].text, status |-> "pending"]
    BY <1>1 DEF BookInv, Backed
  <2>6. (job # None /\ job.item # None) =>
           /\ job.item.key \in DOMAIN book \ DOMAIN pending
           /\ book[job.item.key].status = "pending"
    BY <1>1 DEF BookInv, Backed
  <2> QED
    BY <2>4, <2>5, <2>6 DEF QueueBacked, Distinct
<1> QED
  BY <1>1, <1>2, <1>3 DEF SendSound

\* The queue, the book, the memory of the sends and the worker keep their types,
\* and a text is never counted as sent more often than MAX_SENDS (on_nack).
THEOREM SendStaysTyped == Spec => []TypeOK
<1> QED
  BY OlmInit, OlmNext, QueueInit, QueueNext, QueueImplies, PTL DEF Spec

\* The queue, the texts that wait and the book name the same sends through every
\* flush, expiry, NACK, drop event, lost answer and end of the session, and a row
\* that the user sees went out, waits or carries a drop mark, unless the program
\* stopped meanwhile (flush_queue, expire_queue, on_nack, note_drops, end_session).
THEOREM SendStaysSound == Spec => []SendSound
<1> QED
  BY OlmInit, OlmNext, QueueInit, QueueNext, QueueImplies, PTL DEF Spec

-----------------------------------------------------------------------------
(* How often a device gets a text: the steps. *)

\* The messages of a text are finitely many.
LEMMA GotIsFinite ==
    ASSUME OlmInv, NEW t, NEW d
    PROVE  IsFiniteSet(Got(t, d)) /\ Times(t, d) \in Nat
<1>1. next \in Nat /\ DOMAIN wire \subseteq 0 .. next
  BY DEF OlmInv, OlmTypes
<1>2. IsFiniteSet(0 .. next)
  BY <1>1, FS_Interval
<1>3. Got(t, d) \subseteq 0 .. next
  BY <1>1 DEF Got
<1> QED
  BY <1>2, <1>3, FS_Subset, FS_CardinalityType DEF Times

\* Nothing goes out, and what waits, is sent or may come back becomes less.
LEMMA FewerKeeps ==
    ASSUME TimesInv, SentFewer, UNCHANGED <<wire, copied, typed>>,
           DOMAIN pending' \subseteq DOMAIN pending,
           \A k \in DOMAIN pending' : pending'[k] = pending[k],
           job' # None => /\ job # None /\ job'.what = job.what /\ job'.sealed = job.sealed
                          /\ job'.out = job.out
    PROVE  TimesInv'
<1>1. TextsTyped /\ FirstsKnown /\ WaitsApart /\ JobApart /\ TimesFit /\ CopyInv
  BY DEF TimesInv
<1>2. \A t, d : Times(t, d)' = Times(t, d)
  BY DEF Times, Got
<1>3. TextsTyped' /\ FirstsKnown'
  BY <1>1 DEF TextsTyped, FirstsKnown, SentFewer
<1>4. WaitsApart'
  <2>1. \A k, l \in DOMAIN pending' : k # l => Apart(pending'[k], pending'[l])
    BY <1>1 DEF WaitsApart
  <2>2. \A k \in DOMAIN pending', m \in DOMAIN sent' : ApartFrom(pending'[k], sent'[m])
    BY <1>1 DEF WaitsApart, SentFewer, ApartFrom
  <2>3. \A m, x \in DOMAIN sent' : m # x /\ sent'[m].text = sent'[x].text =>
           sent'[m].dids \cap sent'[x].dids = {}
    BY <1>1 DEF WaitsApart, SentFewer
  <2> QED
    BY <2>1, <2>2, <2>3 DEF WaitsApart, Apart, ApartFrom
<1>5. JobApart'
  <2> SUFFICES ASSUME job' # None PROVE JobApart'
    BY DEF JobApart
  <2>1. \A k \in DOMAIN pending' : Apart(pending'[k], job'.what)
    BY <1>1 DEF JobApart
  <2>2. \A m \in DOMAIN sent' : ApartFrom(job'.what, sent'[m])
    BY <1>1 DEF JobApart, SentFewer, ApartFrom
  <2> QED
    BY <1>1, <2>1, <2>2 DEF JobApart, Apart, ApartFrom, Reach
<1>6. TimesFit'
  <2>1. \A k \in DOMAIN pending' : \A d \in Reach(pending'[k]) :
           Times(pending'[k].text, d) < pending'[k].sends
    BY <1>1 DEF TimesFit
  <2>2. \A m \in DOMAIN sent' : \A d \in sent'[m].dids : Times(sent'[m].text, d) <= sent'[m].sends
    BY <1>1 DEF TimesFit, SentFewer
  <2>3. job' # None =>
          /\ \A d \in DOMAIN job'.sealed : Times(job'.what.text, d) < job'.what.sends
          /\ job'.out = {} => \A d \in Reach(job'.what) : Times(job'.what.text, d) < job'.what.sends
          /\ \A o \in job'.out : \A d \in o.dids : Times(job'.what.text, d) <= job'.what.sends
    BY <1>1 DEF TimesFit
  <2>4. \A t \in Text, d \in Device : Times(t, d) <= MaxSends
    BY <1>1 DEF TimesFit
  <2> QED
    BY <2>1, <2>2, <2>3, <2>4 DEF TimesFit, Times, Got, Reach
<1>7. CopyInv'
  BY <1>1 DEF CopyInv, CopiedOnce, OnTheWire
<1> QED
  BY <1>3, <1>4, <1>5, <1>6, <1>7 DEF TimesInv

\* A send starts to wait while no send is in progress.
LEMMA WaitKeeps ==
    ASSUME TimesInv, SentFewer, UNCHANGED <<wire, copied>>, typed \subseteq typed', job' = None,
           NEW k, k \notin DOMAIN pending, NEW p, pending' = Put(pending, k, p),
           IsFirst(p), p.text \in typed', \A l \in DOMAIN pending : Apart(pending[l], p),
           \A m \in DOMAIN sent' : ApartFrom(p, sent'[m]),
           \A d \in Reach(p) : Times(p.text, d) < p.sends,
           p.did = None => copied[p.text] = 0
    PROVE  TimesInv'
<1>1. TextsTyped /\ FirstsKnown /\ WaitsApart /\ TimesFit /\ CopyInv
  BY DEF TimesInv
<1>2. /\ DOMAIN pending' = DOMAIN pending \cup {k} /\ pending'[k] = p
      /\ \A l \in DOMAIN pending : pending'[l] = pending[l]
  BY DEF Put
<1>3. TextsTyped' /\ FirstsKnown'
  BY <1>1, <1>2 DEF TextsTyped, FirstsKnown, SentFewer
<1>4. WaitsApart'
  <2>1. \A l \in DOMAIN pending : Apart(p, pending[l])
    BY DEF Apart
  <2>2. \A i, l \in DOMAIN pending' : i # l => Apart(pending'[i], pending'[l])
    BY <1>1, <1>2, <2>1 DEF WaitsApart
  <2>3. \A l \in DOMAIN pending', m \in DOMAIN sent' : ApartFrom(pending'[l], sent'[m])
    <3>1. \A l \in DOMAIN pending, m \in DOMAIN sent' : ApartFrom(pending[l], sent'[m])
      BY <1>1 DEF WaitsApart, SentFewer, ApartFrom
    <3> QED
      BY <1>2, <3>1
  <2>4. \A m, x \in DOMAIN sent' : m # x /\ sent'[m].text = sent'[x].text =>
           sent'[m].dids \cap sent'[x].dids = {}
    BY <1>1 DEF WaitsApart, SentFewer
  <2> QED
    BY <2>2, <2>3, <2>4 DEF WaitsApart, Apart, ApartFrom
<1>5. JobApart'
  BY DEF JobApart
<1>6. TimesFit'
  <2>1. \A l \in DOMAIN pending' : \A d \in Reach(pending'[l]) :
           Times(pending'[l].text, d) < pending'[l].sends
    BY <1>1, <1>2 DEF TimesFit
  <2>2. \A m \in DOMAIN sent' : \A d \in sent'[m].dids : Times(sent'[m].text, d) <= sent'[m].sends
    BY <1>1 DEF TimesFit, SentFewer
  <2>3. \A t \in Text, d \in Device : Times(t, d) <= MaxSends
    BY <1>1 DEF TimesFit
  <2> QED
    BY <2>1, <2>2, <2>3 DEF TimesFit, Times, Got, Reach
<1>7. CopyInv'
  BY <1>1, <1>2 DEF CopyInv, CopiedOnce, OnTheWire
<1> QED
  BY <1>3, <1>4, <1>5, <1>6, <1>7 DEF TimesInv

\* A send begins.
LEMMA BeginKeeps ==
    ASSUME TimesInv, UNCHANGED <<wire, copied, sent>>, typed \subseteq typed',
           DOMAIN pending' \subseteq DOMAIN pending,
           \A k \in DOMAIN pending' : pending'[k] = pending[k],
           NEW p, job'.what = p, DOMAIN job'.sealed \subseteq Reach(p), job'.out = {},
           IsFirst(p), p.text \in typed', \A l \in DOMAIN pending' : Apart(pending[l], p),
           \A m \in DOMAIN sent : ApartFrom(p, sent[m]),
           \A d \in Reach(p) : Times(p.text, d) < p.sends,
           p.did = None => copied[p.text] = 0
    PROVE  TimesInv'
<1>1. TextsTyped /\ FirstsKnown /\ WaitsApart /\ TimesFit /\ CopyInv
  BY DEF TimesInv
<1>2. TextsTyped' /\ FirstsKnown'
  BY <1>1 DEF TextsTyped, FirstsKnown
<1>3. WaitsApart'
  <2>1. \A k, l \in DOMAIN pending' : k # l => Apart(pending'[k], pending'[l])
    BY <1>1 DEF WaitsApart
  <2>2. \A k \in DOMAIN pending', m \in DOMAIN sent : ApartFrom(pending'[k], sent[m])
    BY <1>1 DEF WaitsApart
  <2> QED
    BY <1>1, <2>1, <2>2 DEF WaitsApart, Apart, ApartFrom
<1>4. JobApart'
  <2>1. \A k \in DOMAIN pending' : Apart(pending'[k], p)
    OBVIOUS
  <2> QED
    BY <2>1 DEF JobApart, Apart, ApartFrom, Reach
<1>5. TimesFit'
  <2>1. \A k \in DOMAIN pending' : \A d \in Reach(pending'[k]) :
           Times(pending'[k].text, d) < pending'[k].sends
    BY <1>1 DEF TimesFit
  <2>2. \A m \in DOMAIN sent : \A d \in sent[m].dids : Times(sent[m].text, d) <= sent[m].sends
    BY <1>1 DEF TimesFit
  <2>3. /\ \A d \in DOMAIN job'.sealed : Times(p.text, d) < p.sends
        /\ \A o \in job'.out : \A d \in o.dids : Times(p.text, d) <= p.sends
    OBVIOUS
  <2>4. \A t \in Text, d \in Device : Times(t, d) <= MaxSends
    BY <1>1 DEF TimesFit
  <2> QED
    BY <2>1, <2>2, <2>3, <2>4 DEF TimesFit, Times, Got, Reach
<1>6. CopyInv'
  BY <1>1 DEF CopyInv, CopiedOnce, OnTheWire
<1> QED
  BY <1>2, <1>3, <1>4, <1>5, <1>6 DEF TimesInv

\* A request that the relay takes counts once more for its devices.
LEMMA OneMore ==
    ASSUME OlmInv, NEW c, wire' = OnWire(c), next' = next + 1, NEW t, NEW d
    PROVE  /\ t = job.what.text /\ d \in c => Times(t, d)' = Times(t, d) + 1
           /\ ~(t = job.what.text /\ d \in c) => Times(t, d)' = Times(t, d)
<1>1. /\ DOMAIN wire' = DOMAIN wire \cup {next} /\ next \notin DOMAIN wire
      /\ wire'[next].text = job.what.text /\ DOMAIN wire'[next].body = c
      /\ \A m \in DOMAIN wire : wire'[m] = wire[m]
  BY WireStepGrows DEF WireStep, WireGrows
<1>2. IsFiniteSet(Got(t, d)) /\ Times(t, d) \in Nat
  BY GotIsFinite
<1>3. CASE t = job.what.text /\ d \in c
  <2>1. Got(t, d)' = Got(t, d) \cup {next}
    BY <1>1, <1>3 DEF Got
  <2>2. next \notin Got(t, d)
    BY <1>1 DEF Got
  <2> QED
    BY <1>2, <1>3, <2>1, <2>2, FS_AddElement DEF Times
<1>4. CASE ~(t = job.what.text /\ d \in c)
  <2>1. Got(t, d)' = Got(t, d)
    BY <1>1, <1>4 DEF Got
  <2> QED
    BY <1>4, <2>1 DEF Times
<1> QED
  BY <1>3, <1>4

\* emit: a send goes on without the devices of c, or ends.
LEMMA EmitTimes ==
    ASSUME OlmInv, QueueInv, TimesInv, job # None, NEW c \in SUBSET DOMAIN job.sealed, WireStep(c),
           UNCHANGED <<pending, sent, copied, typed>>,
           \/ job' = None
           \/ /\ job'.what = job.what /\ DOMAIN job'.sealed = DOMAIN job.sealed \ c
              /\ \/ job.out # {} /\ job'.out = job.out
                 \/ /\ wire' = OnWire(c) /\ next' = next + 1
                    /\ \E named \in BOOLEAN :
                          job'.out = job.out \cup {[id |-> next, named |-> named, dids |-> c]}
    PROVE  TimesInv'
<1>0. PICK w : w = job.what
  OBVIOUS
<1>1. TextsTyped /\ FirstsKnown /\ WaitsApart /\ JobApart /\ TimesFit /\ CopyInv
  BY DEF TimesInv
<1>2. w \in PendingText /\ w.text \in Text /\ w.sends \in 1 .. MaxSends /\ MaxSends \in Nat
      /\ DOMAIN job.sealed \subseteq Device
  BY <1>0, JobFields, SendConstants DEF QueueInv, PendingText
<1>3. /\ WireGrows
      /\ \A m \in DOMAIN wire' \ DOMAIN wire : wire'[m].text = w.text
  BY <1>0, WireStepGrows
<1>4. ASSUME NEW t, NEW d
      PROVE  /\ Times(t, d) \in Nat /\ Times(t, d)' \in Nat
             /\ Times(t, d)' = Times(t, d) \/ Times(t, d)' = Times(t, d) + 1
             /\ Times(t, d)' # Times(t, d) => t = w.text /\ d \in c
  <2>1. Times(t, d) \in Nat
    BY GotIsFinite
  <2>2. CASE UNCHANGED <<wire, next>>
    BY <2>1, <2>2 DEF Times, Got
  <2>3. CASE wire' = OnWire(c) /\ next' = next + 1
    BY <1>0, <2>1, <2>3, OneMore
  <2> QED
    BY <2>2, <2>3 DEF WireStep
<1>5. /\ c \subseteq Reach(w) /\ \A d \in c : Times(w.text, d)' <= w.sends
  <2>1. c \subseteq Reach(w) /\ \A d \in c : Times(w.text, d) < w.sends
    BY <1>0, <1>1 DEF JobApart, TimesFit
  <2> QED
    BY <1>2, <1>4, <2>1
<1>6. TextsTyped'
  <2>1. \A m \in DOMAIN wire' : wire'[m].text \in typed
    BY <1>0, <1>1, <1>3 DEF TextsTyped, WireGrows
  <2> QED
    BY <1>0, <1>1, <2>1 DEF TextsTyped
<1>7. FirstsKnown' /\ WaitsApart'
  BY <1>1 DEF FirstsKnown, WaitsApart, Apart, ApartFrom
<1>8. ASSUME job' # None
      PROVE  /\ job'.what = w /\ DOMAIN job'.sealed = DOMAIN job.sealed \ c
             /\ job'.out # {}
             /\ \A o \in job'.out : o \in job.out \/ o.dids = c
             /\ \A o, x \in job'.out : o \notin job.out /\ x \notin job.out => o = x
  <2>1. CASE job'.out = job.out /\ job.out # {}
    BY <1>0, <1>8, <2>1
  <2>2. CASE \E named \in BOOLEAN :
                job'.out = job.out \cup {[id |-> next, named |-> named, dids |-> c]}
    <3>0. PICK named \in BOOLEAN :
              job'.out = job.out \cup {[id |-> next, named |-> named, dids |-> c]}
      BY <2>2
    <3> DEFINE o == [id |-> next, named |-> named, dids |-> c]
    <3>1. job'.out = job.out \cup {o} /\ o.dids = c
      BY <3>0
    <3> HIDE DEF o
    <3>2. job'.what = w /\ DOMAIN job'.sealed = DOMAIN job.sealed \ c
      BY <1>0, <1>8
    <3> QED
      BY <3>1, <3>2
  <2> QED
    BY <1>0, <1>8, <2>1, <2>2
<1>9. JobApart'
  <2> SUFFICES ASSUME job' # None PROVE JobApart'
    BY DEF JobApart
  <2>1. /\ \A k \in DOMAIN pending' : Apart(pending'[k], w)
        /\ \A m \in DOMAIN sent' : ApartFrom(w, sent'[m])
        /\ DOMAIN job'.sealed \subseteq Reach(w)
    BY <1>0, <1>1, <1>8 DEF JobApart
  <2>2. \A o \in job'.out : o.dids \subseteq Reach(w) /\ o.dids \cap DOMAIN job'.sealed = {}
    BY <1>0, <1>1, <1>5, <1>8 DEF JobApart
  <2>3. \A o, x \in job'.out : o # x => o.dids \cap x.dids = {}
    BY <1>0, <1>1, <1>8 DEF JobApart
  <2> QED
    BY <1>0, <1>8, <2>1, <2>2, <2>3 DEF JobApart, Apart, ApartFrom, Reach
<1>10. \A t \in Text, d \in Device : Times(t, d)' <= MaxSends
  <2> SUFFICES ASSUME NEW t \in Text, NEW d \in Device PROVE Times(t, d)' <= MaxSends
    OBVIOUS
  <2>1. CASE Times(t, d)' = Times(t, d)
    BY <1>0, <1>1, <2>1 DEF TimesFit
  <2>2. CASE Times(t, d)' # Times(t, d)
    BY <1>2, <1>4, <1>5, <2>2
  <2> QED
    BY <2>1, <2>2
<1>11. \A k \in DOMAIN pending : \A d \in Reach(pending[k]) :
           Times(pending[k].text, d)' = Times(pending[k].text, d)
  <2> SUFFICES ASSUME NEW k \in DOMAIN pending, NEW d \in Reach(pending[k]), 
                      pending[k].text = w.text, d \in c
               PROVE  FALSE
    BY <1>4
  <2>1. Apart(pending[k], w)
    BY <1>0, <1>1 DEF JobApart
  <2> QED
    BY <1>5, <2>1 DEF Apart, Reach
<1>12. \A m \in DOMAIN sent : \A d \in sent[m].dids :
           Times(sent[m].text, d)' = Times(sent[m].text, d)
  <2> SUFFICES ASSUME NEW m \in DOMAIN sent, NEW d \in sent[m].dids, 
                      sent[m].text = w.text, d \in c
               PROVE  FALSE
    BY <1>4
  <2>1. ApartFrom(w, sent[m])
    BY <1>0, <1>1 DEF JobApart
  <2> QED
    BY <1>5, <2>1 DEF ApartFrom, Reach
<1>13. ASSUME job' # None
       PROVE  /\ \A d \in DOMAIN job'.sealed : Times(w.text, d)' < w.sends
              /\ \A o \in job'.out : \A d \in o.dids : Times(w.text, d)' <= w.sends
  <2>1. \A d \in DOMAIN job'.sealed : Times(w.text, d)' < w.sends
    <3>1. \A d \in DOMAIN job'.sealed : Times(w.text, d) < w.sends /\ d \notin c
      BY <1>0, <1>1, <1>8, <1>13 DEF TimesFit
    <3> QED
      BY <1>4, <3>1
  <2>2. ASSUME NEW o \in job'.out, NEW d \in o.dids PROVE Times(w.text, d)' <= w.sends
    <3>1. CASE d \in c
      BY <1>5, <3>1
    <3>2. CASE d \notin c
      <4>1. o \in job.out
        BY <1>0, <1>8, <1>13, <3>2
      <4>2. Times(w.text, d) <= w.sends
        BY <1>0, <1>1, <4>1 DEF TimesFit
      <4> QED
        BY <1>4, <3>2, <4>2
    <3> QED
      BY <3>1, <3>2
  <2> QED
    BY <2>1, <2>2
<1>14. TimesFit'
  <2>1. \A k \in DOMAIN pending : \A d \in Reach(pending[k]) :
           Times(pending[k].text, d)' < pending[k].sends
    BY <1>0, <1>1, <1>11 DEF TimesFit
  <2>2. \A m \in DOMAIN sent : \A d \in sent[m].dids : Times(sent[m].text, d)' <= sent[m].sends
    BY <1>0, <1>1, <1>12 DEF TimesFit
  <2> QED
    BY <1>0, <1>8, <1>10, <1>13, <2>1, <2>2 DEF TimesFit, Times, Got, Reach
<1>15. CopyInv'
  <2>1. \A t : OnTheWire(t) => OnTheWire(t)'
    BY <1>3 DEF OnTheWire, WireGrows
  <2> QED
    BY <1>0, <1>1, <1>8, <2>1 DEF CopyInv, CopiedOnce
<1> QED
  BY <1>6, <1>7, <1>9, <1>14, <1>15 DEF TimesInv

\* deliver, after the last request: its records come into the memory for a re-send.
LEMMA DeliverTimes ==
    ASSUME OlmInv, QueueInv, TimesInv, Deliver
    PROVE  TimesInv'
<1>1. TextsTyped /\ FirstsKnown /\ WaitsApart /\ JobApart /\ TimesFit /\ CopyInv
  BY DEF TimesInv
<1>2. /\ job # None /\ job' = None /\ job.sealed = << >> /\ UNCHANGED <<pending, wire, typed, next>>
      /\ \/ sent' = sent /\ copied' = copied
         \/ /\ sent' = Remembered
            /\ copied' = IF job.what.sends = 1
                         THEN [copied EXCEPT ![job.what.text] = @ + 1] ELSE copied
  BY DEF Deliver, waiting
<1>3. JobTypes /\ SentTypes /\ OutInv /\ GhostTypes
  BY DEF QueueInv
<1>4. CASE sent' = sent /\ copied' = copied
  <2>1. SentFewer
    BY <1>3, <1>4 DEF SentFewer, SentTypes
  <2> QED
    BY <1>2, <1>4, <2>1, FewerKeeps
<1>5. CASE /\ sent' = Remembered
           /\ copied' = IF job.what.sends = 1
                        THEN [copied EXCEPT ![job.what.text] = @ + 1] ELSE copied
  <2>0. PICK w : w = job.what
    OBVIOUS
  <2>1. w \in PendingText /\ w.text \in Text /\ w.sends \in Nat
    BY <1>2, <1>3, <2>0, JobFields DEF PendingText
  <2>2. \A m \in DOMAIN sent' :
           \/ m \in DOMAIN sent /\ sent'[m] = sent[m]
           \/ \E o \in job.out : /\ o.id = m /\ sent'[m].dids = o.dids
                                 /\ sent'[m].text = w.text /\ sent'[m].sends = w.sends
    BY <1>2, <1>3, <1>5, <2>0, RememberedFields
  <2>3. \A o \in job.out : o.dids \subseteq Reach(w)
    BY <1>1, <1>2, <2>0 DEF JobApart
  <2>4. TextsTyped'
    <3>1. \A m \in DOMAIN sent' : sent'[m].text \in typed
      BY <1>1, <1>2, <2>0, <2>2 DEF TextsTyped
    <3>2. \A t \in Text \ typed : copied'[t] = 0
      BY <1>1, <1>2, <1>3, <1>5, <2>0, <2>1 DEF TextsTyped, GhostTypes
    <3> QED
      BY <1>1, <1>2, <3>1, <3>2 DEF TextsTyped
  <2>5. FirstsKnown' /\ JobApart'
    BY <1>1, <1>2 DEF FirstsKnown, JobApart
  <2>6. \A k \in DOMAIN pending, m \in DOMAIN sent' : ApartFrom(pending[k], sent'[m])
    <3> SUFFICES ASSUME NEW k \in DOMAIN pending, NEW m \in DOMAIN sent'
                 PROVE  ApartFrom(pending[k], sent'[m])
      OBVIOUS
    <3>1. CASE m \in DOMAIN sent /\ sent'[m] = sent[m]
      BY <1>1, <3>1 DEF WaitsApart
    <3>2. CASE \E o \in job.out : sent'[m].dids = o.dids /\ sent'[m].text = w.text
      <4>1. Apart(pending[k], w)
        BY <1>1, <1>2, <2>0 DEF JobApart
      <4> QED
        BY <2>3, <3>2, <4>1 DEF Apart, ApartFrom, Reach
    <3> QED
      BY <2>2, <3>1, <3>2
  <2>7. ASSUME NEW m \in DOMAIN sent', NEW x \in DOMAIN sent', m # x,
               sent'[m].text = sent'[x].text
        PROVE  sent'[m].dids \cap sent'[x].dids = {}
    <3>1. ASSUME NEW y \in DOMAIN sent, NEW o \in job.out, sent[y].text = w.text
          PROVE  sent[y].dids \cap o.dids = {}
      <4>1. ApartFrom(w, sent[y])
        BY <1>1, <1>2, <2>0 DEF JobApart
      <4> QED
        BY <2>3, <3>1, <4>1 DEF ApartFrom, Reach
    <3>2. CASE m \in DOMAIN sent /\ sent'[m] = sent[m]
      <4>1. CASE x \in DOMAIN sent /\ sent'[x] = sent[x]
        BY <1>1, <2>7, <3>2, <4>1 DEF WaitsApart
      <4>2. CASE \E o \in job.out : sent'[x].dids = o.dids /\ sent'[x].text = w.text
        BY <2>7, <3>1, <3>2, <4>2
      <4> QED
        BY <2>2, <4>1, <4>2
    <3>3. CASE \E o \in job.out : o.id = m /\ sent'[m].dids = o.dids /\ sent'[m].text = w.text
      <4>1. CASE x \in DOMAIN sent /\ sent'[x] = sent[x]
        BY <2>7, <3>1, <3>3, <4>1
      <4>2. CASE \E o \in job.out : o.id = x /\ sent'[x].dids = o.dids
        BY <1>1, <1>2, <2>7, <3>3, <4>2 DEF JobApart
      <4> QED
        BY <2>2, <4>1, <4>2
    <3> QED
      BY <2>2, <3>2, <3>3
  <2>8. WaitsApart'
    <3>1. \A k, l \in DOMAIN pending : k # l => Apart(pending[k], pending[l])
      BY <1>1 DEF WaitsApart
    <3> QED
      BY <1>2, <2>6, <2>7, <3>1 DEF WaitsApart, Apart, ApartFrom
  <2>9. TimesFit'
    <3>1. \A m \in DOMAIN sent' : \A d \in sent'[m].dids : Times(sent'[m].text, d) <= sent'[m].sends
      <4> SUFFICES ASSUME NEW m \in DOMAIN sent', NEW d \in sent'[m].dids
                   PROVE  Times(sent'[m].text, d) <= sent'[m].sends
        OBVIOUS
      <4>1. CASE m \in DOMAIN sent /\ sent'[m] = sent[m]
        BY <1>1, <4>1 DEF TimesFit
      <4>2. CASE \E o \in job.out : /\ sent'[m].dids = o.dids
                                    /\ sent'[m].text = w.text /\ sent'[m].sends = w.sends
        BY <1>1, <1>2, <2>0, <4>2 DEF TimesFit
      <4> QED
        BY <2>2, <4>1, <4>2
    <3>2. \A t \in Text, d \in Device : Times(t, d) <= MaxSends
      BY <1>1 DEF TimesFit
    <3>3. \A k \in DOMAIN pending : \A d \in Reach(pending[k]) :
             Times(pending[k].text, d) < pending[k].sends
      BY <1>1 DEF TimesFit
    <3> QED
      BY <1>2, <3>1, <3>2, <3>3 DEF TimesFit, Times, Got, Reach
  <2>10. CopyInv'
    <3>1. OnTheWire(w.text)
      <4>1. job.out # {}
        BY <1>2, <1>3 DEF OutInv
      <4> QED
        BY <1>2, <1>3, <2>0, <4>1 DEF OutInv, OnTheWire
    <3>2. w.sends = 1 => w.did = None /\ copied[w.text] = 0
      BY <1>1, <1>2, <2>0 DEF FirstsKnown, IsFirst, CopyInv
    <3>3. /\ DOMAIN copied = Text /\ DOMAIN copied' = Text
          /\ \A t \in Text : t # w.text => copied'[t] = copied[t]
          /\ copied'[w.text] = copied[w.text] \/ (copied'[w.text] = 1 /\ w.did = None)
      BY <1>3, <1>5, <2>0, <2>1, <3>2 DEF GhostTypes
    <3>4. \A t : OnTheWire(t)' <=> OnTheWire(t)
      BY <1>2 DEF OnTheWire
    <3>5. CopiedOnce'
      BY <1>1, <3>1, <3>3, <3>4 DEF CopyInv, CopiedOnce
    <3>6. ASSUME NEW k \in DOMAIN pending, pending[k].did = None
          PROVE  copied'[pending[k].text] = 0
      <4>1. Apart(pending[k], w)
        BY <1>1, <1>2, <2>0 DEF JobApart
      <4>2. pending[k].text # w.text /\ pending[k].text \in Text
        <5>1. ListTypes
          BY DEF QueueInv
        <5> QED
          BY <3>6, <4>1, <5>1 DEF Apart, ListTypes, PendingText
      <4> QED
        BY <1>1, <3>3, <3>6, <4>2 DEF CopyInv
    <3> QED
      BY <1>2, <3>5, <3>6 DEF CopyInv
  <2> QED
    BY <2>4, <2>5, <2>8, <2>9, <2>10 DEF TimesInv
<1> QED
  BY <1>2, <1>4, <1>5

\* flush_queue, one item: what waited is the send that begins.
LEMMA FlushItemTimes ==
    ASSUME OlmInv, QueueInv, TimesInv, FlushItem
    PROVE  TimesInv'
<1> DEFINE item == Head(flush.taken)
<1>0. PICK p : p = pending[item.key]
  OBVIOUS
<1>1. /\ stage = "flush" /\ flush.taken # << >> /\ UNCHANGED <<sent, wire, copied, typed>>
  BY DEF FlushItem, ghost
<1>2. \/ /\ pending' = Without(pending, {item.key}) \/ pending' = pending
         /\ UNCHANGED job
      \/ /\ pending' = Without(pending, {item.key}) /\ job' = Job(item, p, Entries(p))
  BY <1>0 DEF FlushItem
<1>3. JobTypes /\ ListTypes /\ SentTypes /\ Slots
  BY DEF QueueInv
<1>4. item \in Item /\ item.key \in DOMAIN pending
  BY <1>1, <1>3, TailKeys DEF ListTypes, Slots
<1> HIDE DEF item
<1>5. /\ DOMAIN pending' \subseteq DOMAIN pending
      /\ \A k \in DOMAIN pending' : pending'[k] = pending[k]
      /\ pending' = Without(pending, {item.key}) => item.key \notin DOMAIN pending'
  BY <1>2 DEF Without
<1>6. SentFewer
  BY <1>1, <1>3 DEF SentFewer, SentTypes
<1>7. CASE UNCHANGED job
  BY <1>1, <1>5, <1>6, <1>7, FewerKeeps
<1>8. CASE pending' = Without(pending, {item.key}) /\ job' = Job(item, p, Entries(p))
  <2>1. p \in PendingText /\ Entries(p) \in SUBSET Ready /\ Ready \subseteq Device
    BY <1>0, <1>3, <1>4 DEF ListTypes, Entries, Ready, OlmInv, OlmTypes
  <2>2. job'.what = p /\ DOMAIN job'.sealed = Entries(p) /\ job'.out = {}
    BY <1>4, <1>8, <2>1, JobIsTyped
  <2>3. Entries(p) \subseteq Reach(p)
    BY <2>1 DEF Entries, Reach
  <2>4. /\ IsFirst(p) /\ p.text \in typed /\ (p.did = None => copied[p.text] = 0)
        /\ \A d \in Reach(p) : Times(p.text, d) < p.sends
        /\ \A m \in DOMAIN sent : ApartFrom(p, sent[m])
    BY <1>0, <1>4 DEF TimesInv, FirstsKnown, TextsTyped, CopyInv, TimesFit, WaitsApart
  <2>5. \A l \in DOMAIN pending' : Apart(pending[l], p)
    BY <1>0, <1>4, <1>5, <1>8 DEF TimesInv, WaitsApart
  <2> QED
    BY <1>1, <1>5, <2>2, <2>3, <2>4, <2>5, BeginKeeps
<1> QED
  BY <1>2, <1>7, <1>8

\* A text of the user is typed for the first time, so nothing of it went out.
LEMMA SendOrQueueTimes ==
    ASSUME OlmInv, QueueInv, TimesInv, NEW t \in Text, SendOrQueue(t)
    PROVE  TimesInv'
<1> DEFINE p == Waiting(t, 1, None)
<1>1. /\ stage = "idle" /\ t \notin typed /\ typed' = typed \cup {t}
      /\ UNCHANGED <<sent, wire, copied>>
  BY DEF SendOrQueue
<1>2. JobTypes /\ SentTypes /\ ListTypes /\ BookInv /\ job = None
  BY <1>1 DEF QueueInv, JobTypes
<1>3. TextsTyped /\ FirstsKnown /\ WaitsApart /\ TimesFit /\ CopyInv
  BY DEF TimesInv
<1>4. p.text = t /\ p.sends = 1 /\ p.did = None /\ p \in PendingText
  BY SendConstants DEF Waiting, PendingText
<1>5. \/ UNCHANGED <<pending, job>>
      \/ pending' = Put(pending, next, p) /\ UNCHANGED job
      \/ UNCHANGED pending /\ job' = Job(None, p, Ready)
  BY DEF SendOrQueue, QueueText, waiting
<1> HIDE DEF p
<1>6. SentFewer
  BY <1>1, <1>2 DEF SentFewer, SentTypes
<1>7. /\ IsFirst(p) /\ p.text \in typed' /\ copied[p.text] = 0
      /\ \A l \in DOMAIN pending : Apart(pending[l], p)
      /\ \A m \in DOMAIN sent : ApartFrom(p, sent[m])
  BY <1>1, <1>3, <1>4 DEF IsFirst, TextsTyped, Apart, ApartFrom
<1>8. \A d \in Reach(p) : Times(p.text, d) < p.sends
  <2>1. ASSUME NEW d PROVE Times(t, d) = 0
    <3>1. Got(t, d) = {}
      BY <1>1, <1>3 DEF Got, TextsTyped
    <3> QED
      BY <3>1, FS_EmptySet DEF Times
  <2> QED
    BY <1>4, <2>1
<1>9. CASE UNCHANGED <<pending, job>>
  <2>1. TextsTyped' /\ FirstsKnown' /\ WaitsApart' /\ CopyInv'
    BY <1>1, <1>2, <1>3, <1>9
    DEF TextsTyped, FirstsKnown, WaitsApart, Apart, ApartFrom, CopyInv, CopiedOnce, OnTheWire
  <2>2. TimesFit' /\ JobApart'
    BY <1>1, <1>2, <1>3, <1>9 DEF TimesFit, Times, Got, Reach, JobApart
  <2> QED
    BY <2>1, <2>2 DEF TimesInv
<1>10. CASE pending' = Put(pending, next, p) /\ UNCHANGED job
  <2>1. next \notin DOMAIN pending
    <3>1. next \in Nat /\ \A k \in DOMAIN pending : k < next
      BY <1>2, PendingBacked DEF OlmInv, OlmTypes
    <3> QED
      BY <3>1
  <2> QED
    BY <1>1, <1>2, <1>6, <1>7, <1>8, <1>10, <2>1, WaitKeeps
<1>11. CASE UNCHANGED pending /\ job' = Job(None, p, Ready)
  <2>1. job'.what = p /\ DOMAIN job'.sealed = Ready /\ job'.out = {}
    BY <1>4, <1>11, JobIsTyped
  <2>2. Ready \subseteq Reach(p)
    BY <1>4 DEF Ready, Reach, OlmInv, OlmTypes
  <2> QED
    BY <1>1, <1>7, <1>8, <1>11, <2>1, <2>2, BeginKeeps
<1> QED
  BY <1>5, <1>9, <1>10, <1>11

\* The NACK of a device brings the text back for this device only, which loses
\* its right to another one.
LEMMA OnNackTimes ==
    ASSUME OlmInv, QueueInv, TimesInv, NEW m \in DOMAIN wire, NEW from, OnNack(m, from)
    PROVE  TimesInv'
<1> DEFINE s == Trimmed(sent)
<1>1. stage = "idle" /\ UNCHANGED <<job, wire, copied, typed>>
  BY DEF OnNack, ghost
<1>2. JobTypes /\ SentTypes /\ BookInv /\ job = None
  BY <1>1 DEF QueueInv, JobTypes
<1>3. SentFewer
  BY OnNackKeeps
<1>4. \/ UNCHANGED pending
      \/ /\ m \in DOMAIN s /\ sent' = NackUsed(s, m, from) /\ from \in s[m].dids
         /\ pending' = Put(pending, next, Waiting(s[m].text, s[m].sends + 1, from))
  BY DEF OnNack, Requeue, waiting
<1>5. /\ \A x \in DOMAIN s : x \in DOMAIN sent /\ s[x] = sent[x] /\ sent[x] \in SentRecord
  BY <1>2, TrimmedFields DEF SentTypes
<1> HIDE DEF s
<1>6. CASE UNCHANGED pending
  BY <1>1, <1>2, <1>3, <1>6, FewerKeeps
<1>7. CASE /\ m \in DOMAIN s /\ sent' = NackUsed(s, m, from) /\ from \in s[m].dids
           /\ pending' = Put(pending, next, Waiting(s[m].text, s[m].sends + 1, from))
  <2>0. PICK r : r = sent[m]
    OBVIOUS
  <2> DEFINE p == Waiting(r.text, r.sends + 1, from)
  <2>1. /\ m \in DOMAIN sent /\ s[m] = r /\ r.text \in Text /\ r.sends \in Nat /\ r.sends # 0
        /\ from \in r.dids /\ from \in Device
    BY <1>5, <1>7, <2>0 DEF SentRecord
  <2>2. p.text = r.text /\ p.sends = r.sends + 1 /\ p.did = from /\ from # None
    BY <2>1, SendConstants DEF Waiting
  <2>3. pending' = Put(pending, next, p)
    BY <1>7, <2>1
  <2> HIDE DEF p
  <2>4. next \notin DOMAIN pending
    <3>1. next \in Nat /\ \A k \in DOMAIN pending : k < next
      BY <1>2, PendingBacked DEF OlmInv, OlmTypes
    <3> QED
      BY <3>1
  <2>5. IsFirst(p) /\ p.text \in typed
    BY <2>0, <2>1, <2>2 DEF IsFirst, TimesInv, TextsTyped
  <2>6. \A l \in DOMAIN pending : Apart(pending[l], p)
    <3>1. \A l \in DOMAIN pending : ApartFrom(pending[l], r)
      BY <2>0, <2>1 DEF TimesInv, WaitsApart
    <3> QED
      BY <2>1, <2>2, <3>1 DEF Apart, ApartFrom
  <2>7. \A x \in DOMAIN sent' : ApartFrom(p, sent'[x])
    <3> SUFFICES ASSUME NEW x \in DOMAIN sent', sent'[x].text = r.text
                 PROVE  from \notin sent'[x].dids
      BY <2>2 DEF ApartFrom
    <3>1. CASE x = m
      <4>1. s[m].dids # {from} /\ sent' = [s EXCEPT ![m].dids = @ \ {from}]
        BY <1>7, <3>1 DEF NackUsed, Without
      <4>2. sent'[m].dids = r.dids \ {from}
        BY <1>7, <2>1, <4>1, <1>5 DEF SentRecord
      <4> QED
        BY <3>1, <4>2
    <3>2. CASE x # m
      <4>1. x \in DOMAIN sent /\ sent[x].text = r.text /\ sent'[x].dids \subseteq sent[x].dids
        BY <1>3 DEF SentFewer
      <4>2. sent[m].dids \cap sent[x].dids = {}
        BY <2>0, <2>1, <3>2, <4>1 DEF TimesInv, WaitsApart
      <4> QED
        BY <2>0, <2>1, <4>1, <4>2
    <3> QED
      BY <3>1, <3>2
  <2>8. \A d \in Reach(p) : Times(p.text, d) < p.sends
    <3>1. Times(r.text, from) <= r.sends
      BY <2>0, <2>1 DEF TimesInv, TimesFit
    <3>2. Times(r.text, from) \in Nat
      BY GotIsFinite
    <3> QED
      BY <2>1, <2>2, <3>1, <3>2 DEF Reach
  <2> QED
    BY <1>1, <1>2, <1>3, <2>2, <2>3, <2>4, <2>5, <2>6, <2>7, <2>8, WaitKeeps
<1> QED
  BY <1>4, <1>6, <1>7

\* emit.
LEMMA EmitStepTimes ==
    ASSUME OlmInv, QueueInv, TimesInv, EmitStep
    PROVE  TimesInv'
<1>1. PICK c \in SUBSET DOMAIN job.sealed : GoesOn(c) \/ Ends(c)
  BY EmitCases
<1>2. stage = "send" /\ job # None
  BY EmitCases
<1>3. JobTypes /\ SentTypes /\ BookInv
  BY DEF QueueInv
<1>4. CASE GoesOn(c)
  <2>1. WireStep(c) /\ UNCHANGED <<pending, sent, copied, typed>>
    BY <1>4 DEF GoesOn, unsent
  <2> QED
    BY <1>2, <1>3, <1>4, <2>1, GoesOnFields, EmitTimes
<1>5. CASE Ends(c)
  <2>1. WireStep(c) /\ UNCHANGED <<sent, copied, typed>> /\ job.out = {} /\ job' = None
    BY <1>5 DEF Ends, unsent, DeliverFails
  <2>2. \/ UNCHANGED pending
        \/ /\ job.item # None /\ pending' = Put(pending, job.item.key, job.what)
           /\ wire' = wire
    BY <1>5 DEF Ends, DeliverFails
  <2>3. CASE UNCHANGED pending
    BY <1>2, <2>1, <2>3, EmitTimes
  <2>4. CASE job.item # None /\ pending' = Put(pending, job.item.key, job.what) /\ wire' = wire
    <3>0. PICK p : p = job.what
      OBVIOUS
    <3>1. SentFewer
      BY <1>3, <2>1 DEF SentFewer, SentTypes
    <3>2. job.item.key \notin DOMAIN pending
      BY <1>2, <1>3, <2>4 DEF BookInv
    <3>3. /\ IsFirst(p) /\ p.text \in typed /\ (p.did = None => copied[p.text] = 0)
          /\ \A d \in Reach(p) : Times(p.text, d) < p.sends
          /\ \A l \in DOMAIN pending : Apart(pending[l], p)
          /\ \A m \in DOMAIN sent : ApartFrom(p, sent[m])
      BY <1>2, <2>1, <3>0
      DEF TimesInv, FirstsKnown, TextsTyped, CopyInv, TimesFit, JobApart
    <3> QED
      BY <2>1, <2>4, <3>0, <3>1, <3>2, <3>3, WaitKeeps
  <2> QED
    BY <2>2, <2>3, <2>4
<1> QED
  BY <1>1, <1>4, <1>5

\* The steps that add nothing.
LEMMA LesserTimes ==
    ASSUME OlmInv, QueueInv, TimesInv,
           \/ Settle \/ FlushEnd \/ RequestKeys \/ TickEngines \/ NoSuchNick \/ EndSession
           \/ Tick \/ Restart
           \/ \E d \in Device : KeysRow(d) \/ PeerMessage(d)
           \/ \E k \in DOMAIN wire : SendDropped(k)
           \/ UNCHANGED vars
    PROVE  TimesInv'
<1>1. JobTypes /\ SentTypes
  BY DEF QueueInv
<1>2. CASE Tick
  <2>1. /\ UNCHANGED <<wire, copied, typed, pending>>
        /\ job' = IF job = None THEN None
                  ELSE IF job.item = None THEN job ELSE [job EXCEPT !.item.left = Sooner(@)]
        /\ sent' = [m \in DOMAIN sent |-> [sent[m] EXCEPT !.left = Sooner(@)]]
    BY <1>2 DEF Tick, ghost
  <2>2. SentFewer
    BY <1>1, <2>1 DEF SentFewer, SentTypes, SentRecord, Sooner
  <2>3. ASSUME job' # None
        PROVE  /\ job # None /\ job'.what = job.what /\ job'.sealed = job.sealed
               /\ job'.out = job.out
    <3>1. job # None /\ DOMAIN job = {"item", "what", "sealed", "out"}
      BY <1>1, <2>1, <2>3, JobFields
    <3> QED
      BY <2>1, <3>1
  <2> QED
    BY <2>1, <2>2, <2>3, FewerKeeps
<1>3. CASE \/ Settle \/ FlushEnd \/ RequestKeys \/ TickEngines
           \/ \E d \in Device : KeysRow(d) \/ PeerMessage(d)
           \/ \E k \in DOMAIN wire : SendDropped(k)
           \/ UNCHANGED vars
  <2>1. /\ UNCHANGED <<wire, copied, typed, sent, job>>
        /\ UNCHANGED pending \/ \E ks : pending' = Without(pending, ks)
    BY <1>3 DEF Settle, FlushEnd, RequestKeys, TickEngines, KeysRow, PeerMessage, SendDropped, vars,
                ghost, engine, waiting, worker
  <2>2. SentFewer
    BY <1>1, <2>1 DEF SentFewer, SentTypes
  <2>3. /\ DOMAIN pending' \subseteq DOMAIN pending
        /\ \A k \in DOMAIN pending' : pending'[k] = pending[k]
    BY <2>1 DEF Without
  <2> QED
    BY <2>1, <2>2, <2>3, FewerKeeps
<1>4. CASE NoSuchNick \/ EndSession \/ Restart
  <2>1. /\ UNCHANGED <<wire, copied, typed>> /\ pending' = << >>
        /\ sent' = sent \/ sent' = << >>
        /\ job' = job \/ job' = None
    BY <1>4 DEF NoSuchNick, EndSession, Restart, ghost, worker
  <2>2. SentFewer
    BY <1>1, <2>1 DEF SentFewer, SentTypes
  <2> QED
    BY <2>1, <2>2, FewerKeeps
<1> QED
  BY <1>2, <1>3, <1>4

LEMMA TimesNext ==
    ASSUME OlmInv, QueueInv, TimesInv, [Next]_vars
    PROVE  TimesInv'
<1>1. CASE EmitStep \/ Deliver \/ FlushItem
  BY <1>1, EmitStepTimes, DeliverTimes, FlushItemTimes
<1>2. CASE \E t \in Text : SendOrQueue(t)
  BY <1>2, SendOrQueueTimes
<1>3. CASE \E m \in DOMAIN wire, from \in Device \cup {Wildcard, Stranger} : OnNack(m, from)
  BY <1>3, OnNackTimes
<1>4. CASE \/ Settle \/ FlushEnd \/ RequestKeys \/ TickEngines \/ NoSuchNick \/ EndSession
           \/ Tick \/ Restart
           \/ \E d \in Device : KeysRow(d) \/ PeerMessage(d)
           \/ \E k \in DOMAIN wire : SendDropped(k)
           \/ UNCHANGED vars
  BY <1>4, LesserTimes
<1> QED
  BY <1>1, <1>2, <1>3, <1>4 DEF Next, WorkerStep, Event

LEMMA TimesInit ==
    ASSUME Init
    PROVE  TimesInv
<1>1. /\ pending = << >> /\ sent = << >> /\ job = None /\ wire = << >>
      /\ copied = [t \in Text |-> 0] /\ typed = {}
  BY DEF Init
<1>2. DOMAIN pending = {} /\ DOMAIN sent = {} /\ DOMAIN wire = {}
  BY <1>1
<1>3. TextsTyped /\ FirstsKnown /\ WaitsApart /\ JobApart
  BY <1>1, <1>2 DEF TextsTyped, FirstsKnown, WaitsApart, JobApart
<1>4. TimesFit
  <2>1. ASSUME NEW t, NEW d PROVE Times(t, d) = 0
    <3>1. Got(t, d) = {}
      BY <1>2 DEF Got
    <3> QED
      BY <3>1, FS_EmptySet DEF Times
  <2>2. MaxSends \in Nat
    BY SendConstants
  <2> QED
    BY <1>1, <1>2, <2>1, <2>2 DEF TimesFit
<1>5. CopyInv
  BY <1>1, <1>2 DEF CopyInv, CopiedOnce
<1> QED
  BY <1>3, <1>4, <1>5 DEF TimesInv

LEMMA TimesImply ==
    ASSUME OlmInv, QueueInv, TimesInv
    PROVE  SentOnce
<1>1. GhostTypes /\ TimesFit /\ CopyInv
  BY DEF QueueInv, TimesInv
<1>2. AtMostTwice
  <2> SUFFICES ASSUME NEW x \in DOMAIN wire, NEW d \in DOMAIN wire[x].body
               PROVE  Times(wire[x].text, d) <= MaxSends
    BY DEF AtMostTwice, Times, Got
  <2>1. wire[x].text \in Text /\ d \in Device
    BY <1>1 DEF GhostTypes, OlmInv, OlmTypes
  <2> QED
    BY <1>1, <2>1 DEF TimesFit
<1> QED
  BY <1>1, <1>2 DEF SentOnce, CopyInv

\* No device gets a text more than MAX_SENDS times, whatever NACKs come, come twice
\* or come late and whatever requests are lost or repeated, and the other devices
\* of the account get at most one copy of a text, only once the relay took it
\* (on_nack, flush_queue, deliver, queue_copies).
THEOREM SendsBounded == Spec => []SentOnce
<1> QED
  BY OlmInit, OlmNext, QueueInit, QueueNext, TimesInit, TimesNext, TimesImply, PTL DEF Spec
===============================================================================
