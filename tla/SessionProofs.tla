---------------------------- MODULE SessionProofs ----------------------------
(***************************************************************************)
(* What Session promises for every set of topics, every limit and every    *)
(* number of commands: one meaning of a join_ref, true events, no connect  *)
(* after a close, topics that follow the last command for each, and waits  *)
(* that fit the losses, the hint and the caps (SessionStaysSound).         *)
(*                                                                         *)
(* AgreedRefs speaks of a connection that is served.  Its invariant says   *)
(* what holds before: a new socket has no topic, and while the topics are  *)
(* joined again the server knows only those that are done.                 *)
(***************************************************************************)
EXTENDS Session, TLAPS

Phases == {"connect", "join", "rejoin", "serve", "wait", "ended"}

\* The socket lives from the connect to the end of the connection.
SocketPhases == up => phase \in {"join", "rejoin", "serve"}

\* The topics that the server may know in each phase.
KnownTopics ==
    up => \A t \in Topic : srv[t] # 0 =>
              /\ phase # "join"
              /\ t \in DOMAIN joined /\ joined[t] = srv[t]
              /\ phase = "rejoin" => t \notin todo

\* The inductive invariant behind AgreedRefs.
RefInv ==
    /\ phase \in Phases
    /\ up \in BOOLEAN
    /\ refs \in Nat
    /\ srv \in [Topic -> Nat]
    /\ SocketPhases
    /\ KnownTopics

\* The inductive invariant behind ToldTheTruth: the user topic is not joined
\* before the connection is served.
ToldInv ==
    /\ ToldTheTruth
    /\ acked => phase \notin {"connect", "join", "rejoin"}

-----------------------------------------------------------------------------
(* The refs.                                                               *)

\* A connection that ends keeps the invariant: it takes the socket away.
LEMMA LoseKeepsRefs ==
    ASSUME RefInv, NEW e, NEW h, Lose(e, h), UNCHANGED <<refs, srv>>
    PROVE  RefInv'
  BY DEF RefInv, Lose, Phases, SocketPhases, KnownTopics

\* The same for the end of the task.
LEMMA EndKeepsRefs ==
    ASSUME RefInv, NEW e, Ends(e)
    PROVE  RefInv'
  BY DEF RefInv, Ends, Phases, SocketPhases, KnownTopics

\* A write on a socket that is up succeeds.
LEMMA WritesWhenUp ==
    ASSUME NEW ok \in Writes, up
    PROVE  ok
  BY DEF Writes

\* A join gives the client and the server the same ref, whatever the server
\* answers.
LEMMA JoinAgrees ==
    ASSUME RefInv, NEW t \in Topic, NEW ok \in Writes, JoinTopic(t, ok),
           UNCHANGED <<phase, up>>, todo' \subseteq todo,
           phase \in {"rejoin", "serve"}, phase = "rejoin" => t \notin todo'
    PROVE  RefInv'
<1>1. refs' \in Nat /\ refs' = refs + 1 /\ refs' # 0
  BY DEF RefInv, JoinTopic
<1>2. CASE ~up
  BY <1>1, <1>2 DEF RefInv, JoinTopic, Phases, SocketPhases, KnownTopics
<1>3. CASE up
  <2>1. ok
    BY <1>3, WritesWhenUp
  <2>2. PICK r \in {0, refs + 1} : srv' = [srv EXCEPT ![t] = r]
    BY <1>3 DEF JoinTopic
  <2>3. joined' = [x \in DOMAIN joined \cup {t} |-> IF x = t THEN refs + 1 ELSE joined[x]]
    BY <2>1 DEF JoinTopic
  <2>4. srv' \in [Topic -> Nat]
    BY <1>1, <2>2 DEF RefInv
  <2>5. ASSUME NEW x \in Topic, srv'[x] # 0
        PROVE  /\ phase' # "join"
               /\ x \in DOMAIN joined' /\ joined'[x] = srv'[x]
               /\ phase' = "rejoin" => x \notin todo'
    <3>1. CASE x = t
      BY <2>2, <2>3, <2>5, <3>1 DEF RefInv
    <3>2. CASE x # t
      <4>1. srv'[x] = srv[x]
        BY <2>2, <3>2 DEF RefInv
      <4>2. x \in DOMAIN joined /\ joined[x] = srv[x] /\ (phase = "rejoin" => x \notin todo)
        BY <1>3, <2>5, <4>1 DEF RefInv, KnownTopics
      <4>3. QED
        BY <2>3, <3>2, <4>1, <4>2
    <3>3. QED
      BY <3>1, <3>2
  <2>6. KnownTopics'
    BY <2>5 DEF KnownTopics
  <2>7. QED
    BY <1>1, <2>4, <2>6 DEF RefInv, SocketPhases
<1>4. QED
  BY <1>2, <1>3

\* Every step keeps the invariant of the refs.
LEMMA StepKeepsRefs ==
    ASSUME RefInv, [Next]_vars
    PROVE  RefInv'
<1>1. CASE Connect
  <2>1. CASE ConnectOk
    BY <2>1 DEF ConnectOk, RefInv, Phases, SocketPhases, KnownTopics
  <2>2. CASE ConnectRefused
    BY <2>2, EndKeepsRefs DEF ConnectRefused
  <2>3. CASE ConnectFails
    BY <2>3, LoseKeepsRefs DEF ConnectFails
  <2>4. QED
    BY <1>1, <2>1, <2>2, <2>3 DEF Connect
<1>2. CASE JoinUser
  <2>1. PICK ok \in Writes :
           IF ok
           THEN /\ phase' = "rejoin"
                /\ refs' = 1
                /\ todo' = DOMAIN joined
                /\ UNCHANGED <<failures, wait, flushed, told, up, answer, flaps, hint>>
           ELSE Lose("reconnecting", 0) /\ UNCHANGED <<refs, todo>>
    BY <1>2 DEF JoinUser
  <2>2. phase = "join" /\ UNCHANGED <<joined, srv>>
    BY <1>2 DEF JoinUser
  <2>3. CASE ok
    BY <2>1, <2>2, <2>3 DEF RefInv, Phases, SocketPhases, KnownTopics
  <2>4. CASE ~ok
    BY <2>1, <2>2, <2>4, LoseKeepsRefs
  <2>5. QED
    BY <2>3, <2>4
<1>3. CASE Rejoin
  <2>1. PICK t \in todo, ok \in Writes : todo' = todo \ {t} /\ JoinTopic(t, ok)
    BY <1>3 DEF Rejoin
  <2>2. phase = "rejoin" /\ UNCHANGED <<phase, up>>
    BY <1>3 DEF Rejoin
  <2>3. CASE t \in Topic
    BY <2>1, <2>2, <2>3, JoinAgrees
  <2>4. CASE t \notin Topic
    BY <2>1, <2>2, <2>4 DEF JoinTopic, RefInv, Phases, SocketPhases, KnownTopics
  <2>5. QED
    BY <2>3, <2>4
<1>4. CASE Serve
  BY <1>4 DEF Serve, server, RefInv, Phases, SocketPhases, KnownTopics
<1>5. CASE WaitEnds
  <2>1. CASE Ends(told)
    BY <2>1, EndKeepsRefs
  <2>2. CASE phase' = "connect" /\ UNCHANGED <<joined, todo, refs, server>>
    BY <1>5, <2>2 DEF WaitEnds, server, RefInv, Phases, SocketPhases, KnownTopics
  <2>3. QED
    BY <1>5, <2>1, <2>2 DEF WaitEnds
<1>6. CASE Heartbeat
  BY <1>6, LoseKeepsRefs DEF Heartbeat
<1>7. CASE VisibilityResend
  BY <1>7 DEF VisibilityResend, task, RefInv, SocketPhases, KnownTopics
<1>8. CASE Frame
  <2>1. CASE UserJoined
    BY <2>1 DEF UserJoined, RefInv, SocketPhases, KnownTopics
  <2>2. CASE JoinRefused
    BY <2>2, EndKeepsRefs DEF JoinRefused
  <2>3. CASE JoinRejected
    BY <2>3, LoseKeepsRefs DEF JoinRejected
  <2>4. CASE SocketLost
    BY <2>4, LoseKeepsRefs DEF SocketLost
  <2>5. QED
    BY <1>8, <2>1, <2>2, <2>3, <2>4 DEF Frame
<1>9. CASE RunCommand
  <2>1. ASSUME NEW w \in BOOLEAN, RunForeground(w)
        PROVE  RefInv'
    BY <2>1 DEF RunForeground, RefInv, SocketPhases, KnownTopics
  <2>2. ASSUME NEW t \in Topic, RunJoin(t)
        PROVE  RefInv'
    <3>1. PICK ok \in Writes : JoinTopic(t, ok)
      BY <2>2 DEF RunJoin
    <3>2. phase = "serve" /\ UNCHANGED <<phase, up, todo>>
      BY <2>2 DEF RunJoin, Command
    <3>3. QED
      BY <3>1, <3>2, JoinAgrees
  <2>3. ASSUME NEW t \in Topic, RunLeave(t)
        PROVE  RefInv'
    <3>1. /\ phase = "serve"
          /\ joined' = [x \in DOMAIN joined \ {t} |-> joined[x]]
          /\ srv' = IF t \in DOMAIN joined /\ up /\ joined[t] = srv[t]
                    THEN [srv EXCEPT ![t] = 0] ELSE srv
          /\ UNCHANGED <<phase, todo, refs, up>>
      BY <2>3 DEF RunLeave, Command
    <3>2. srv' \in [Topic -> Nat]
      BY <3>1 DEF RefInv
    <3>3. ASSUME up, NEW x \in Topic, srv'[x] # 0
          PROVE  x \in DOMAIN joined' /\ joined'[x] = srv'[x]
      <4>1. srv[x] # 0 => x \in DOMAIN joined /\ joined[x] = srv[x]
        BY <3>3 DEF RefInv, KnownTopics
      <4>2. x # t /\ srv'[x] = srv[x]
        BY <3>1, <3>3, <4>1 DEF RefInv
      <4>3. QED
        BY <3>1, <3>3, <4>1, <4>2
    <3>4. QED
      BY <3>1, <3>2, <3>3 DEF RefInv, SocketPhases, KnownTopics
  <2>4. ASSUME NEW t \in Topic, RunSend(t)
        PROVE  RefInv'
    BY <2>4 DEF RunSend, task, server, RefInv, SocketPhases, KnownTopics
  <2>5. CASE RunClose \/ RunShutdown
    BY <2>5, EndKeepsRefs DEF RunClose, RunShutdown
  <2>6. QED
    BY <1>9, <2>1, <2>2, <2>3, <2>4, <2>5 DEF RunCommand
<1>10. CASE Worker
  <2>1. UNCHANGED <<task, server>>
    BY <1>10 DEF Worker, AskTopic, SetForeground, CloseSession, Shutdown, DropHandle
  <2>2. QED
    BY <2>1 DEF task, server, RefInv, SocketPhases, KnownTopics
<1>11. CASE Answer
  BY <1>11 DEF Answer, task, RefInv, SocketPhases, KnownTopics
<1>12. CASE Break
  BY <1>12 DEF Break, task, RefInv, SocketPhases, KnownTopics
<1>13. CASE ReportExpires
  BY <1>13 DEF ReportExpires, task, RefInv, SocketPhases, KnownTopics
<1>14. CASE Stable
  BY <1>14 DEF Stable, server, RefInv, SocketPhases, KnownTopics
<1>15. CASE UNCHANGED vars
  BY <1>15 DEF vars, task, server, RefInv, SocketPhases, KnownTopics
<1>16. QED
  BY <1>1, <1>2, <1>3, <1>4, <1>5, <1>6, <1>7, <1>8, <1>9, <1>10, <1>11, <1>12, <1>13,
     <1>14, <1>15 DEF Next

\* A served connection and its server mean the same join of every topic, for any
\* commands, lost sockets, failed writes and refused joins (run_session).
THEOREM RefsAgree == Spec => []AgreedRefs
<1>1. Init => RefInv
  <2>1. SUFFICES ASSUME phase = "connect", refs = 0, up = FALSE, srv = [t \in Topic |-> 0]
                 PROVE  RefInv
    BY DEF Init
  <2>2. QED
    BY <2>1 DEF RefInv, Phases, SocketPhases, KnownTopics
<1>2. RefInv /\ [Next]_vars => RefInv'
  BY StepKeepsRefs
<1>3. RefInv => AgreedRefs
  BY DEF RefInv, KnownTopics, AgreedRefs
<1>4. QED
  BY <1>1, <1>2, <1>3, PTL DEF Spec

-----------------------------------------------------------------------------
(* The events.                                                             *)

\* Every step keeps the invariant of the events.
LEMMA StepKeepsTold ==
    ASSUME ToldInv, [Next]_vars
    PROVE  ToldInv'
<1> USE DEF ToldInv, ToldTheTruth
<1>1. CASE Connect
  BY <1>1 DEF Connect, ConnectOk, ConnectRefused, ConnectFails, Ends, Lose
<1>2. CASE JoinUser
  BY <1>2 DEF JoinUser, Lose
<1>3. CASE Rejoin \/ Serve
  BY <1>3 DEF Rejoin, Serve
<1>4. CASE WaitEnds
  BY <1>4 DEF WaitEnds, Ends
<1>5. CASE Heartbeat \/ VisibilityResend
  BY <1>5 DEF Heartbeat, VisibilityResend, Lose, task
<1>6. CASE Frame
  BY <1>6 DEF Frame, UserJoined, JoinRefused, JoinRejected, SocketLost, Ends, Lose
<1>7. CASE RunCommand
  <2>1. CASE RunClose \/ RunShutdown
    BY <2>1 DEF RunClose, RunShutdown, Ends
  <2>2. ASSUME NEW w \in BOOLEAN, RunForeground(w)
        PROVE  UNCHANGED <<phase, acked, told>>
    BY <2>2 DEF RunForeground
  <2>3. ASSUME NEW t \in Topic, RunJoin(t) \/ RunLeave(t) \/ RunSend(t)
        PROVE  UNCHANGED <<phase, acked, told>>
    BY <2>3 DEF RunJoin, RunLeave, RunSend, task
  <2>4. QED
    BY <1>7, <2>1, <2>2, <2>3 DEF RunCommand
<1>8. CASE Worker
  <2>1. UNCHANGED <<task, told>>
    BY <1>8 DEF Worker, AskTopic, SetForeground, CloseSession, Shutdown, DropHandle
  <2>2. QED
    BY <2>1 DEF task
<1>9. CASE Answer \/ Break \/ ReportExpires \/ Stable
  BY <1>9 DEF Answer, Break, ReportExpires, Stable, task
<1>10. CASE UNCHANGED vars
  BY <1>10 DEF vars, task
<1>11. QED
  BY <1>1, <1>2, <1>3, <1>4, <1>5, <1>6, <1>7, <1>8, <1>9, <1>10 DEF Next

\* The last event tells the worker whether its user topic is joined: every loss
\* is reported before the next connection (SessionEvent).
THEOREM EventsAreTrue == Spec => []ToldTheTruth
<1>1. Init => ToldInv
  BY DEF Init, ToldInv, ToldTheTruth
<1>2. ToldInv /\ [Next]_vars => ToldInv'
  BY StepKeepsTold
<1>3. ToldInv => ToldTheTruth
  BY DEF ToldInv
<1>4. QED
  BY <1>1, <1>2, <1>3, PTL DEF Spec

-----------------------------------------------------------------------------
(* The close.                                                              *)

\* Once the session is closed, no step begins an attempt to connect
\* (wait_before_reconnect, and the check at the top of the loop).
THEOREM ClosedStaysClosed == Spec => NoConnectAfterClose
<1>1. [Next]_vars => [shutdown /\ phase # "connect" => phase' # "connect"]_vars
  <2>1. SUFFICES ASSUME Next, shutdown, phase # "connect"
                 PROVE  phase' # "connect"
    OBVIOUS
  <2>2. CASE Connect \/ JoinUser \/ Rejoin \/ Serve \/ WaitEnds
    BY <2>1, <2>2 DEF Connect, ConnectOk, ConnectRefused, ConnectFails, JoinUser, Rejoin,
                      Serve, WaitEnds, Ends, Lose
  <2>3. CASE Heartbeat \/ VisibilityResend \/ Frame
    BY <2>1, <2>3 DEF Heartbeat, VisibilityResend, Frame, UserJoined, JoinRefused,
                      JoinRejected, SocketLost, Ends, Lose, task
  <2>4. CASE RunCommand
    BY <2>1, <2>4 DEF RunCommand, RunForeground, RunJoin, RunLeave, RunSend, RunClose,
                      RunShutdown, Ends, task
  <2>5. CASE Worker
    BY <2>1, <2>5 DEF Worker, AskTopic, SetForeground, CloseSession, Shutdown, DropHandle, task
  <2>6. CASE Answer \/ Break \/ ReportExpires \/ Stable
    BY <2>1, <2>6 DEF Answer, Break, ReportExpires, Stable, task
  <2>7. QED
    BY <2>1, <2>2, <2>3, <2>4, <2>5, <2>6 DEF Next
<1>2. QED
  BY <1>1, PTL DEF Spec, NoConnectAfterClose

-----------------------------------------------------------------------------
(***************************************************************************)
(* The types, the topics and the waits.                                    *)
(*                                                                         *)
(* TopicsFollowCommands speaks of topics without a waiting command.  Its   *)
(* invariant says of the others what the last of their commands makes of   *)
(* the wish, and that the rejoin loop adds no topic.  WaitPaced counts the *)
(* losses without the cap of the code: failures are the losses, capped.    *)
(***************************************************************************)

For(c, t) == c.do \in {"join", "leave"} /\ c.arg = t

\* The last waiting command for a topic is what the worker wants of it.
LastWish ==
    phase # "ended" => \A t \in Topic : \A i \in DOMAIN commands :
        /\ For(commands[i], t)
        /\ \A j \in DOMAIN commands : j > i => ~For(commands[j], t)
        => wish[t] = IF commands[i].do = "join" THEN "in" ELSE "out"

\* The topics to join again are topics of the connection before.
RejoinsKnown == phase = "rejoin" => todo \subseteq DOMAIN joined

\* The inductive invariant behind SessionSound.
SoundInv ==
    /\ TypeOK
    /\ TopicsFollowCommands
    /\ LastWish
    /\ RejoinsKnown
    /\ failures = Capped(flaps)
    /\ WaitPaced

\* A delay without a hint grows with the losses, is a multiple of four quarters
\* and stays below the cap (nominal_delay).
LEMMA NominalBounds ==
    ASSUME NEW n \in Nat
    PROVE  /\ NominalDelay(n) \in Nat /\ NominalDelay(n) <= MaxDelay
           /\ NominalDelay(n) % 4 = 0
  <1>1. Capped(n) \in 0 .. MaxDoublings
    BY SessionConstants DEF Capped, Smaller
  <1>2. 2^Capped(n) \in Nat
    BY <1>1, PowersAreNat
  <1> DEFINE p == 2^Capped(n)
  <1>3. PICK b \in Nat : BaseDelay = 4 * b
    <2>1. BaseDelay = 4 * (BaseDelay \div 4) /\ BaseDelay \div 4 \in Nat
      BY SessionConstants
    <2>2. QED
      BY <2>1
  <1>4. PICK m \in Nat : MaxDelay = 4 * m
    <2>1. MaxDelay = 4 * (MaxDelay \div 4) /\ MaxDelay \div 4 \in Nat
      BY SessionConstants
    <2>2. QED
      BY <2>1
  <1>5. b * p \in Nat /\ BaseDelay * p = 4 * (b * p)
    <2>1. p \in Nat
      BY <1>2
    <2> HIDE DEF p
    <2>2. QED
      BY <2>1, <1>3
  <1>6. NominalDelay(n) = Smaller(4 * (b * p), 4 * m)
    BY <1>4, <1>5 DEF NominalDelay
  <1>7. PICK q \in Nat : q = b * p
    BY <1>5
  <1>8. NominalDelay(n) = Smaller(4 * q, 4 * m)
    BY <1>6, <1>7
  <1>9. NominalDelay(n) \in {4 * q, 4 * m} /\ NominalDelay(n) <= 4 * m
    BY <1>8 DEF Smaller
  <1>10. QED
    BY <1>4, <1>9

\* next_delay: at least three quarters of the nominal delay and the hint, at
\* most five quarters of the longest delay or the longest hint.
LEMMA DelayBounds ==
    ASSUME NEW h \in Nat, NEW unit \in 0 .. 2, FailuresNow \in Nat
    PROVE  /\ NextDelay(h, unit) \in Nat
           /\ 4 * NextDelay(h, unit) >= 3 * NominalDelay(FailuresNow)
           /\ NextDelay(h, unit) >= Smaller(h, MaxRetryAfter)
           /\ 4 * NextDelay(h, unit) <= Greater(5 * MaxDelay, 4 * MaxRetryAfter)
  <1> DEFINE d == NominalDelay(FailuresNow)
             x == Smaller(h, MaxRetryAfter)
             b == Jittered(d, unit)
             s == SpreadUpwards(x, unit)
  <1>1. d \in Nat /\ d <= MaxDelay /\ d % 4 = 0
    BY NominalBounds
  <1>2. PICK e \in Nat : d = 4 * e
    <2> HIDE DEF d
    <2>1. d = 4 * (d \div 4) /\ d \div 4 \in Nat
      BY <1>1
    <2>2. QED
      BY <2>1
  <1>3. b = e * (3 + unit) /\ b \in Nat /\ 3 * d <= 4 * b /\ 4 * b <= 5 * d
    <2> HIDE DEF d
    <2>1. unit = 0 \/ unit = 1 \/ unit = 2
      OBVIOUS
    <2>2. CASE unit = 0
      BY <1>2, <2>2 DEF Jittered
    <2>3. CASE unit = 1
      BY <1>2, <2>3 DEF Jittered
    <2>4. CASE unit = 2
      BY <1>2, <2>4 DEF Jittered
    <2>5. QED
      BY <2>1, <2>2, <2>3, <2>4
  <1>4. x \in Nat /\ x <= MaxRetryAfter
    BY SessionConstants DEF Smaller
  <1>5. s \in Nat /\ s >= x
    <2> HIDE DEF x
    <2>1. unit = 0 \/ unit = 1 \/ unit = 2
      OBVIOUS
    <2>2. QED
      BY <1>4, <2>1 DEF SpreadUpwards
  <1>6. NextDelay(h, unit) = Greater(b, Smaller(s, MaxRetryAfter))
    BY DEF NextDelay
  <1> HIDE DEF d, x, b, s
  <1>7. /\ NextDelay(h, unit) \in Nat
        /\ 4 * NextDelay(h, unit) >= 3 * d
        /\ NextDelay(h, unit) >= x
        /\ 4 * NextDelay(h, unit) <= Greater(5 * MaxDelay, 4 * MaxRetryAfter)
    BY <1>1, <1>3, <1>4, <1>5, <1>6, SessionConstants DEF Smaller, Greater
  <1>8. QED
    BY <1>7 DEF d, x

Told == {"connecting", "connected", "disconnected", "reconnecting", "refused"}

\* A lost connection leaves a delay that fits the losses and the hint.
LEMMA LosePaces ==
    ASSUME TypeOK, failures = Capped(flaps), NEW e \in Told, NEW h \in Nat, Lose(e, h)
    PROVE  /\ wait' \in Nat /\ failures' \in 0 .. MaxDoublings /\ flaps' \in Nat /\ hint' \in Nat
           /\ told' \in Told /\ phase' \in {"ended", "wait"}
           /\ flushed' \in {"none", "open", "done"} /\ up' = FALSE /\ answer' = "none"
           /\ failures' = Capped(flaps)' /\ WaitPaced'
  <1>1. FailuresNow \in Nat /\ FailuresNow <= MaxDoublings
    BY SessionConstants DEF TypeOK, FailuresNow
  <1>2. PICK unit \in 0 .. 2 : wait' = NextDelay(h, unit)
    BY DEF Lose
  <1>3. /\ wait' \in Nat
        /\ 4 * wait' >= 3 * NominalDelay(FailuresNow)
        /\ wait' >= Smaller(h, MaxRetryAfter)
        /\ 4 * wait' <= Greater(5 * MaxDelay, 4 * MaxRetryAfter)
    BY <1>1, <1>2, DelayBounds
  <1>4. flaps' \in Nat /\ flaps' - 1 \in Nat /\ Capped(flaps' - 1) = Capped(FailuresNow)
    BY SessionConstants DEF Lose, TypeOK, FailuresNow, Capped, Smaller
  <1>5. failures' \in 0 .. MaxDoublings /\ failures' = Capped(flaps')
    BY SessionConstants DEF Lose, TypeOK, FailuresNow, Capped, Smaller
  <1>6. NominalDelay(flaps' - 1) = NominalDelay(FailuresNow)
    BY <1>4 DEF NominalDelay
  <1>7. hint' = h /\ told' \in Told /\ phase' \in {"ended", "wait"}
        /\ flushed' \in {"none", "open", "done"} /\ up' = FALSE /\ answer' = "none"
    BY DEF Lose, TypeOK
  <1>8. WaitPaced'
    BY <1>3, <1>6, <1>7 DEF WaitPaced
  <1>9. QED
    BY <1>3, <1>4, <1>5, <1>7, <1>8

\* What is kept of the waits when no connection is lost.
LEMMA NoLossPaces ==
    ASSUME failures = Capped(flaps), WaitPaced, UNCHANGED <<failures, wait, flaps, hint>>,
           phase' = "wait" => phase = "wait"
    PROVE  failures' = Capped(flaps)' /\ WaitPaced'
  BY DEF WaitPaced, Capped

PacedInv == TypeOK /\ failures = Capped(flaps) /\ WaitPaced

\* A connection that is lost keeps the types and the waits.
LEMMA LoseKeepsPaced ==
    ASSUME PacedInv, NEW e \in Told, NEW h \in Nat, Lose(e, h),
           UNCHANGED <<joined, todo, refs, foreground, acked, age, commands, shutdown, worker,
                       srv, visible, missed>>
    PROVE  PacedInv'
<1>1. /\ wait' \in Nat /\ failures' \in 0 .. MaxDoublings /\ flaps' \in Nat /\ hint' \in Nat
      /\ told' \in Told /\ phase' \in {"ended", "wait"}
      /\ flushed' \in {"none", "open", "done"} /\ up' = FALSE /\ answer' = "none"
      /\ failures' = Capped(flaps)' /\ WaitPaced'
  BY LosePaces DEF PacedInv
<1>2. TypeOK'
  BY <1>1 DEF PacedInv, TypeOK, Told, worker
<1>3. QED
  BY <1>1, <1>2 DEF PacedInv

\* The end of the task does, too.
LEMMA EndKeepsPaced ==
    ASSUME PacedInv, NEW e \in Told, Ends(e)
    PROVE  PacedInv'
<1>1. TypeOK'
  BY DEF PacedInv, TypeOK, Ends, Told, worker, ghost
<1>2. failures' = Capped(flaps)' /\ WaitPaced'
  BY NoLossPaces DEF PacedInv, Ends, ghost
<1>3. QED
  BY <1>1, <1>2 DEF PacedInv

\* A join leaves refs and topics of their types.
LEMMA JoinTypes ==
    ASSUME TypeOK, NEW t \in Topic, NEW ok \in BOOLEAN, JoinTopic(t, ok)
    PROVE  /\ refs' \in Nat /\ srv' \in [Topic -> Nat]
           /\ DOMAIN joined' \subseteq Topic
           /\ \A x \in DOMAIN joined' : joined'[x] \in Nat \ {0}
           /\ DOMAIN joined' = IF ok THEN DOMAIN joined \cup {t} ELSE DOMAIN joined
  <1>1. refs + 1 \in Nat \ {0}
    BY DEF TypeOK
  <1>2. srv' \in [Topic -> Nat]
    <2>1. CASE up
      <3>1. PICK r \in {0, refs + 1} : srv' = [srv EXCEPT ![t] = r]
        BY <2>1 DEF JoinTopic
      <3>2. QED
        BY <1>1, <3>1 DEF TypeOK
    <2>2. CASE ~up
      BY <2>2 DEF JoinTopic, TypeOK
    <2>3. QED
      BY <2>1, <2>2
  <1>3. QED
    BY <1>1, <1>2 DEF JoinTopic, TypeOK

\* The commands that wait stay commands.
LEMMA CommandTypes ==
    ASSUME TypeOK
    PROVE  /\ commands # <<>> => Tail(commands) \in Seq(CommandType) /\ Head(commands) \in CommandType
           /\ \A c \in CommandType : Append(commands, c) \in Seq(CommandType)
  BY DEF TypeOK

\* Every step keeps the types and the waits.
LEMMA StepKeepsPaced ==
    ASSUME PacedInv, [Next]_vars
    PROVE  PacedInv'
<1> TypeOK
  BY DEF PacedInv
<1>0. ASSUME TypeOK', UNCHANGED <<failures, wait, flaps, hint>>, phase' = "wait" => phase = "wait"
      PROVE  PacedInv'
  BY <1>0, NoLossPaces DEF PacedInv
<1>1. CASE Connect
  <2>1. CASE ConnectOk
    <3>1. TypeOK'
      BY <2>1 DEF ConnectOk, TypeOK, worker, ghost
    <3>2. QED
      BY <1>0, <2>1, <3>1 DEF ConnectOk, ghost
  <2>2. CASE ConnectRefused
    BY <2>2, EndKeepsPaced DEF ConnectRefused, Told
  <2>3. CASE ConnectFails
    <3>1. PICK h \in Hints \cup {0} : Lose("reconnecting", h)
      BY <2>3 DEF ConnectFails
    <3>2. h \in Nat /\ "reconnecting" \in Told
      BY SessionConstants DEF Told
    <3>3. QED
      BY <2>3, <3>1, <3>2, LoseKeepsPaced DEF ConnectFails
  <2>4. QED
    BY <1>1, <2>1, <2>2, <2>3 DEF Connect
<1>2. CASE JoinUser
  <2>1. CASE Lose("reconnecting", 0) /\ UNCHANGED <<refs, todo>>
    BY <1>2, <2>1, LoseKeepsPaced DEF JoinUser, Told
  <2>2. CASE /\ phase' = "rejoin" /\ refs' = 1 /\ todo' = DOMAIN joined
             /\ UNCHANGED <<failures, wait, flushed, told, up, answer, flaps, hint>>
    <3>1. TypeOK'
      BY <1>2, <2>2 DEF JoinUser, TypeOK, worker
    <3>2. QED
      BY <1>0, <2>2, <3>1
  <2>3. QED
    BY <1>2, <2>1, <2>2 DEF JoinUser
<1>3. CASE Rejoin
  <2>1. PICK t \in todo, ok \in Writes : todo' = todo \ {t} /\ JoinTopic(t, ok)
    BY <1>3 DEF Rejoin
  <2>2. t \in Topic /\ ok \in BOOLEAN
    BY DEF TypeOK, Writes
  <2>3. TypeOK'
    <3>1. /\ refs' \in Nat /\ srv' \in [Topic -> Nat] /\ DOMAIN joined' \subseteq Topic
          /\ \A x \in DOMAIN joined' : joined'[x] \in Nat \ {0}
      BY <2>1, <2>2, JoinTypes
    <3>2. QED
      BY <1>3, <2>1, <3>1 DEF Rejoin, TypeOK, worker, ghost
  <2>4. QED
    BY <1>0, <1>3, <2>3 DEF Rejoin, ghost
<1>4. CASE Serve
  <2>1. TypeOK'
    BY <1>4 DEF Serve, TypeOK, worker, server, ghost
  <2>2. QED
    BY <1>0, <1>4, <2>1 DEF Serve, ghost
<1>5. CASE WaitEnds
  <2>1. CASE Ends(told)
    BY <2>1, EndKeepsPaced DEF TypeOK, Told
  <2>2. CASE /\ phase' = "connect" /\ acked' = FALSE /\ age' = "none"
             /\ UNCHANGED <<joined, todo, refs, foreground, failures, wait, commands, shutdown,
                            flushed, told, worker, server, ghost>>
    <3>1. UNCHANGED <<joined, todo, refs, foreground, failures, wait, commands, shutdown, flushed,
                      told, handle, issued, window, wish, up, srv, visible, answer, missed,
                      flaps, hint>>
      BY <2>2 DEF worker, server, ghost
    <3>2. TypeOK'
      <4>1. phase' \in Phases /\ acked' \in BOOLEAN /\ age' \in {"none", "young", "stable"}
        BY <2>2 DEF Phases
      <4>2. QED
        BY <3>1, <4>1 DEF TypeOK, Phases
    <3>3. QED
      BY <1>0, <2>2, <3>1, <3>2
  <2>3. QED
    BY <1>5, <2>1, <2>2 DEF WaitEnds
<1>6. CASE Heartbeat
  BY <1>6, LoseKeepsPaced DEF Heartbeat, Told
<1>7. CASE VisibilityResend \/ Answer \/ Break \/ ReportExpires
  <2>1. /\ up' \in BOOLEAN /\ visible' \in BOOLEAN
        /\ answer' \in {"none", "ok", "forbidden", "rejected"}
    BY <1>7 DEF VisibilityResend, Answer, Break, ReportExpires, TypeOK
  <2>2. UNCHANGED <<task, commands, shutdown, flushed, told, worker, srv, ghost>>
    BY <1>7 DEF VisibilityResend, Answer, Break, ReportExpires
  <2>3. TypeOK'
    BY <2>1, <2>2 DEF TypeOK, task, worker, ghost
  <2>4. QED
    BY <1>0, <2>2, <2>3 DEF task, ghost
<1>8. CASE Frame
  <2>1. CASE UserJoined
    <3>1. TypeOK'
      BY <2>1 DEF UserJoined, TypeOK, worker, ghost
    <3>2. QED
      BY <1>0, <2>1, <3>1 DEF UserJoined, ghost
  <2>2. CASE JoinRefused
    BY <2>2, EndKeepsPaced DEF JoinRefused, Told
  <2>3. CASE JoinRejected
    BY <2>3, LoseKeepsPaced DEF JoinRejected, Told
  <2>4. CASE SocketLost
    BY <2>4, LoseKeepsPaced DEF SocketLost, Told
  <2>5. QED
    BY <1>8, <2>1, <2>2, <2>3, <2>4 DEF Frame
<1>9. CASE RunCommand
  <2>1. ASSUME NEW w \in BOOLEAN, RunForeground(w)
        PROVE  PacedInv'
    <3>1. commands' \in Seq(CommandType)
      BY <2>1, CommandTypes DEF RunForeground, Command
    <3>2. TypeOK'
      BY <2>1, <3>1 DEF RunForeground, TypeOK, worker, ghost
    <3>3. QED
      BY <1>0, <2>1, <3>2 DEF RunForeground, ghost
  <2>2. ASSUME NEW t \in Topic, RunJoin(t)
        PROVE  PacedInv'
    <3>1. commands' \in Seq(CommandType)
      BY <2>2, CommandTypes DEF RunJoin, Command
    <3>2. PICK ok \in Writes : JoinTopic(t, ok)
      BY <2>2 DEF RunJoin
    <3>3. /\ refs' \in Nat /\ srv' \in [Topic -> Nat] /\ DOMAIN joined' \subseteq Topic
          /\ \A x \in DOMAIN joined' : joined'[x] \in Nat \ {0}
      BY <3>2, JoinTypes DEF Writes, TypeOK
    <3>4. missed' \subseteq Topic
      BY <2>2 DEF RunJoin, TypeOK
    <3>5. TypeOK'
      BY <2>2, <3>1, <3>3, <3>4 DEF RunJoin, TypeOK, worker
    <3>6. QED
      BY <1>0, <2>2, <3>5 DEF RunJoin
  <2>3. ASSUME NEW t \in Topic, RunLeave(t)
        PROVE  PacedInv'
    <3>1. commands' \in Seq(CommandType)
      BY <2>3, CommandTypes DEF RunLeave, Command
    <3>2. TypeOK'
      BY <2>3, <3>1 DEF RunLeave, TypeOK, worker
    <3>3. QED
      BY <1>0, <2>3, <3>2 DEF RunLeave
  <2>4. ASSUME NEW t \in Topic, RunSend(t)
        PROVE  PacedInv'
    <3>1. commands' \in Seq(CommandType)
      BY <2>4, CommandTypes DEF RunSend, Command
    <3>2. TypeOK'
      BY <2>4, <3>1 DEF RunSend, TypeOK, task, worker, server, ghost
    <3>3. QED
      BY <1>0, <2>4, <3>2 DEF RunSend, task, ghost
  <2>5. CASE RunClose \/ RunShutdown
    BY <2>5, EndKeepsPaced DEF RunClose, RunShutdown, TypeOK, Told
  <2>6. QED
    BY <1>9, <2>1, <2>2, <2>3, <2>4, <2>5 DEF RunCommand
<1>10. CASE Worker
  <2>1. ASSUME NEW t \in Topic, NEW do \in {"join", "leave", "send"}, AskTopic(t, do)
        PROVE  PacedInv'
    <3>1. [do |-> do, arg |-> t] \in CommandType
      BY DEF CommandType
    <3>2. commands' \in Seq(CommandType) /\ issued' \in 0 .. MaxCommands
      BY <2>1, <3>1, CommandTypes, SessionConstants DEF AskTopic, Sends, TypeOK
    <3>3. wish' \in [Topic -> {"in", "out"}]
      BY <2>1 DEF AskTopic, TypeOK
    <3>4. TypeOK'
      BY <2>1, <3>2, <3>3 DEF AskTopic, TypeOK, task, server, ghost
    <3>5. QED
      BY <1>0, <2>1, <3>4 DEF AskTopic, task, ghost
  <2>2. ASSUME NEW w \in BOOLEAN, SetForeground(w)
        PROVE  PacedInv'
    <3>1. [do |-> "foreground", arg |-> w] \in CommandType
      BY DEF CommandType
    <3>2. commands' \in Seq(CommandType) /\ issued' \in 0 .. MaxCommands
      BY <2>2, <3>1, CommandTypes, SessionConstants DEF SetForeground, Sends, TypeOK
    <3>3. TypeOK'
      BY <2>2, <3>2 DEF SetForeground, TypeOK, task, server, ghost
    <3>4. QED
      BY <1>0, <2>2, <3>3 DEF SetForeground, task, ghost
  <2>3. CASE CloseSession \/ Shutdown \/ DropHandle
    <3>1. [do |-> "close", arg |-> None] \in CommandType /\ [do |-> "shutdown", arg |-> None] \in CommandType
      BY DEF CommandType
    <3>2. commands' \in Seq(CommandType)
      BY <2>3, <3>1, CommandTypes DEF CloseSession, Shutdown, DropHandle, TypeOK
    <3>3. /\ handle' \in BOOLEAN /\ shutdown' \in BOOLEAN
          /\ flushed' \in {"none", "open", "done"}
      BY <2>3 DEF CloseSession, Shutdown, DropHandle, TypeOK
    <3>4. UNCHANGED <<task, told, issued, window, wish, server, ghost>>
      BY <2>3 DEF CloseSession, Shutdown, DropHandle
    <3>5. TypeOK'
      BY <3>2, <3>3, <3>4 DEF TypeOK, task, server, ghost
    <3>6. QED
      BY <1>0, <3>4, <3>5 DEF task, ghost
  <2>4. QED
    BY <1>10, <2>1, <2>2, <2>3 DEF Worker
<1>11. CASE Stable
  <2>1. TypeOK'
    BY <1>11 DEF Stable, TypeOK, worker, server, ghost
  <2>2. QED
    BY <1>0, <1>11, <2>1 DEF Stable, ghost
<1>12. CASE UNCHANGED vars
  <2>1. TypeOK'
    BY <1>12 DEF vars, TypeOK, task, worker, server, ghost
  <2>2. QED
    BY <1>0, <1>12, <2>1 DEF vars, task, ghost
<1>13. QED
  BY <1>1, <1>2, <1>3, <1>4, <1>5, <1>6, <1>7, <1>8, <1>9, <1>10, <1>11, <1>12 DEF Next

TopicInv == TopicsFollowCommands /\ LastWish /\ RejoinsKnown

\* Reading a command: a topic that is free of commands was free before, or the
\* command was the last for it and is what the worker wants.
LEMMA ReadCommand ==
    ASSUME TypeOK, LastWish, phase = "serve", commands # <<>>, commands' = Tail(commands),
           UNCHANGED <<phase, wish>>
    PROVE  /\ LastWish'
           /\ \A t \in Topic : ~Pending(t)' =>
                  \/ ~Pending(t) /\ ~For(Head(commands), t)
                  \/ For(Head(commands), t)
                     /\ wish[t] = IF Head(commands).do = "join" THEN "in" ELSE "out"
<1>1. /\ Len(commands) \in Nat \ {0} /\ DOMAIN commands = 1 .. Len(commands)
      /\ DOMAIN commands' = 1 .. Len(commands) - 1
      /\ \A i \in 1 .. Len(commands) - 1 : commands'[i] = commands[i + 1]
      /\ Head(commands) = commands[1]
  BY DEF TypeOK
<1>2. LastWish'
  <2>1. SUFFICES ASSUME NEW t \in Topic, NEW i \in DOMAIN commands', For(commands'[i], t),
                        \A j \in DOMAIN commands' : j > i => ~For(commands'[j], t)
                 PROVE  wish[t] = IF commands'[i].do = "join" THEN "in" ELSE "out"
    BY DEF LastWish, For
  <2>2. i + 1 \in DOMAIN commands /\ commands'[i] = commands[i + 1]
    BY <1>1, <2>1
  <2>3. ASSUME NEW j \in DOMAIN commands, j > i + 1
        PROVE  ~For(commands[j], t)
    <3>1. j - 1 \in DOMAIN commands' /\ commands'[j - 1] = commands[j] /\ j - 1 > i
      BY <1>1, <2>1, <2>3
    <3>2. QED
      BY <2>1, <3>1
  <2>4. QED
    BY <2>1, <2>2, <2>3 DEF LastWish
<1>3. ASSUME NEW t \in Topic, ~Pending(t)'
      PROVE  \A j \in DOMAIN commands : j > 1 => ~For(commands[j], t)
  <2>1. SUFFICES ASSUME NEW j \in DOMAIN commands, j > 1, For(commands[j], t)
                 PROVE  FALSE
    OBVIOUS
  <2>2. j - 1 \in DOMAIN commands' /\ commands'[j - 1] = commands[j]
    BY <1>1, <2>1
  <2>3. QED
    BY <1>3, <2>1, <2>2 DEF Pending, For
<1>4. ASSUME NEW t \in Topic, ~Pending(t)'
      PROVE  \/ ~Pending(t) /\ ~For(Head(commands), t)
             \/ For(Head(commands), t)
                /\ wish[t] = IF Head(commands).do = "join" THEN "in" ELSE "out"
  <2>1. CASE For(Head(commands), t)
    <3>1. 1 \in DOMAIN commands /\ For(commands[1], t)
      BY <1>1, <2>1
    <3>2. QED
      BY <1>1, <1>3, <1>4, <2>1, <3>1 DEF LastWish
  <2>2. CASE ~For(Head(commands), t)
    <3>1. ASSUME NEW i \in DOMAIN commands
          PROVE  ~For(commands[i], t)
      BY <1>1, <1>3, <1>4, <2>2
    <3>2. QED
      BY <2>2, <3>1 DEF Pending, For
  <2>3. QED
    BY <2>1, <2>2
<1>5. QED
  BY <1>2, <1>4

\* A command of the worker: it is the last for its topic.
LEMMA NewCommand ==
    ASSUME TypeOK, LastWish, TopicsFollowCommands, NEW c \in CommandType, phase # "ended",
           commands' = Append(commands, c), UNCHANGED <<phase, joined, missed>>,
           \A t \in Topic : wish'[t] = IF ~For(c, t) THEN wish[t]
                                       ELSE IF c.do = "join" THEN "in" ELSE "out"
    PROVE  LastWish' /\ TopicsFollowCommands'
<1>1. /\ Len(commands) \in Nat /\ DOMAIN commands = 1 .. Len(commands)
      /\ DOMAIN commands' = 1 .. Len(commands) + 1
      /\ \A i \in 1 .. Len(commands) : commands'[i] = commands[i]
      /\ commands'[Len(commands) + 1] = c
  BY DEF TypeOK
<1>2. LastWish'
  <2>1. SUFFICES ASSUME NEW t \in Topic, NEW i \in DOMAIN commands', For(commands'[i], t),
                        \A j \in DOMAIN commands' : j > i => ~For(commands'[j], t)
                 PROVE  wish'[t] = IF commands'[i].do = "join" THEN "in" ELSE "out"
    BY DEF LastWish, For
  <2>2. CASE i = Len(commands) + 1
    BY <1>1, <2>1, <2>2
  <2>3. CASE i # Len(commands) + 1
    <3>1. i \in DOMAIN commands /\ commands'[i] = commands[i]
      BY <1>1, <2>3
    <3>2. ~For(c, t)
      BY <1>1, <2>1, <3>1
    <3>3. \A j \in DOMAIN commands : j > i => ~For(commands[j], t)
      BY <1>1, <2>1
    <3>4. QED
      BY <2>1, <3>1, <3>2, <3>3 DEF LastWish
  <2>4. QED
    BY <2>2, <2>3
<1>3. ASSUME NEW t \in Topic, ~Pending(t)'
      PROVE  ~Pending(t) /\ ~For(c, t)
  <2>1. ~For(c, t)
    BY <1>1, <1>3 DEF Pending, For
  <2>2. ASSUME NEW i \in DOMAIN commands
        PROVE  ~For(commands[i], t)
    <3>1. i \in DOMAIN commands' /\ commands'[i] = commands[i]
      BY <1>1
    <3>2. QED
      BY <1>3, <3>1 DEF Pending, For
  <2>3. QED
    BY <2>1, <2>2 DEF Pending, For
<1>4. QED
  BY <1>2, <1>3 DEF TopicsFollowCommands

\* A step that touches neither the topics nor the commands nor the wishes.
LEMMA QuietKeepsTopics ==
    ASSUME TopicInv, UNCHANGED <<joined, commands, wish, missed>>,
           phase = "ended" => phase' = "ended",
           phase' = "rejoin" => todo' \subseteq DOMAIN joined
    PROVE  TopicInv'
  BY DEF TopicInv, TopicsFollowCommands, LastWish, RejoinsKnown, Pending, For

\* The end of a connection or of the task, or a step of an ended task.
LEMMA EndKeepsTopics ==
    ASSUME TopicInv, UNCHANGED <<joined, commands, wish, missed>>, phase' \in {"wait", "ended"},
           phase # "ended"
    PROVE  TopicInv'
  BY QuietKeepsTopics

LEMMA EndedKeepsTopics ==
    ASSUME phase' = "ended"
    PROVE  TopicInv'
  BY DEF TopicInv, TopicsFollowCommands, LastWish, RejoinsKnown

\* Every step keeps the topics in line with the commands.
LEMMA StepKeepsTopics ==
    ASSUME TypeOK, TopicInv, [Next]_vars
    PROVE  TopicInv'
<1>1. CASE Connect
  <2>1. CASE ConnectOk
    BY <2>1, QuietKeepsTopics DEF ConnectOk, worker, ghost
  <2>2. CASE ConnectRefused
    BY <2>2, EndedKeepsTopics DEF ConnectRefused, Ends
  <2>3. CASE ConnectFails
    BY <2>3, EndKeepsTopics DEF ConnectFails, Lose, worker
  <2>4. QED
    BY <1>1, <2>1, <2>2, <2>3 DEF Connect
<1>2. CASE JoinUser
  <2>1. CASE Lose("reconnecting", 0)
    BY <1>2, <2>1, EndKeepsTopics DEF JoinUser, Lose, worker
  <2>2. CASE phase' = "rejoin" /\ todo' = DOMAIN joined
    BY <1>2, <2>2, QuietKeepsTopics DEF JoinUser, worker
  <2>3. QED
    BY <1>2, <2>1, <2>2 DEF JoinUser
<1>3. CASE Rejoin
  <2>1. PICK t \in todo, ok \in Writes : todo' = todo \ {t} /\ JoinTopic(t, ok)
    BY <1>3 DEF Rejoin
  <2>2. phase = "rejoin" /\ UNCHANGED <<phase, commands, wish, missed>>
    BY <1>3 DEF Rejoin, worker, ghost
  <2>3. t \in Topic /\ t \in DOMAIN joined
    BY <2>1, <2>2 DEF TypeOK, TopicInv, RejoinsKnown
  <2>4. DOMAIN joined' = DOMAIN joined
    BY <2>1, <2>3 DEF JoinTopic
  <2>5. QED
    BY <2>1, <2>2, <2>4 DEF TopicInv, TopicsFollowCommands, LastWish, RejoinsKnown, Pending, For
<1>4. CASE Serve
  BY <1>4, QuietKeepsTopics DEF Serve, worker, ghost
<1>5. CASE WaitEnds
  <2>1. CASE Ends(told)
    BY <2>1, EndedKeepsTopics DEF Ends
  <2>2. CASE phase' = "connect" /\ UNCHANGED <<joined, commands, worker, ghost>>
    BY <1>5, <2>2, QuietKeepsTopics DEF WaitEnds, worker, ghost
  <2>3. QED
    BY <1>5, <2>1, <2>2 DEF WaitEnds
<1>6. CASE Heartbeat \/ JoinRejected \/ SocketLost
  BY <1>6, EndKeepsTopics DEF Heartbeat, JoinRejected, SocketLost, Lose, worker
<1>7. CASE JoinRefused \/ RunClose \/ RunShutdown
  BY <1>7, EndedKeepsTopics DEF JoinRefused, RunClose, RunShutdown, Ends
<1>8. CASE VisibilityResend \/ UserJoined \/ Answer \/ Break \/ ReportExpires \/ Stable
  <2>1. UNCHANGED <<phase, joined, todo, commands, wish, missed>>
    BY <1>8 DEF VisibilityResend, UserJoined, Answer, Break, ReportExpires, Stable, task, worker,
                ghost
  <2>2. QED
    BY <2>1, QuietKeepsTopics DEF TopicInv, RejoinsKnown
<1>9. ASSUME NEW w \in BOOLEAN, RunForeground(w)
      PROVE  TopicInv'
  <2>1. /\ phase = "serve" /\ commands # <<>> /\ commands' = Tail(commands)
        /\ Head(commands) = [do |-> "foreground", arg |-> w]
        /\ UNCHANGED <<phase, joined, wish, missed>>
    BY <1>9 DEF RunForeground, Command, worker, ghost
  <2>2. \A t \in Topic : ~For(Head(commands), t)
    BY <2>1 DEF For
  <2>3. LastWish' /\ \A t \in Topic : ~Pending(t)' => ~Pending(t)
    BY <2>1, <2>2, ReadCommand DEF TopicInv
  <2>4. QED
    BY <2>1, <2>3 DEF TopicInv, TopicsFollowCommands, RejoinsKnown
<1>10. ASSUME NEW t \in Topic, RunSend(t)
       PROVE  TopicInv'
  <2>1. /\ phase = "serve" /\ commands # <<>> /\ commands' = Tail(commands)
        /\ Head(commands) = [do |-> "send", arg |-> t]
        /\ UNCHANGED <<phase, joined, wish, missed>>
    BY <1>10 DEF RunSend, Command, task, worker, ghost
  <2>2. \A x \in Topic : ~For(Head(commands), x)
    BY <2>1 DEF For
  <2>3. LastWish' /\ \A x \in Topic : ~Pending(x)' => ~Pending(x)
    BY <2>1, <2>2, ReadCommand DEF TopicInv
  <2>4. QED
    BY <2>1, <2>3 DEF TopicInv, TopicsFollowCommands, RejoinsKnown
<1>11. ASSUME NEW t \in Topic, RunJoin(t)
       PROVE  TopicInv'
  <2>1. /\ phase = "serve" /\ commands # <<>> /\ commands' = Tail(commands)
        /\ Head(commands) = [do |-> "join", arg |-> t]
        /\ UNCHANGED <<phase, wish>>
    BY <1>11 DEF RunJoin, Command, worker
  <2>2. PICK ok \in Writes :
           /\ JoinTopic(t, ok)
           /\ missed' = IF ok \/ t \in DOMAIN joined THEN missed \ {t} ELSE missed \cup {t}
    BY <1>11 DEF RunJoin
  <2>3. DOMAIN joined' = IF ok THEN DOMAIN joined \cup {t} ELSE DOMAIN joined
    BY <2>2 DEF JoinTopic
  <2>4. \A x \in Topic : For(Head(commands), x) <=> x = t
    BY <2>1 DEF For
  <2>5. /\ LastWish'
        /\ \A x \in Topic : ~Pending(x)' => \/ x # t /\ ~Pending(x)
                                            \/ x = t /\ wish[t] = "in"
    BY <2>1, <2>4, ReadCommand DEF TopicInv
  <2>6. ASSUME NEW x \in Topic, ~Pending(x)'
        PROVE  x \in DOMAIN joined' <=> (wish'[x] = "in" /\ x \notin missed')
    BY <2>1, <2>2, <2>3, <2>5, <2>6 DEF TopicInv, TopicsFollowCommands
  <2>7. QED
    BY <2>1, <2>5, <2>6 DEF TopicInv, TopicsFollowCommands, RejoinsKnown
<1>12. ASSUME NEW t \in Topic, RunLeave(t)
       PROVE  TopicInv'
  <2>1. /\ phase = "serve" /\ commands # <<>> /\ commands' = Tail(commands)
        /\ Head(commands) = [do |-> "leave", arg |-> t]
        /\ UNCHANGED <<phase, wish>>
        /\ DOMAIN joined' = DOMAIN joined \ {t} /\ missed' = missed \ {t}
    BY <1>12 DEF RunLeave, Command, worker
  <2>2. \A x \in Topic : For(Head(commands), x) <=> x = t
    BY <2>1 DEF For
  <2>3. /\ LastWish'
        /\ \A x \in Topic : ~Pending(x)' => \/ x # t /\ ~Pending(x)
                                            \/ x = t /\ wish[t] = "out"
    BY <2>1, <2>2, ReadCommand DEF TopicInv
  <2>4. ASSUME NEW x \in Topic, ~Pending(x)'
        PROVE  x \in DOMAIN joined' <=> (wish'[x] = "in" /\ x \notin missed')
    BY <2>1, <2>3, <2>4 DEF TopicInv, TopicsFollowCommands
  <2>5. QED
    BY <2>1, <2>3, <2>4 DEF TopicInv, TopicsFollowCommands, RejoinsKnown
<1>13. CASE Worker
  <2>0. UNCHANGED <<phase, joined, todo, missed>>
    BY <1>13 DEF Worker, AskTopic, SetForeground, CloseSession, Shutdown, DropHandle, task, ghost
  <2>1. CASE phase = "ended"
    BY <2>0, <2>1, EndedKeepsTopics
  <2>2. ASSUME phase # "ended", NEW c \in CommandType, commands' = Append(commands, c),
               \A t \in Topic : wish'[t] = IF ~For(c, t) THEN wish[t]
                                           ELSE IF c.do = "join" THEN "in" ELSE "out"
        PROVE  TopicInv'
    BY <2>0, <2>2, NewCommand DEF TopicInv, RejoinsKnown
  <2>3. ASSUME phase # "ended", NEW t \in Topic, NEW do \in {"join", "leave", "send"},
               AskTopic(t, do)
        PROVE  TopicInv'
    <3> DEFINE c == [do |-> do, arg |-> t]
    <3>1. c \in CommandType
      BY DEF CommandType
    <3>2. commands' = Append(commands, c)
      BY <2>3 DEF AskTopic, Sends
    <3>3. \A x \in Topic : wish'[x] = IF ~For(c, x) THEN wish[x]
                                      ELSE IF c.do = "join" THEN "in" ELSE "out"
      BY <2>3 DEF AskTopic, For, TypeOK
    <3>4. QED
      BY <2>2, <2>3, <3>1, <3>2, <3>3
  <2>4. ASSUME phase # "ended", NEW c \in CommandType, c.do \notin {"join", "leave"},
               commands' = Append(commands, c), UNCHANGED wish
        PROVE  TopicInv'
    BY <2>2, <2>4 DEF For
  <2>5. ASSUME phase # "ended", NEW w \in BOOLEAN, SetForeground(w)
        PROVE  TopicInv'
    <3>1. [do |-> "foreground", arg |-> w] \in CommandType
      BY DEF CommandType
    <3>2. commands' = Append(commands, [do |-> "foreground", arg |-> w]) /\ UNCHANGED wish
      BY <2>5 DEF SetForeground, Sends
    <3>3. QED
      BY <2>4, <2>5, <3>1, <3>2
  <2>6. CASE phase # "ended" /\ (CloseSession \/ Shutdown)
    <3>1. [do |-> "close", arg |-> None] \in CommandType /\ [do |-> "shutdown", arg |-> None] \in CommandType
      BY DEF CommandType
    <3>2. /\ \/ commands' = Append(commands, [do |-> "close", arg |-> None])
             \/ commands' = Append(commands, [do |-> "shutdown", arg |-> None])
          /\ UNCHANGED wish
      BY <2>6 DEF CloseSession, Shutdown
    <3>3. QED
      BY <2>4, <2>6, <3>1, <3>2
  <2>7. CASE DropHandle
    BY <2>0, <2>7, QuietKeepsTopics DEF DropHandle, TopicInv, RejoinsKnown
  <2>8. QED
    BY <1>13, <2>1, <2>3, <2>5, <2>6, <2>7 DEF Worker
<1>14. CASE UNCHANGED vars
  <2>1. UNCHANGED <<phase, joined, todo, commands, wish, missed>>
    BY <1>14 DEF vars, task, worker, ghost
  <2>2. QED
    BY <2>1, QuietKeepsTopics DEF TopicInv, RejoinsKnown
<1>15. QED
  BY <1>1, <1>2, <1>3, <1>4, <1>5, <1>6, <1>7, <1>8, <1>9, <1>10, <1>11, <1>12, <1>13, <1>14
     DEF Next, Frame, RunCommand

\* For every set of topics, every limit and every number of commands: a session
\* keeps the topics that the last commands ask for through every reconnect, and
\* waits as long as the losses in a row and the server ask, and no longer than
\* the caps (run_session, joined_topics, Backoff::next_delay).
THEOREM SessionStaysSound == Spec => []SessionSound
<1>1. Init => SoundInv
  <2>1. SUFFICES ASSUME Init
                 PROVE  SoundInv
    OBVIOUS
  <2>2. TypeOK
    <3>1. /\ foreground \in BOOLEAN /\ acked \in BOOLEAN /\ shutdown \in BOOLEAN
          /\ handle \in BOOLEAN /\ window \in BOOLEAN /\ up \in BOOLEAN /\ visible \in BOOLEAN
      BY <2>1, Zenon DEF Init
    <3>2. /\ phase = "connect" /\ joined = <<>> /\ todo = {} /\ refs = 0 /\ age = "none"
          /\ failures = 0 /\ wait = 0 /\ commands = <<>> /\ flushed = "none"
          /\ told = "connecting" /\ issued = 0 /\ wish = [t \in Topic |-> "out"]
          /\ srv = [t \in Topic |-> 0] /\ answer = "none" /\ missed = {} /\ flaps = 0
          /\ hint = 0
      BY <2>1, Zenon DEF Init
    <3>3. QED
      BY <3>1, <3>2, SessionConstants DEF TypeOK
  <2>3. TopicInv
    <3>1. /\ phase = "connect" /\ joined = <<>> /\ commands = <<>>
          /\ wish = [t \in Topic |-> "out"]
      BY <2>1, Zenon DEF Init
    <3>2. QED
      BY <3>1 DEF TopicInv, TopicsFollowCommands, LastWish, RejoinsKnown
  <2>4. failures = Capped(flaps) /\ WaitPaced
    <3>1. phase = "connect" /\ failures = 0 /\ flaps = 0
      BY <2>1, Zenon DEF Init
    <3>2. QED
      BY <3>1, SessionConstants DEF Capped, Smaller, WaitPaced
  <2>5. QED
    BY <2>2, <2>3, <2>4 DEF SoundInv, TopicInv
<1>2. SoundInv /\ [Next]_vars => SoundInv'
  BY StepKeepsPaced, StepKeepsTopics DEF SoundInv, PacedInv, TopicInv
<1>3. SoundInv => SessionSound
  BY DEF SoundInv, SessionSound
<1>4. QED
  BY <1>1, <1>2, <1>3, PTL DEF Spec
=============================================================================
