---------------------------- MODULE MCSendQueue ----------------------------
(****************************************************************************)
(* One run over two peers: "queue", one device and two texts that compete   *)
(* for the queue, with restarts, and "devices", two devices and one text,   *)
(* with more sessions than devices.  `variant` never changes.               *)
(****************************************************************************)
EXTENDS SendQueue

CONSTANTS d1, d2, t1, t2
VARIABLE variant

Two == INSTANCE SendQueue WITH Device <- {d1, d2}, Text <- {t1}, QueueMax <- 1, SentMax <- 2,
                               MaxSessions <- 2, MaxRestarts <- 0

MCInit == \/ variant = "queue" /\ Init
          \/ variant = "devices" /\ Two!Init
MCNext ==
    /\ \/ variant = "queue" /\ Next
       \/ variant = "devices" /\ Two!Next
    /\ UNCHANGED variant
mcVars == <<vars, variant>>
\* The fairness of FairSpec, for the peer that the liveness is about.
MCFairSpec ==
    /\ MCInit /\ [][MCNext]_mcVars
    /\ WF_mcVars(variant = "queue" /\ WorkerStep /\ UNCHANGED variant)
    /\ WF_mcVars(variant = "queue" /\ TickEngines /\ UNCHANGED variant)
    /\ WF_mcVars(variant = "queue" /\ Tick /\ UNCHANGED variant)

\* The types of both variants, the timers that never run past their end included.
SendTypes ==
    /\ variant = "queue" => TypeOK
    /\ variant = "devices" => Two!TypeOK

\* Every text that waits leaves the queue: it goes out or is dropped, also when
\* no key comes and the relay stays busy (expire_queue, tick_e2e_engines).
QueueEmpties == \A t \in Text : (variant = "queue" /\ Waits(t)) ~> ~Waits(t)
=============================================================================
