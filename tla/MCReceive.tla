----------------------------- MODULE MCReceive -----------------------------
(****************************************************************************)
(* A small instance of Inbox for TLC: both ends of a pair of devices.       *)
(****************************************************************************)
EXTENDS Inbox

CONSTANTS a, b, t1, t2, t3

\* The first device writes all texts but one.
AuthorMixed == [t \in Text |-> IF t = t2 THEN b ELSE a]

\* The last text is written when the second was not, and two devices of one
\* account, or of people that write it, meet one fault.  Others meet two
\* faults, or a fault and a stop.
InboxMoves ==
    /\ Next
    /\ LET out == UNION {sent'[d] : d \in End}
       IN  ~({t2, t3} \subseteq out) /\ (own \/ t3 \in out => faults' <= 1)
    /\ faults' + restarts' <= 2

\* The fairness of FairSpec.
MCFairSpec == Init /\ [][InboxMoves]_vars /\ Fairness
=============================================================================
