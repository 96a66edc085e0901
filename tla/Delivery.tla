------------------------------ MODULE Delivery ------------------------------
(***************************************************************************)
(* What the encrypted inbox promises to a reader: a conversation shows     *)
(* every text at most once and only texts that were sent to it, in rows    *)
(* that stay until the user deletes the conversation.  The relay, the two  *)
(* writes of a received row, the acknowledgements, the repeated rows and   *)
(* the restarts of the device cannot be seen here.  One excuse is left: a  *)
(* text that came in two rows, of which one was written by half.           *)
(***************************************************************************)
EXTENDS Sequences

CONSTANTS
    End,        \* the devices that show texts
    Text        \* the texts

VARIABLES
    sent,       \* the texts that were sent to an end
    shown,      \* the texts that an end shows, in the order in which they came
    excused     \* the texts that an end may show again

vars == <<sent, shown, excused>>

Shows(d) == {shown[d][k] : k \in DOMAIN shown[d]}

Init ==
    /\ sent = [d \in End |-> {}]
    /\ shown = [d \in End |-> << >>]
    /\ excused = [d \in End |-> {}]

Excused(d, t) == excused' = [excused EXCEPT ![d] = @ \cup {t}]

\* A text for d leaves its sender.
Send(d, t) ==
    /\ sent' = [sent EXCEPT ![d] = @ \cup {t}]
    /\ UNCHANGED <<shown, excused>>

\* The text appears, once, behind the rows that are there.  Its write may be
\* the one that fails by half.
Show(d, t) ==
    /\ t \in sent[d] /\ (t \in Shows(d) => t \in excused[d])
    /\ shown' = [shown EXCEPT ![d] = Append(@, t)]
    /\ UNCHANGED excused \/ Excused(d, t)
    /\ UNCHANGED sent

\* The relay gives a text that was written by half in a second row.
Repeat(d, t) == t \in sent[d] /\ Excused(d, t) /\ UNCHANGED <<sent, shown>>

\* The user deletes the conversation.
Delete(d) ==
    /\ shown' = [shown EXCEPT ![d] = << >>]
    /\ UNCHANGED <<sent, excused>>

Next == \E d \in End : Delete(d) \/ \E t \in Text : Send(d, t) \/ Show(d, t) \/ Repeat(d, t)

Spec == Init /\ [][Next]_vars
=============================================================================
