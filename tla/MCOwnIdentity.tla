---------------------------- MODULE MCOwnIdentity ----------------------------
(****************************************************************************)
(* One run over two kinds of account.  "alone": the master of this device   *)
(* never leaves it, so only the masters of the other devices sign lists     *)
(* elsewhere; "faulty" is the same with more faults and fewer changes of the *)
(* others.  "shared": a copy of the sealed store runs elsewhere and signs   *)
(* with the same master; "older" is that with a store of an older version.  *)
(* `variant` never changes.                                                 *)
(****************************************************************************)
EXTENDS OwnIdentity

CONSTANTS s1, s2, mx, my
VARIABLE variant

Alone == INSTANCE OwnIdentity WITH MaxFaults <- 1
Faulty == INSTANCE OwnIdentity WITH MaxOther <- 1
Copied == INSTANCE OwnIdentity WITH Shared <- {1, mx, my}, Starts <- {"holder"}, MaxFaults <- 0
Older == INSTANCE OwnIdentity WITH Shared <- {1, mx, my}, Starts <- {"upgrade"}, MaxFaults <- 0,
                                   MaxUser <- 1

MCInit == \/ variant = "alone" /\ Alone!Init
          \/ variant = "faulty" /\ Faulty!Init
          \/ variant = "shared" /\ Copied!Init
          \/ variant = "older" /\ Older!Init
MCNext ==
    /\ \/ variant = "alone" /\ Alone!Next
       \/ variant = "faulty" /\ Faulty!Next
       \/ variant = "shared" /\ Copied!Next
       \/ variant = "older" /\ Older!Next
    /\ UNCHANGED variant
mcVars == <<vars, variant>>
MCSpec == MCInit /\ [][MCNext]_mcVars
\* The fairness of FairSpec, for the account that the liveness is about.
MCFairSpec ==
    /\ MCSpec
    /\ WF_mcVars(variant = "alone" /\ Alone!RunStep /\ UNCHANGED variant)
    /\ SF_mcVars(variant = "alone" /\ Alone!Connect /\ UNCHANGED variant)

\* On an account whose master does not leave this device a revoke holds
\* (begin_revoke, publish_list, provision_device); a copy of the master may list
\* the key again.
RevokesHold == variant \in {"alone", "faulty"} => RevokeHolds

\* A revoke that was started ends, and a list that waits for publication gets
\* to the server, however often the calls failed before: a connect repeats the
\* open steps.  A device that the user pairs again while its revoke is open
\* stays listed, and the server keeps refusing to drop it.
PendingEnds ==
    /\ (variant = "alone" /\ revoking # None)
          ~> (revoking = None \/ revoking \notin banned \/ CannotPublish)
    /\ (variant = "alone" /\ listPending) ~> (~listPending \/ CannotPublish)
=============================================================================
