---------------------------- MODULE MCPeerTrust ----------------------------
(****************************************************************************)
(* One run over three records: that of a peer at the two doors, that of the *)
(* own account, and that of a peer while the comparison dialogs are open.   *)
(* `variant` picks the record in the initial state and never changes.       *)
(****************************************************************************)
EXTENDS PeerTrust

CONSTANTS m1, m2, d1, d2, c1, c2
VARIABLE variant

List(m, v, keys, sig) == [master |-> m, version |-> v, keys |-> keys, sig |-> sig]

MCMaster == {m1, m2}
MCDevice == {d1, d2}
MCCurve == {c1, c2}
MCIdBlock == {<<d1, c1>>, <<d2, c2>>, <<d2, c1>>}

\* A device is added, dropped, and named again by a later list.
DoorLists ==
    {List(m1, 1, {d1}, "good"), List(m1, 2, {d1, d2}, "good"),
     List(m1, 2, {d2}, "good"), List(m1, 3, {d1}, "good"), List(m1, 3, {d2}, "good"),
     List(m1, 3, {d1, d2}, "legacy"), List(m2, 1, {d2}, "good")}

\* Certificates that run ahead of the lists, one of them never honoured.
MCCerts == {<<m1, 1, d1>>, <<m1, 2, d2>>, <<m1, 3, d2>>, <<m2, 1, d2>>}

\* One device is enough for the comparison dialogs.
UserLists == {List(m, v, {d1}, sig) :
                m \in MCMaster, v \in {1}, sig \in {"good", "bad"}}
UserCerts == {<<m1, 1, d1>>, <<m2, 1, d1>>}

MCLists == DoorLists \cup UserLists

Doors == INSTANCE PeerTrust WITH Lists <- DoorLists
Own == INSTANCE PeerTrust WITH Lists <- DoorLists, OwnAccount <- TRUE
User == INSTANCE PeerTrust WITH Device <- {d1, d2}, Curve <- {c1, c2}, IdBlock <- {<<d1, c1>>},
                                Lists <- UserLists, Certs <- UserCerts, Checks <- {"sas", "key"}

MCInit == Init /\ variant \in {"doors", "own", "dialogs"}
MCNext ==
    /\ \/ variant = "doors" /\ Doors!Next
       \/ variant = "own" /\ Own!Next
       \/ variant = "dialogs" /\ User!Next
    /\ UNCHANGED variant
MCSpec == MCInit /\ [][MCNext]_<<vars, variant>>
=============================================================================
