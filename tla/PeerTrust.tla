------------------------------ MODULE PeerTrust ------------------------------
(***************************************************************************)
(* The trust that one local account keeps about one remote identity (a     *)
(* peer, or the own account): the pinned master key, the newest signed     *)
(* device list, the certified devices and the revocations (e2e_trust.rs,   *)
(* e2e_peer.rs), with the engine state that rests on it: the device cache, *)
(* the saved Olm sessions (e2e_engine.rs) and the comparison dialogs of    *)
(* the runtime (e2e_runtime.rs).                                           *)
(*                                                                         *)
(* The network may deliver any signed list, certificate or id block, any   *)
(* number of times and in any order.  Signatures are unforgeable: a list   *)
(* is [master, version, keys, sig], where sig says how it verifies.        *)
(* The writes of the sealed store may fail, and the program may stop       *)
(* between any two steps.                                                  *)
(***************************************************************************)
EXTENDS Integers, FiniteSets

CONSTANTS
    Master,       \* master keys
    Device,       \* Ed25519 keys of devices; a did is its key
    Curve,        \* Curve25519 keys
    IdBlock,      \* the pairs <<device, curve>> that a device signed
    Lists,        \* the signed lists in circulation
    Certs,        \* the <<master, version, device>> that a master certified
    Checks,       \* the comparisons the user may run: "sas", "key"
    MaxVersion,   \* bound of list versions (2^31 - 1 in the code)
    OwnAccount,   \* TRUE: the record of the own account
    NoMaster, NoCurve

Version == 1 .. MaxVersion

\* What a signed list carries.  "legacy": it verifies only in the raw order.
SignedList == [master : Master, version : Version,
               keys : SUBSET Device \ {{}}, sig : {"good", "legacy", "bad"}]

ASSUME ConstantsAssumption ==
    /\ NoMaster \notin Master
    /\ NoCurve \notin Curve
    /\ IdBlock \subseteq Device \X Curve
    /\ Lists \subseteq SignedList
    /\ Certs \subseteq Master \X Version \X Device
    /\ Checks \subseteq {"sas", "key"}
    /\ MaxVersion \in Nat \ {0}
    /\ OwnAccount \in BOOLEAN

VARIABLES
    rec,        \* the PeerRecord in the sealed store
    peers,      \* the device cache of the engine: device to its curve key
    otk,        \* the cached devices that hold an unused one-time key
    sessions,   \* the devices with a saved Olm session
    revokedDids,\* the engine's memory of devices it dropped from the cache
    job,        \* the list of the KEYS answer being read, NoJob when none is
    work,       \* the copy of rec that accept_keys works on
    seen,       \* the device keys of the answer that were looked at
    taken,      \* the accepted devices of the answer: device to curve key
    shown,      \* the master that an open comparison dialog shows
    alarm,      \* the trust alarm of the runtime
    confirmed   \* history: the <<check, master>> that the user said match

vars == <<rec, peers, otk, sessions, revokedDids, job, work, seen, taken,
          shown, alarm, confirmed>>

NoJob == [master |-> NoMaster, version |-> 1, keys |-> {}, sig |-> "bad"]

NoCurves == [d \in Device |-> NoCurve]

NewRecord(m) ==
    [master |-> m, sas |-> FALSE, key |-> FALSE, version |-> 0, keys |-> {},
     curves |-> NoCurves, revoked |-> {}, revokedCurves |-> {},
     needsNewList |-> FALSE, certified |-> [d \in Device |-> 0],
     released |-> FALSE]

NoRecord == NewRecord(NoMaster)

TakeMaster(r, m) ==
    [r EXCEPT !.master = m, !.sas = FALSE, !.key = FALSE, !.released = FALSE]

IsRevoked(r, d, c) == d \in r.revoked \/ c \in r.revokedCurves

-----------------------------------------------------------------------------
(* The operations of PeerTrust, as functions of the record.                *)

MasterStatus(r, m) ==
    IF r.master = NoMaster \/ r.released THEN "New"
    ELSE IF r.master = m THEN "Same" ELSE "Changed"

\* The record after observe_master.
Observed(r, m) ==
    IF r.master = NoMaster THEN NewRecord(m)
    ELSE IF r.released THEN TakeMaster(r, m) ELSE r

\* Mutant: a list of the stored version replaces it.
ListDecisionNotOlder(r, version, keys) ==
    IF r.version = 0 \/ version >= r.version THEN "Replace" ELSE "Ignore"

ListDecision(r, version, keys) ==
    IF r.version = 0 \/ version > r.version THEN "Replace"
    ELSE IF version = r.version /\ keys = r.keys THEN "NoOp" ELSE "Ignore"


\* The result of accept_list on a record that observe_master prepared, so
\* that its arms for a missing, a released and another master are settled.
ListResult(r, l) ==
    IF l.sig = "bad" THEN "BadSignature"
    ELSE IF l.sig = "legacy" THEN "LegacyListOrder"
    ELSE IF \E d \in l.keys : IsRevoked(r, d, r.curves[d]) THEN "RevokedDevice"
    ELSE IF ListDecision(r, l.version, l.keys) = "Ignore" THEN "StaleList"
    ELSE ListDecision(r, l.version, l.keys)

ListAccepted(r, l) == ListResult(r, l) \in {"Replace", "NoOp"}

\* Mutant: only listed devices are revoked, not certified ones.
DroppedListedOnly(r, l) == r.keys \ l.keys

\* The devices that a replacing list revokes: those that the old list held
\* and those that a certificate promised up to this version.
Dropped(r, l) ==
    (r.keys \cup {d \in Device : r.certified[d] \in 1 .. l.version}) \ l.keys

\* Mutant: the certificate for exactly this version stays.
RetainedFrom(r, l) ==
    [d \in Device |-> IF r.certified[d] >= l.version THEN r.certified[d] ELSE 0]

\* The certificates that wait for a later list than l.
Retained(r, l) ==
    [d \in Device |-> IF r.certified[d] > l.version THEN r.certified[d] ELSE 0]

\* Mutant: an unknown curve key is revoked like a known one.
RevokedWithAnyCurve(r, ds) ==
    [r EXCEPT !.revoked = @ \cup ds,
              !.revokedCurves = @ \cup {r.curves[d] : d \in ds}]

\* Mutant: the new revocations replace the old ones.
RevokedOnly(r, ds) ==
    [r EXCEPT !.revoked = ds,
              !.revokedCurves = @ \cup ({r.curves[d] : d \in ds} \ {NoCurve})]

\* The record with the devices ds revoked, with their known curve keys.
Revoked(r, ds) ==
    [r EXCEPT !.revoked = @ \cup ds,
              !.revokedCurves = @ \cup ({r.curves[d] : d \in ds} \ {NoCurve})]

\* The record after accept_list.
WithList(r, l) ==
    CASE ListResult(r, l) = "Replace" ->
           [Revoked(r, Dropped(r, l)) EXCEPT
              !.version = l.version, !.keys = l.keys,
              !.needsNewList = FALSE, !.certified = Retained(r, l)]
      [] ListResult(r, l) = "NoOp" -> [r EXCEPT !.needsNewList = FALSE]
      [] ListResult(r, l) = "LegacyListOrder" -> [r EXCEPT !.needsNewList = TRUE]
      [] OTHER -> r

WithCurve(r, d, c) ==
    [r EXCEPT !.curves[d] = c,
              !.revokedCurves = IF d \in r.revoked THEN @ \cup {c} ELSE @]

\* apply_peer_list: a list without a device.  A first list is not kept.
ApplyPeerList(r, l) ==
    LET n == Observed(r, l.master)
    IN  IF /\ MasterStatus(r, l.master) = "Same"
           /\ ListResult(n, l) \in {"Replace", "LegacyListOrder"}
        THEN WithList(n, l) ELSE r

\* The checks of check_listed_device; idOk: the id block verifies.
ListedDevice(n, l, d, c, idOk) ==
    ~IsRevoked(n, d, c) /\ d \in l.keys /\ idOk

PeerDeviceAccepted(r, l, d, c, idOk) ==
    /\ MasterStatus(r, l.master) # "Changed"
    /\ ListAccepted(Observed(r, l.master), l)
    /\ ListedDevice(WithList(Observed(r, l.master), l), l, d, c, idOk)

\* verify_peer_device, the door of a KEYS answer.
VerifyPeerDevice(r, l, d, c, idOk) ==
    IF PeerDeviceAccepted(r, l, d, c, idOk)
    THEN WithCurve(WithList(Observed(r, l.master), l), d, c)
    ELSE ApplyPeerList(r, l)

\* verify_certified_device, the door of a first message: the certificate of
\* master m names d at list version v.
CertifiedAccepted(r, m, v, d, c) ==
    LET n == Observed(r, m)
    IN  /\ MasterStatus(r, m) # "Changed"
        /\ <<d, c>> \in IdBlock /\ <<m, v, d>> \in Certs
        /\ ~IsRevoked(n, d, c)
        /\ d \in n.keys \/ v > n.version

VerifyCertified(r, m, v, d, c) ==
    LET n == Observed(r, m)
    IN  WithCurve(IF d \in n.keys THEN n ELSE [n EXCEPT !.certified[d] = v],
                  d, c)

-----------------------------------------------------------------------------
Init ==
    /\ rec = NoRecord /\ work = NoRecord
    /\ peers = NoCurves /\ taken = NoCurves
    /\ otk = {} /\ sessions = {} /\ revokedDids = {} /\ seen = {}
    /\ job = NoJob
    /\ shown = NoMaster /\ alarm = FALSE /\ confirmed = {}

\* The engine handles one row or request at a time.
Idle == job = NoJob

Cached == {d \in Device : peers[d] # NoCurve}

\* The cached devices that forget_revoked drops under the record r.
Forgotten(r) == {d \in Cached : IsRevoked(r, d, peers[d])}

KeptPeers(r) == [d \in Device |-> IF d \in Forgotten(r) THEN NoCurve ELSE peers[d]]

Raised(m) == alarm \/ MasterStatus(rec, m) = "Changed"

(* A KEYS answer: the list is applied to a copy of the record, each device  *)
(* entry is checked against the copy, and the copy is saved once at the end.*)
KeysStart(l) ==
    /\ Idle
    /\ job' = l
    /\ work' = ApplyPeerList(rec, l)
    /\ seen' = {} /\ taken' = NoCurves
    /\ alarm' = Raised(l.master)
    /\ UNCHANGED <<rec, peers, otk, sessions, revokedDids, shown, confirmed>>

\* One entry: the first of a device key counts.  keyOk: its one-time key is
\* signed by the device.  An entry with a bad key still records its curve.
KeysEntry(d, c, keyOk) ==
    /\ ~Idle /\ d \notin seen
    /\ seen' = seen \cup {d}
    /\ work' = VerifyPeerDevice(work, job, d, c, <<d, c>> \in IdBlock)
    /\ taken' = IF keyOk /\ PeerDeviceAccepted(work, job, d, c,
                                               <<d, c>> \in IdBlock)
                THEN [taken EXCEPT ![d] = c] ELSE taken
    /\ UNCHANGED <<rec, peers, otk, sessions, revokedDids, job, shown, alarm,
                   confirmed>>

KeysDone ==
    /\ job' = NoJob /\ work' = NoRecord /\ seen' = {} /\ taken' = NoCurves
    /\ UNCHANGED <<shown, alarm, confirmed>>

KeysSaved ==
    /\ ~Idle
    /\ rec' = work
    /\ LET new == {d \in Device : taken[d] # NoCurve}
       IN  /\ peers' = [d \in Device |->
                          IF d \in new THEN taken[d] ELSE KeptPeers(work)[d]]
           /\ otk' = (otk \ Forgotten(work)) \cup new
           /\ revokedDids' = (revokedDids \cup Forgotten(work)) \ new
    /\ sessions' = sessions
    /\ KeysDone

KeysSaveFails ==
    /\ ~Idle
    /\ KeysDone
    /\ UNCHANGED <<rec, peers, otk, sessions, revokedDids>>

\* The sender of a row is refused: receive_message, before any decryption.
SenderRevoked(d) ==
    d \in revokedDids \/ d \in rec.revoked
      \/ (d \in Cached /\ IsRevoked(rec, d, peers[d]))

\* An authenticated `list` message from a device with a session: save_state
\* moves the session on, then apply_list_message saves a list that replaces.
ListMessage(from, l) ==
    /\ Idle /\ ~OwnAccount
    /\ from \in sessions /\ ~SenderRevoked(from)
    /\ alarm' = Raised(l.master)
    /\ IF MasterStatus(rec, l.master) = "Same" /\ ListResult(rec, l) = "Replace"
       THEN LET n == ApplyPeerList(rec, l)
            IN  /\ rec' = n
                /\ peers' = KeptPeers(n)
                /\ otk' = otk \ Forgotten(n)
                /\ revokedDids' = revokedDids \cup Forgotten(n)
       ELSE UNCHANGED <<rec, peers, otk, revokedDids>>
    /\ UNCHANGED <<sessions, job, work, seen, taken, shown, confirmed>>

\* A first message of device d with curve key c, certified by m at version v.
\* The trust is written before the session; the second write may fail.
PkMsgAccepted(m, v, d, c) ==
    /\ Idle
    /\ ~SenderRevoked(d)
    /\ CertifiedAccepted(rec, m, v, d, c)
    /\ peers[d] \in {NoCurve, c}

PkMsg(m, v, d, c) ==
    /\ PkMsgAccepted(m, v, d, c)
    /\ rec' = VerifyCertified(rec, m, v, d, c)
    /\ sessions' = sessions \cup {d}
    /\ revokedDids' = revokedDids \ {d}
    /\ peers' = [peers EXCEPT ![d] = c]
    /\ UNCHANGED <<otk, job, work, seen, taken, shown, alarm, confirmed>>

PkMsgHalfSaved(m, v, d, c) ==
    /\ PkMsgAccepted(m, v, d, c)
    /\ rec' = VerifyCertified(rec, m, v, d, c)
    /\ UNCHANGED <<peers, otk, sessions, revokedDids, job, work, seen, taken,
                   shown, alarm, confirmed>>

\* A first message that is not read, under another master than the stored.
PkMsgRefused(m, d) ==
    /\ Idle
    /\ ~SenderRevoked(d)
    /\ MasterStatus(rec, m) = "Changed"
    /\ alarm' = TRUE
    /\ UNCHANGED <<rec, peers, otk, sessions, revokedDids, job, work, seen,
                   taken, shown, confirmed>>

\* entry_ready: a device that a text may be sealed for.
Ready(d) ==
    /\ d \in Cached
    /\ ~IsRevoked(rec, d, peers[d])
    /\ d \in otk \cup sessions

\* seal and emit: the first send spends the one-time key, and the session is
\* saved before the request.
OpenSession(d) ==
    /\ Idle
    /\ Ready(d) /\ d \in otk
    /\ sessions' = sessions \cup {d}
    /\ otk' = otk \ {d}
    /\ UNCHANGED <<rec, peers, revokedDids, job, work, seen, taken, shown,
                   alarm, confirmed>>

-----------------------------------------------------------------------------
(* The user.                                                               *)

\* SasStep::Start and the peer key view: the stored master is put on screen.
ShowMaster ==
    /\ Idle /\ ~alarm /\ Checks # {}
    /\ rec.master # NoMaster /\ ~rec.released
    /\ shown' = rec.master
    /\ UNCHANGED <<rec, peers, otk, sessions, revokedDids, job, work, seen,
                   taken, alarm, confirmed>>

\* Mutant: whatever master is stored now is marked.
MarkableAny(r, m) == ~r.released /\ r.master # NoMaster

\* mark_sas_verified and mark_key_verified refuse a master not stored now.
Markable(r, m) == ~r.released /\ r.master = m

\* The user says that the shown master matches: `check` is "sas" or "key".
Confirm(check) ==
    /\ Idle /\ ~alarm /\ shown # NoMaster
    /\ confirmed' = confirmed \cup {<<check, shown>>}
    /\ rec' = IF Markable(rec, shown)
              THEN IF check = "sas" THEN [rec EXCEPT !.sas = TRUE]
                                    ELSE [rec EXCEPT !.key = TRUE]
              ELSE rec
    /\ shown' = IF check = "sas" THEN NoMaster ELSE shown
    /\ UNCHANGED <<peers, otk, sessions, revokedDids, job, work, seen, taken,
                   alarm>>

\* Mutant: the cached devices of the old master stay.
ReplaceKeepsCache(m) ==
    /\ Idle /\ ~OwnAccount
    /\ sessions' = {}
    /\ rec' = NewRecord(m)
    /\ UNCHANGED <<peers, otk, revokedDids, job, work, seen, taken, shown,
                   alarm, confirmed>>

\* Mutant: the saved sessions of the old master stay.
ReplaceKeepsSessions(m) ==
    /\ Idle /\ ~OwnAccount
    /\ peers' = NoCurves /\ otk' = {}
    /\ rec' = NewRecord(m)
    /\ UNCHANGED <<sessions, revokedDids, job, work, seen, taken, shown, alarm,
                   confirmed>>

\* Mutant: the comparison of the old master is carried over.
ReplaceKeepsChecks(m) ==
    /\ Idle /\ ~OwnAccount
    /\ peers' = NoCurves /\ otk' = {} /\ sessions' = {}
    /\ rec' = [NewRecord(m) EXCEPT !.sas = rec.sas, !.key = rec.key]
    /\ UNCHANGED <<revokedDids, job, work, seen, taken, shown, alarm, confirmed>>

\* replace_peer_master drops the cache, the saved sessions, then the record.
ReplacePeerMaster(m) ==
    /\ Idle /\ ~OwnAccount
    /\ peers' = NoCurves /\ otk' = {} /\ sessions' = {}
    /\ rec' = NewRecord(m)
    /\ UNCHANGED <<revokedDids, job, work, seen, taken, shown, alarm, confirmed>>

\* Its write of the sessions, or only its last write, failed.
ReplaceFails(dropSessions) ==
    /\ Idle /\ ~OwnAccount
    /\ peers' = NoCurves /\ otk' = {}
    /\ sessions' = IF dropSessions THEN {} ELSE sessions
    /\ UNCHANGED <<rec, revokedDids, job, work, seen, taken, shown, alarm,
                   confirmed>>

\* stop_routing of e2e_revoke.rs: the own account revokes a device, then
\* forgets its session.  The cache of the engine is not touched.
RevokeDevice(m, d, sessionToo) ==
    /\ Idle /\ OwnAccount
    /\ rec' = Revoked(IF rec.master = NoMaster THEN NewRecord(m) ELSE rec, {d})
    /\ sessions' = IF sessionToo THEN sessions \ {d} ELSE sessions
    /\ UNCHANGED <<peers, otk, revokedDids, job, work, seen, taken, shown,
                   alarm, confirmed>>

\* The record after release_master.
Released(r) ==
    IF r.master = NoMaster THEN r
    ELSE [r EXCEPT !.released = TRUE, !.sas = FALSE, !.key = FALSE,
            !.version = 0, !.keys = {}, !.curves = NoCurves,
            !.certified = [d \in Device |-> 0], !.needsNewList = FALSE]

\* Mutant: the reset forgets the whole record.
ReleaseForgets ==
    /\ Idle /\ OwnAccount
    /\ rec' = NoRecord
    /\ sessions' = {} /\ peers' = NoCurves /\ otk' = {} /\ revokedDids' = {}
    /\ UNCHANGED <<job, work, seen, taken, shown, alarm, confirmed>>

\* Mutant: the reset leaves the sessions of the old siblings.
ReleaseKeepsSessions ==
    /\ Idle /\ OwnAccount
    /\ rec' = Released(rec)
    /\ peers' = NoCurves /\ otk' = {} /\ revokedDids' = {}
    /\ UNCHANGED <<sessions, job, work, seen, taken, shown, alarm, confirmed>>

\* finish_reset: one write releases the master and clears the sessions.  The
\* runtime retires the engine with its cache: no engine work runs for a reset
\* network, and the next identity opens a new engine.
ReleaseMaster ==
    /\ Idle /\ OwnAccount
    /\ rec' = Released(rec)
    /\ sessions' = {} /\ peers' = NoCurves /\ otk' = {} /\ revokedDids' = {}
    /\ UNCHANGED <<job, work, seen, taken, shown, alarm, confirmed>>

\* The program stops and starts again: the store stays, the memory goes.
Restart ==
    /\ peers' = NoCurves /\ otk' = {} /\ revokedDids' = {}
    /\ job' = NoJob /\ work' = NoRecord /\ seen' = {} /\ taken' = NoCurves
    /\ shown' = NoMaster /\ alarm' = FALSE
    /\ UNCHANGED <<rec, sessions, confirmed>>

Next ==
    \/ \E l \in Lists : KeysStart(l)
    \/ \E d \in Device, c \in Curve, keyOk \in BOOLEAN : KeysEntry(d, c, keyOk)
    \/ KeysSaved
    \/ KeysSaveFails
    \/ \E d \in Device, l \in Lists : ListMessage(d, l)
    \/ \E m \in Master, v \in Version, d \in Device, c \in Curve :
          PkMsg(m, v, d, c) \/ PkMsgHalfSaved(m, v, d, c)
    \/ \E m \in Master, d \in Device : PkMsgRefused(m, d)
    \/ \E d \in Device : OpenSession(d)
    \/ ShowMaster
    \/ \E check \in Checks : Confirm(check)
    \/ \E m \in Master : ReplacePeerMaster(m)
    \/ \E dropSessions \in BOOLEAN : ReplaceFails(dropSessions)
    \/ \E m \in Master, d \in Device, s \in BOOLEAN : RevokeDevice(m, d, s)
    \/ ReleaseMaster
    \/ Restart

Spec == Init /\ [][Next]_vars

-----------------------------------------------------------------------------
(* Properties.                                                             *)

Record ==
    [master : Master \cup {NoMaster}, sas : BOOLEAN, key : BOOLEAN,
     version : 0 .. MaxVersion, keys : SUBSET Device,
     curves : [Device -> Curve \cup {NoCurve}], revoked : SUBSET Device,
     revokedCurves : SUBSET Curve, needsNewList : BOOLEAN,
     certified : [Device -> 0 .. MaxVersion], released : BOOLEAN]

\* The types of the stored record, the engine's memory and the dialog.
TypeOK ==
    /\ rec \in Record /\ work \in Record
    /\ peers \in [Device -> Curve \cup {NoCurve}]
    /\ taken \in [Device -> Curve \cup {NoCurve}]
    /\ otk \subseteq Device /\ sessions \subseteq Device
    /\ revokedDids \subseteq Device /\ seen \subseteq Device
    /\ job \in Lists \cup {NoJob}
    /\ shown \in Master \cup {NoMaster}
    /\ alarm \in BOOLEAN
    /\ confirmed \subseteq {"sas", "key"} \X Master

\* The current master's word on device d: its list holds d, or a certificate
\* for a list that is still to come names d.
Vouched(r, d) == d \in r.keys \/ r.certified[d] > 0

\* Every certificate that accept_list and verify_certified_device keep is for
\* a list newer than the stored one, so the stored list never contradicts it.
CertifiedAhead ==
    \A d \in Device : rec.certified[d] > 0 => rec.certified[d] > rec.version

\* "The current list never holds a revoked key" (has_revoked_devices): the
\* stored list of a peer and its retained revocations never meet.
RevokedNotListed == rec.keys \cap rec.revoked = {}

\* A device that entry_ready lets the engine seal a text for is one the
\* pinned master vouches for now: neither door, no later list, no failed
\* write and no change of master leaves an old device ready.
ReadyVouched ==
    \A d \in Device : Ready(d) => Vouched(rec, d) /\ d \notin rec.revoked

\* A saved session that receive_message would still read, also after a
\* restart with an empty cache, belongs to a device the pinned master vouches
\* for.
SessionVouched ==
    \A d \in sessions : ~SenderRevoked(d) => Vouched(rec, d)

\* Whom the engine would seal for and whom it would read, together.
OnlyVouched == ReadyVouched /\ SessionVouched

\* The user compared exactly the master that is marked: a confirmation of a
\* dialog that was opened for an earlier master marks nothing.
VerifiedWasCompared ==
    /\ rec.sas => <<"sas", rec.master>> \in confirmed
    /\ rec.key => <<"key", rec.master>> \in confirmed

\* Only an explicit user action forgets a revocation (replace_peer_master):
\* no list, first message, reset or restart does.
KeepsRevocations ==
    \/ rec.revoked \subseteq rec'.revoked
         /\ rec.revokedCurves \subseteq rec'.revokedCurves
    \/ \E m \in Master : ReplacePeerMaster(m)
RevocationsKept == [][KeepsRevocations]_vars

\* A pinned master gives way only to the user's explicit action, or after the
\* own identity released it, and its successor starts unverified.
KeepsMaster ==
    \/ rec'.master = rec.master
    \/ /\ ~rec'.sas /\ ~rec'.key
       /\ \/ rec.master = NoMaster \/ rec.released
          \/ \E m \in Master : ReplacePeerMaster(m)
MasterPinned == [][KeepsMaster]_vars

\* Under one master the stored list only moves to a higher version, and one
\* version never gets two contents, however old lists are replayed.
KeepsList ==
    \/ rec'.version > rec.version
    \/ rec'.version = rec.version /\ rec'.keys = rec.keys
    \/ rec'.released
    \/ \E m \in Master : ReplacePeerMaster(m)
ListNeverRollsBack == [][KeepsList]_vars

\* A device never just fades from trust: when the list that reaches it stops
\* vouching for it, accept_list revokes it, for listed and certified devices.
RevokesLost ==
    \A d \in Device :
       (Vouched(rec, d) /\ ~Vouched(rec', d))
          => \/ d \in rec'.revoked
             \/ rec'.released
             \/ \E m \in Master : ReplacePeerMaster(m)
LossIsRevocation == [][RevokesLost]_vars

\* What the doors and the dialogs may never take back, in one formula.
NothingUndone == [][KeepsRevocations /\ KeepsMaster /\ KeepsList /\ RevokesLost]_vars
=============================================================================
