--------------------------- MODULE PeerTrustProofs ---------------------------
(***************************************************************************)
(* Proofs about PeerTrust, for every set of masters, devices, curve keys,  *)
(* lists and certificates.                                                 *)
(*                                                                         *)
(* The argument rests on two facts about the operations on a record:       *)
(*   - they keep RecordOK, the consistency of one record;                  *)
(*   - they only let a record grow (Grows): what a list, a certificate or  *)
(*     a curve key does to a record never loses a revocation, a pinned     *)
(*     master or a list version, and never verifies a master.              *)
(* Grows is transitive, so the copy that accept_keys works on, entry by    *)
(* entry, has grown from the stored record when it is saved.               *)
(***************************************************************************)
EXTENDS PeerTrust, TLAPS

\* The consistency of one record.
RecordOK(r) ==
    /\ r \in Record
    /\ r.master = NoMaster => r = NoRecord
    /\ r.released => r.version = 0 /\ r.keys = {}
    /\ \A d \in Device : r.certified[d] > 0 => r.certified[d] > r.version
    /\ ~OwnAccount => r.keys \cap r.revoked = {}

\* What no message can undo: w is r after some lists, certificates and curves.
Grows(r, w) ==
    /\ r.revoked \subseteq w.revoked
    /\ r.revokedCurves \subseteq w.revokedCurves
    /\ \/ r.master = NoMaster \/ r.released
       \/ w.master = r.master
    /\ r.master # NoMaster => w.master # NoMaster
    /\ w.released => r.released
    /\ w.sas => r.sas /\ w.master = r.master
    /\ w.key => r.key /\ w.master = r.master
    /\ \/ w.version > r.version
       \/ w.version = r.version /\ w.keys = r.keys
    /\ \A d \in Device : Vouched(r, d) => Vouched(w, d) \/ d \in w.revoked

\* Every device in the set ds stands under the master of r, or is revoked.
Backed(r, ds) == \A d \in ds : Vouched(r, d) \/ d \in r.revoked

\* The inductive invariant: the stored record and the working copy are
\* consistent, the copy has grown from the record, and everything the engine
\* could use is backed by the record.
TrustInv ==
    /\ TypeOK
    /\ RecordOK(rec) /\ RecordOK(work)
    /\ ~Idle => Grows(rec, work)
    /\ Backed(rec, Cached \cup sessions)
    /\ ~Idle => Backed(work, {d \in Device : taken[d] # NoCurve})
    /\ VerifiedWasCompared

-----------------------------------------------------------------------------
(* Facts about records.                                                    *)

\* A missing record is consistent, and so is a new one.
LEMMA NewRecordOK ==
    ASSUME NEW m \in Master \cup {NoMaster}
    PROVE  RecordOK(NewRecord(m)) /\ NewRecord(m).master = m
<1>1. 0 \in 0 .. MaxVersion /\ NoMaster \notin Master
  BY ConstantsAssumption DEF ConstantsAssumption
<1>2. NewRecord(m) \in Record
  BY <1>1 DEF NewRecord, Record, NoCurves
<1> QED
  BY <1>1, <1>2 DEF RecordOK, NewRecord, NoRecord

\* A record has grown from itself.
LEMMA GrowsReflexive ==
    ASSUME NEW r \in Record PROVE Grows(r, r)
  BY DEF Grows, Record

\* Growing twice is growing.
LEMMA GrowsTransitive ==
    ASSUME NEW r \in Record, NEW s \in Record, NEW w \in Record,
           Grows(r, s), Grows(s, w)
    PROVE  Grows(r, w)
  BY DEF Grows, Record, Vouched

\* observe_master grows a record, and leaves a pinned master.
LEMMA ObservedOK ==
    ASSUME NEW r, RecordOK(r), NEW m \in Master
    PROVE  /\ RecordOK(Observed(r, m)) /\ Grows(r, Observed(r, m))
           /\ Observed(r, m).master # NoMaster
           /\ ~Observed(r, m).released
<1>0. m # NoMaster
  BY ConstantsAssumption DEF ConstantsAssumption
<1>1. CASE r.master = NoMaster
  <2>1. Observed(r, m) = NewRecord(m) /\ r = NewRecord(NoMaster)
    BY <1>1 DEF Observed, RecordOK, NoRecord
  <2>2. RecordOK(NewRecord(m)) /\ NewRecord(m).master = m
    BY NewRecordOK
  <2> QED
    BY <1>0, <2>1, <2>2 DEF Grows, NewRecord, Vouched
<1>2. CASE r.master # NoMaster /\ r.released
  <2>1. Observed(r, m) = TakeMaster(r, m)
    BY <1>2 DEF Observed
  <2>2. r \in Record
    BY DEF RecordOK
  <2>3. TakeMaster(r, m) \in Record
    BY <2>2 DEF TakeMaster, Record
  <2>4. RecordOK(TakeMaster(r, m))
    BY <1>0, <2>2, <2>3 DEF RecordOK, TakeMaster, Record
  <2>5. Grows(r, TakeMaster(r, m))
    BY <1>0, <1>2, <2>2 DEF Grows, TakeMaster, Record, Vouched
  <2> QED
    BY <1>0, <2>1, <2>2, <2>4, <2>5 DEF TakeMaster, Record
<1>3. CASE r.master # NoMaster /\ ~r.released
  BY <1>3, GrowsReflexive DEF Observed, RecordOK
<1> QED
  BY <1>1, <1>2, <1>3

\* Revoking devices only adds revocations.
LEMMA RevokedOK ==
    ASSUME NEW r \in Record, NEW ds \in SUBSET Device
    PROVE  /\ Revoked(r, ds) \in Record
           /\ Revoked(r, ds) = [r EXCEPT !.revoked = r.revoked \cup ds,
                                         !.revokedCurves = Revoked(r, ds).revokedCurves]
           /\ r.revokedCurves \subseteq Revoked(r, ds).revokedCurves
<1> DEFINE cs == {r.curves[d] : d \in ds} \ {NoCurve}
<1>1. cs \subseteq Curve
  BY DEF Record
<1>2. Revoked(r, ds) = [r EXCEPT !.revoked = r.revoked \cup ds,
                                 !.revokedCurves = r.revokedCurves \cup cs]
  BY DEF Revoked
<1> HIDE DEF cs
<1> QED
  BY <1>1, <1>2 DEF Record

\* accept_list keeps a record consistent and lets it only grow; a list that
\* it accepts is the stored list from then on.
LEMMA WithListOK ==
    ASSUME NEW r, RecordOK(r), r.master # NoMaster, ~r.released,
           NEW l \in SignedList
    PROVE  /\ RecordOK(WithList(r, l)) /\ Grows(r, WithList(r, l))
           /\ ListAccepted(r, l) => WithList(r, l).keys = l.keys
<1>0. r \in Record /\ MaxVersion \in Nat
  BY ConstantsAssumption DEF RecordOK, ConstantsAssumption
<1>1. CASE ListResult(r, l) = "Replace"
  <2> DEFINE s == Revoked(r, Dropped(r, l))
             w == [s EXCEPT !.version = l.version, !.keys = l.keys,
                     !.needsNewList = FALSE, !.certified = Retained(r, l)]
  <2>1. WithList(r, l) = w
    BY <1>1 DEF WithList
  <2>2. Dropped(r, l) \in SUBSET Device
    BY <1>0 DEF Dropped, Record
  <2>3. /\ s \in Record
        /\ s = [r EXCEPT !.revoked = r.revoked \cup Dropped(r, l),
                         !.revokedCurves = s.revokedCurves]
        /\ r.revokedCurves \subseteq s.revokedCurves
    BY <1>0, <2>2, RevokedOK
  <2>4. /\ Retained(r, l) \in [Device -> 0 .. MaxVersion]
        /\ \A d \in Device : Retained(r, l)[d] > 0 => Retained(r, l)[d] > l.version
        /\ \A d \in Device : r.certified[d] > 0 =>
              Retained(r, l)[d] > 0 \/ r.certified[d] \in 1 .. l.version
    BY <1>0 DEF Retained, Record, SignedList, Version
  <2>5. /\ l.version \in 1 .. MaxVersion /\ l.keys \subseteq Device
        /\ l.version > r.version \/ r.version = 0
        /\ l.keys \cap r.revoked = {}
    BY <1>0, <1>1 DEF ListResult, ListDecision, IsRevoked, SignedList, Version, Record
  <2> HIDE DEF s
  <2>61. /\ s.master = r.master /\ s.released = r.released
        /\ s.sas = r.sas /\ s.key = r.key
        /\ s.revoked = r.revoked \cup Dropped(r, l)
    BY <1>0, <2>3 DEF Record
  <2>62. w \in Record
    <3>1. l.version \in 0 .. MaxVersion /\ l.keys \in SUBSET Device
      BY <1>0, <2>5
    <3>2. Retained(r, l) \in [Device -> 0 .. MaxVersion]
      BY <2>4
    <3> QED
      BY <2>3, <3>1, <3>2 DEF Record
  <2>6. /\ w \in Record /\ w.master = r.master /\ w.released = r.released
        /\ w.sas = r.sas /\ w.key = r.key
        /\ w.version = l.version /\ w.keys = l.keys
        /\ w.certified = Retained(r, l)
        /\ w.revoked = r.revoked \cup Dropped(r, l)
        /\ w.revokedCurves = s.revokedCurves
    BY <2>3, <2>61, <2>62 DEF Record
  <2> HIDE DEF w
  <2>7. w.keys \cap w.revoked = {}
    BY <2>5, <2>6 DEF Dropped
  <2>8. RecordOK(w)
    BY <2>4, <2>6, <2>7 DEF RecordOK
  <2>9. \A d \in Device : Vouched(r, d) => Vouched(w, d) \/ d \in w.revoked
    BY <2>4, <2>6 DEF Vouched, Dropped
  <2>10. Grows(r, w)
    BY <1>0, <2>3, <2>5, <2>6, <2>9 DEF Grows, Record
  <2> QED
    BY <2>1, <2>6, <2>8, <2>10
<1>2. CASE ListResult(r, l) = "NoOp"
  <2>1. WithList(r, l) = [r EXCEPT !.needsNewList = FALSE]
    BY <1>2 DEF WithList
  <2>2. l.keys = r.keys
    BY <1>2 DEF ListResult, ListDecision
  <2> QED
    BY <1>0, <2>1, <2>2 DEF RecordOK, Grows, Record, Vouched
<1>3. CASE ListResult(r, l) = "LegacyListOrder"
  <2>1. WithList(r, l) = [r EXCEPT !.needsNewList = TRUE]
    BY <1>3 DEF WithList
  <2> QED
    BY <1>0, <1>3, <2>1 DEF RecordOK, Grows, Record, Vouched, ListAccepted
<1>4. CASE ListResult(r, l) \notin {"Replace", "NoOp", "LegacyListOrder"}
  <2>1. WithList(r, l) = r
    BY <1>4 DEF WithList
  <2> QED
    BY <1>0, <1>4, <2>1, GrowsReflexive DEF ListAccepted
<1> QED
  BY <1>1, <1>2, <1>3, <1>4

\* record_curve keeps a record consistent and lets it only grow.
LEMMA WithCurveOK ==
    ASSUME NEW r, RecordOK(r), r.master # NoMaster,
           NEW d \in Device, NEW c \in Curve
    PROVE  /\ RecordOK(WithCurve(r, d, c)) /\ Grows(r, WithCurve(r, d, c))
           /\ WithCurve(r, d, c).keys = r.keys
           /\ WithCurve(r, d, c).certified = r.certified
<1> DEFINE w == WithCurve(r, d, c)
<1>0. r \in Record
  BY DEF RecordOK
<1>1. /\ w \in Record /\ w.master = r.master /\ w.released = r.released
      /\ w.sas = r.sas /\ w.key = r.key /\ w.version = r.version
      /\ w.keys = r.keys /\ w.certified = r.certified /\ w.revoked = r.revoked
      /\ r.revokedCurves \subseteq w.revokedCurves
  BY <1>0 DEF WithCurve, Record
<1> HIDE DEF w
<1>2. RecordOK(w)
  BY <1>1 DEF RecordOK
<1>3. Grows(r, w)
  BY <1>0, <1>1 DEF Grows, Vouched, Record
<1> QED
  BY <1>1, <1>2, <1>3 DEF w

\* The lists in circulation carry a master.
LEMMA ListMaster ==
    ASSUME NEW l \in SignedList PROVE l.master \in Master
  BY DEF SignedList

\* apply_peer_list keeps a record consistent and lets it only grow.
LEMMA ApplyPeerListOK ==
    ASSUME NEW r, RecordOK(r), NEW l \in SignedList
    PROVE  RecordOK(ApplyPeerList(r, l)) /\ Grows(r, ApplyPeerList(r, l))
<1> DEFINE n == Observed(r, l.master)
<1>1. /\ RecordOK(n) /\ Grows(r, n) /\ n.master # NoMaster /\ ~n.released
  BY ListMaster, ObservedOK
<1>2. RecordOK(WithList(n, l)) /\ Grows(n, WithList(n, l))
  BY <1>1, WithListOK
<1>3. r \in Record /\ n \in Record /\ WithList(n, l) \in Record
  BY <1>1, <1>2 DEF RecordOK
<1>4. Grows(r, WithList(n, l))
  BY <1>1, <1>2, <1>3, GrowsTransitive
<1>5. ApplyPeerList(r, l) \in {r, WithList(n, l)}
  BY DEF ApplyPeerList
<1> QED
  BY <1>2, <1>3, <1>4, <1>5, GrowsReflexive

\* verify_peer_device keeps a record consistent and lets it only grow, and
\* the record lists a device that it accepts.
LEMMA VerifyPeerDeviceOK ==
    ASSUME NEW r, RecordOK(r), NEW l \in SignedList,
           NEW d \in Device, NEW c \in Curve, NEW idOk \in BOOLEAN
    PROVE  LET w == VerifyPeerDevice(r, l, d, c, idOk)
           IN  /\ RecordOK(w) /\ Grows(r, w)
               /\ PeerDeviceAccepted(r, l, d, c, idOk) => Vouched(w, d)
<1> DEFINE n == Observed(r, l.master)
           u == WithList(n, l)
           w == WithCurve(u, d, c)
<1>1. /\ RecordOK(n) /\ Grows(r, n) /\ n.master # NoMaster /\ ~n.released
  BY ListMaster, ObservedOK
<1> HIDE DEF n
<1>2. /\ RecordOK(u) /\ Grows(n, u)
      /\ ListAccepted(n, l) => u.keys = l.keys
  BY <1>1, WithListOK
<1> HIDE DEF u
<1>3. u.master # NoMaster
  BY <1>1, <1>2 DEF Grows
<1>4. RecordOK(w) /\ Grows(u, w) /\ w.keys = u.keys
  BY <1>2, <1>3, WithCurveOK
<1> HIDE DEF w
<1>5. r \in Record /\ n \in Record /\ u \in Record /\ w \in Record
  BY <1>1, <1>2, <1>4 DEF RecordOK
<1>6. Grows(r, u)
  BY <1>1, <1>2, <1>5, GrowsTransitive
<1>7. Grows(r, w)
  BY <1>4, <1>5, <1>6, GrowsTransitive
<1>8. CASE PeerDeviceAccepted(r, l, d, c, idOk)
  <2>1. VerifyPeerDevice(r, l, d, c, idOk) = w
    BY <1>8 DEF VerifyPeerDevice, n, u, w
  <2>2. ListAccepted(n, l) /\ d \in l.keys
    BY <1>8 DEF PeerDeviceAccepted, ListedDevice, n
  <2>3. Vouched(w, d)
    BY <1>2, <1>4, <2>2 DEF Vouched
  <2> QED
    BY <1>4, <1>7, <2>1, <2>3
<1>9. CASE ~PeerDeviceAccepted(r, l, d, c, idOk)
  <2>1. VerifyPeerDevice(r, l, d, c, idOk) = ApplyPeerList(r, l)
    BY <1>9 DEF VerifyPeerDevice
  <2> QED
    BY <1>9, <2>1, ApplyPeerListOK
<1> QED
  BY <1>8, <1>9

\* verify_certified_device keeps a record consistent and lets it only grow,
\* and the record vouches for the device.
LEMMA VerifyCertifiedOK ==
    ASSUME NEW r, RecordOK(r), NEW m \in Master, NEW v \in Version,
           NEW d \in Device, NEW c \in Curve, CertifiedAccepted(r, m, v, d, c)
    PROVE  LET w == VerifyCertified(r, m, v, d, c)
           IN  RecordOK(w) /\ Grows(r, w) /\ Vouched(w, d)
<1> DEFINE n == Observed(r, m)
           u == IF d \in n.keys THEN n ELSE [n EXCEPT !.certified[d] = v]
           w == WithCurve(u, d, c)
<1>0. MaxVersion \in Nat /\ v \in 0 .. MaxVersion /\ v > 0
  BY ConstantsAssumption DEF ConstantsAssumption, Version
<1>1. RecordOK(n) /\ Grows(r, n) /\ n.master # NoMaster /\ ~n.released
  BY ObservedOK
<1>2. d \in n.keys \/ v > n.version
  BY DEF CertifiedAccepted
<1> HIDE DEF n
<1>3. RecordOK(u) /\ Grows(n, u) /\ u.master # NoMaster /\ Vouched(u, d)
  <2>1. CASE d \in n.keys
    BY <1>1, <2>1, GrowsReflexive DEF RecordOK, Vouched
  <2>2. CASE d \notin n.keys
    <3>1. n \in Record
      BY <1>1 DEF RecordOK
    <3>2. u \in Record
      BY <1>0, <2>2, <3>1 DEF Record
    <3>3. /\ u.master = n.master /\ u.released = n.released
          /\ u.sas = n.sas /\ u.key = n.key /\ u.version = n.version
          /\ u.keys = n.keys /\ u.revoked = n.revoked
          /\ u.revokedCurves = n.revokedCurves
          /\ u.certified = [n.certified EXCEPT ![d] = v]
      BY <2>2, <3>1 DEF Record
    <3>4. n.certified \in [Device -> 0 .. MaxVersion]
      BY <3>1 DEF Record
    <3> HIDE DEF u
    <3>5. RecordOK(u)
      BY <1>1, <1>2, <2>2, <3>2, <3>3, <3>4 DEF RecordOK
    <3>6. Vouched(u, d) /\ \A e \in Device : Vouched(n, e) => Vouched(u, e)
      BY <1>0, <3>3, <3>4 DEF Vouched
    <3>7. Grows(n, u)
      BY <1>1, <3>1, <3>3, <3>6 DEF Grows, Record
    <3> QED
      BY <1>1, <3>3, <3>5, <3>6, <3>7
  <2> QED
    BY <2>1, <2>2
<1> HIDE DEF u
<1>4. /\ RecordOK(w) /\ Grows(u, w)
      /\ w.keys = u.keys /\ w.certified = u.certified
  BY <1>3, WithCurveOK
<1>5. r \in Record /\ n \in Record /\ u \in Record /\ w \in Record
  BY <1>1, <1>3, <1>4 DEF RecordOK
<1>6. Grows(r, w)
  <2>1. Grows(r, u)
    BY <1>1, <1>3, <1>5, GrowsTransitive
  <2> QED
    BY <1>4, <1>5, <2>1, GrowsTransitive
<1>7. Vouched(w, d)
  BY <1>3, <1>4 DEF Vouched
<1> QED
  BY <1>4, <1>6, <1>7 DEF VerifyCertified, n, u

\* What is backed stays backed while a record grows.
LEMMA BackedGrows ==
    ASSUME NEW r, NEW w, NEW ds \in SUBSET Device, Grows(r, w), Backed(r, ds)
    PROVE  Backed(w, ds)
  BY DEF Backed, Grows

\* A mark survives growth only under the master that was compared.
LEMMA ComparedGrows ==
    ASSUME NEW w, Grows(rec, w), VerifiedWasCompared
    PROVE  /\ w.sas => <<"sas", w.master>> \in confirmed
           /\ w.key => <<"key", w.master>> \in confirmed
  BY DEF VerifiedWasCompared, Grows

-----------------------------------------------------------------------------
(* The inductive invariant.                                                *)

\* An engine with no record and no device starts in the invariant.
LEMMA TrustInvInit == Init => TrustInv
<1> SUFFICES ASSUME Init PROVE TrustInv
  OBVIOUS
<1>1. RecordOK(NoRecord)
  BY NewRecordOK DEF NoRecord
<1>2. NoRecord \in Record /\ NoCurves \in [Device -> Curve \cup {NoCurve}]
  BY <1>1 DEF RecordOK, NoCurves
<1>3. TypeOK
  BY <1>2 DEF Init, TypeOK
<1>4. Backed(rec, Cached \cup sessions)
  BY DEF Init, Cached, NoCurves, Backed
<1>5. VerifiedWasCompared
  BY DEF Init, VerifiedWasCompared, NoRecord, NewRecord
<1> QED
  BY <1>1, <1>3, <1>4, <1>5 DEF Init, TrustInv, Idle

\* Every step keeps the invariant.
LEMMA TrustInvStep == TrustInv /\ [Next]_vars => TrustInv'
<1> SUFFICES ASSUME TrustInv, [Next]_vars PROVE TrustInv'
  OBVIOUS
<1> USE DEF TrustInv
<1>0. /\ Lists \subseteq SignedList /\ NoMaster \notin Master
      /\ NoCurve \notin Curve /\ Checks \subseteq {"sas", "key"}
  BY ConstantsAssumption DEF ConstantsAssumption
<1>01. NoJob \notin Lists
  BY <1>0 DEF NoJob, SignedList
<1>02. RecordOK(NoRecord) /\ NoRecord \in Record
  BY NewRecordOK DEF NoRecord, RecordOK
<1>03. NoCurves \in [Device -> Curve \cup {NoCurve}]
  BY DEF NoCurves
<1>1. CASE UNCHANGED vars
  BY <1>1 DEF vars, TypeOK, Idle, Cached, Backed, VerifiedWasCompared
<1>2. ASSUME NEW l \in Lists, KeysStart(l) PROVE TrustInv'
  <2>1. l \in SignedList
    BY <1>0
  <2>2. RecordOK(work') /\ Grows(rec, work')
    BY <1>2, <2>1, ApplyPeerListOK DEF KeysStart
  <2>3. TypeOK'
    BY <1>2, <1>03, <2>2 DEF KeysStart, TypeOK, RecordOK, Raised
  <2>4. Backed(work', {d \in Device : taken'[d] # NoCurve})
    BY <1>2 DEF KeysStart, NoCurves, Backed
  <2> QED
    BY <1>2, <2>2, <2>3, <2>4
    DEF KeysStart, Idle, Cached, Backed, VerifiedWasCompared
<1>3. ASSUME NEW d \in Device, NEW c \in Curve, NEW keyOk \in BOOLEAN,
             KeysEntry(d, c, keyOk)
      PROVE  TrustInv'
  <2> DEFINE idOk == <<d, c>> \in IdBlock
  <2>1. job \in SignedList
    BY <1>0, <1>3 DEF KeysEntry, Idle, TypeOK
  <2>2. /\ RecordOK(work') /\ Grows(work, work')
        /\ PeerDeviceAccepted(work, job, d, c, idOk) => Vouched(work', d)
    <3>1. work' = VerifyPeerDevice(work, job, d, c, idOk) /\ idOk \in BOOLEAN
      BY <1>3 DEF KeysEntry
    <3> HIDE DEF idOk
    <3> QED
      BY <2>1, <3>1, VerifyPeerDeviceOK
  <2>3. rec \in Record /\ work \in Record /\ work' \in Record
    BY <2>2 DEF RecordOK
  <2>4. Grows(rec, work')
    BY <1>3, <2>2, <2>3, GrowsTransitive DEF KeysEntry
  <2>5. TypeOK'
    BY <1>3, <2>3 DEF KeysEntry, TypeOK
  <2>6. Backed(work', {e \in Device : taken[e] # NoCurve})
    BY <1>3, <2>2, BackedGrows DEF KeysEntry
  <2>7. Backed(work', {e \in Device : taken'[e] # NoCurve})
    BY <1>3, <2>2, <2>6 DEF KeysEntry, Backed, TypeOK
  <2> QED
    BY <1>3, <2>2, <2>4, <2>5, <2>7
    DEF KeysEntry, Idle, Cached, Backed, VerifiedWasCompared
<1>4. CASE KeysSaved
  <2>1. rec' = work /\ Grows(rec, work) /\ Idle' /\ work' = NoRecord
    BY <1>4 DEF KeysSaved, KeysDone, Idle
  <2>2. TypeOK'
    BY <1>4, <1>02, <1>03
    DEF KeysSaved, KeysDone, TypeOK, KeptPeers, Forgotten, Cached
  <2>3. Backed(work, Cached \cup sessions)
    BY <2>1, BackedGrows DEF Cached, TypeOK
  <2>4. Cached' \subseteq Cached \cup {d \in Device : taken[d] # NoCurve}
    BY <1>4 DEF KeysSaved, Cached, KeptPeers, TypeOK
  <2>5. Backed(work, {d \in Device : taken[d] # NoCurve})
    BY <1>4 DEF KeysSaved
  <2>6. Backed(rec', Cached' \cup sessions')
    BY <1>4, <2>1, <2>3, <2>4, <2>5 DEF Backed, KeysSaved
  <2>7. VerifiedWasCompared'
    BY <1>4, <2>1, ComparedGrows DEF KeysSaved, KeysDone, VerifiedWasCompared
  <2> QED
    BY <1>02, <2>1, <2>2, <2>6, <2>7
<1>5. CASE KeysSaveFails
  BY <1>5, <1>02, <1>03
  DEF KeysSaveFails, KeysDone, TypeOK, Idle, Cached, Backed, VerifiedWasCompared
<1>6. ASSUME NEW from \in Device, NEW l \in Lists, ListMessage(from, l)
      PROVE  TrustInv'
  <2>1. l \in SignedList
    BY <1>0
  <2>2. RecordOK(ApplyPeerList(rec, l)) /\ Grows(rec, ApplyPeerList(rec, l))
    BY <2>1, ApplyPeerListOK
  <2>3. RecordOK(rec') /\ Grows(rec, rec')
    BY <1>6, <2>2, GrowsReflexive DEF ListMessage, TypeOK
  <2>4. Cached' \subseteq Cached /\ sessions' = sessions
    BY <1>6 DEF ListMessage, Cached, KeptPeers, TypeOK
  <2>5. Backed(rec', Cached \cup sessions)
    BY <2>3, BackedGrows DEF Cached, TypeOK
  <2>6. Backed(rec', Cached' \cup sessions')
    BY <2>4, <2>5 DEF Backed
  <2>7. VerifiedWasCompared'
    BY <1>6, <2>3, ComparedGrows DEF ListMessage, VerifiedWasCompared
  <2>8. TypeOK'
    <3>1. peers' \in [Device -> Curve \cup {NoCurve}]
      BY <1>6 DEF ListMessage, TypeOK, KeptPeers
    <3>2. otk' \subseteq Device /\ revokedDids' \subseteq Device
      BY <1>6 DEF ListMessage, TypeOK, Forgotten, Cached
    <3>3. alarm' \in BOOLEAN
      BY <1>6 DEF ListMessage, TypeOK, Raised
    <3> QED
      BY <1>6, <2>3, <3>1, <3>2, <3>3 DEF ListMessage, TypeOK, RecordOK
  <2> QED
    BY <1>6, <2>3, <2>6, <2>7, <2>8 DEF ListMessage, Idle
<1>7. ASSUME NEW m \in Master, NEW v \in Version, NEW d \in Device,
             NEW c \in Curve, PkMsg(m, v, d, c) \/ PkMsgHalfSaved(m, v, d, c)
      PROVE  TrustInv'
  <2>1. RecordOK(rec') /\ Grows(rec, rec') /\ Vouched(rec', d) /\ Idle /\ Idle'
    <3>1. CertifiedAccepted(rec, m, v, d, c) /\ Idle
      BY <1>7 DEF PkMsg, PkMsgHalfSaved, PkMsgAccepted
    <3>2. rec' = VerifyCertified(rec, m, v, d, c) /\ job' = job
      BY <1>7 DEF PkMsg, PkMsgHalfSaved
    <3> QED
      BY <3>1, <3>2, VerifyCertifiedOK DEF Idle
  <2>2. Cached' \cup sessions' \subseteq Cached \cup sessions \cup {d}
    BY <1>7 DEF PkMsg, PkMsgHalfSaved, Cached, TypeOK
  <2>3. Backed(rec', Cached \cup sessions)
    BY <2>1, BackedGrows DEF Cached, TypeOK
  <2>4. Backed(rec', Cached' \cup sessions')
    BY <2>1, <2>2, <2>3 DEF Backed
  <2>5. VerifiedWasCompared'
    BY <1>7, <2>1, ComparedGrows DEF PkMsg, PkMsgHalfSaved, VerifiedWasCompared
  <2>6. TypeOK' /\ work' = work
    BY <1>7, <2>1 DEF PkMsg, PkMsgHalfSaved, TypeOK, RecordOK
  <2> QED
    BY <2>1, <2>4, <2>5, <2>6
<1>8. ASSUME NEW m \in Master, NEW d \in Device, PkMsgRefused(m, d)
      PROVE  TrustInv'
  BY <1>8 DEF PkMsgRefused, TypeOK, Idle, Cached, Backed, VerifiedWasCompared
<1>9. ASSUME NEW d \in Device, OpenSession(d) PROVE TrustInv'
  BY <1>9
  DEF OpenSession, Ready, TypeOK, Idle, Cached, Backed, VerifiedWasCompared
<1>10. CASE ShowMaster
  BY <1>10 DEF ShowMaster, TypeOK, Idle, Cached, Backed, VerifiedWasCompared,
               Record
<1>11. ASSUME NEW check \in Checks, Confirm(check) PROVE TrustInv'
  <2>1. rec \in Record /\ check \in {"sas", "key"} /\ shown \in Master
    BY <1>0, <1>11 DEF TypeOK, Confirm
  <2>2. rec' \in {rec, [rec EXCEPT !.sas = TRUE], [rec EXCEPT !.key = TRUE]}
        /\ (rec.master = NoMaster => rec' = rec)
    BY <1>0, <1>11, <2>1 DEF Confirm, Markable
  <2>3. RecordOK(rec')
    BY <2>1, <2>2 DEF RecordOK, Record
  <2>4. Backed(rec', Cached' \cup sessions')
    BY <1>11, <2>1, <2>2 DEF Confirm, Backed, Cached, Vouched, Record
  <2>5. VerifiedWasCompared'
    BY <1>11, <2>1 DEF Confirm, Markable, VerifiedWasCompared, Record
  <2>6. TypeOK'
    BY <1>11, <2>1, <2>3 DEF Confirm, TypeOK, RecordOK
  <2> QED
    BY <1>11, <2>3, <2>4, <2>5, <2>6 DEF Confirm, Idle
<1>12. ASSUME NEW m \in Master, ReplacePeerMaster(m) PROVE TrustInv'
  <2>1. RecordOK(rec')
    BY <1>12, NewRecordOK DEF ReplacePeerMaster
  <2>2. TypeOK' /\ Cached' \cup sessions' = {}
    BY <1>12, <1>03, <2>1
    DEF ReplacePeerMaster, TypeOK, RecordOK, Cached, NoCurves
  <2>3. VerifiedWasCompared'
    BY <1>12 DEF ReplacePeerMaster, NewRecord, VerifiedWasCompared
  <2> QED
    BY <1>12, <2>1, <2>2, <2>3 DEF ReplacePeerMaster, Idle, Backed
<1>13. ASSUME NEW s \in BOOLEAN, ReplaceFails(s) PROVE TrustInv'
  <2>1. TypeOK' /\ Cached' \cup sessions' \subseteq sessions
    BY <1>13, <1>03 DEF ReplaceFails, TypeOK, Cached, NoCurves
  <2> QED
    BY <1>13, <2>1 DEF ReplaceFails, Idle, Backed, VerifiedWasCompared
<1>14. ASSUME NEW m \in Master, NEW d \in Device, NEW s \in BOOLEAN,
              RevokeDevice(m, d, s)
       PROVE  TrustInv'
  <2> DEFINE r == IF rec.master = NoMaster THEN NewRecord(m) ELSE rec
  <2>1. RecordOK(r) /\ r.master # NoMaster /\ Grows(rec, r)
    <3>1. CASE rec.master = NoMaster
      <4>1. r = Observed(rec, m)
        BY <3>1 DEF Observed
      <4> QED
        BY <4>1, ObservedOK
    <3>2. CASE rec.master # NoMaster
      BY <3>2, GrowsReflexive DEF RecordOK
    <3> QED
      BY <3>1, <3>2
  <2> HIDE DEF r
  <2>2. rec' = Revoked(r, {d}) /\ OwnAccount /\ Idle /\ Idle' /\ work' = work
    BY <1>14 DEF RevokeDevice, r, Idle
  <2>3. r \in Record
    BY <2>1 DEF RecordOK
  <2>4. /\ rec' \in Record
        /\ rec' = [r EXCEPT !.revoked = r.revoked \cup {d},
                            !.revokedCurves = rec'.revokedCurves]
        /\ r.revokedCurves \subseteq rec'.revokedCurves
    BY <2>2, <2>3, RevokedOK
  <2>5. /\ rec'.master = r.master /\ rec'.released = r.released
        /\ rec'.sas = r.sas /\ rec'.key = r.key
        /\ rec'.version = r.version /\ rec'.keys = r.keys
        /\ rec'.certified = r.certified /\ r.revoked \subseteq rec'.revoked
    BY <2>3, <2>4 DEF Record
  <2>6. RecordOK(rec')
    BY <2>1, <2>2, <2>4, <2>5 DEF RecordOK
  <2>7. Grows(r, rec')
    BY <2>1, <2>3, <2>4, <2>5 DEF Grows, Vouched, Record
  <2>8. Grows(rec, rec')
    BY <2>1, <2>3, <2>4, <2>7, GrowsTransitive DEF TypeOK
  <2>9. Backed(rec', Cached \cup sessions)
    BY <2>8, BackedGrows DEF Cached, TypeOK
  <2>10. Backed(rec', Cached' \cup sessions') /\ TypeOK'
    BY <1>14, <2>4, <2>9 DEF RevokeDevice, Backed, Cached, TypeOK
  <2>11. VerifiedWasCompared'
    BY <1>14, <2>8, ComparedGrows DEF RevokeDevice, VerifiedWasCompared
  <2> QED
    BY <2>2, <2>6, <2>10, <2>11
<1>15. CASE ReleaseMaster
  <2>1. CASE rec.master = NoMaster
    <3>1. rec' = NoRecord
      BY <1>15, <2>1 DEF ReleaseMaster, Released, RecordOK
    <3> QED
      BY <1>15, <1>02, <1>03, <3>1
      DEF ReleaseMaster, TypeOK, Idle, Cached, Backed, NoCurves,
          VerifiedWasCompared, NoRecord, NewRecord
  <2>2. CASE rec.master # NoMaster
    <3> DEFINE none == [d \in Device |-> 0]
    <3>1. none \in [Device -> 0 .. MaxVersion] /\ \A d \in Device : none[d] = 0
      BY ConstantsAssumption DEF ConstantsAssumption
    <3>2. rec' = [rec EXCEPT !.released = TRUE, !.sas = FALSE, !.key = FALSE,
                    !.version = 0, !.keys = {}, !.curves = NoCurves,
                    !.certified = none, !.needsNewList = FALSE]
      BY <1>15, <2>2 DEF ReleaseMaster, Released
    <3>3. rec \in Record /\ 0 \in 0 .. MaxVersion
      BY ConstantsAssumption DEF ConstantsAssumption, TypeOK
    <3> HIDE DEF none
    <3>4. /\ rec' \in Record /\ rec'.master = rec.master /\ ~rec'.sas
          /\ ~rec'.key /\ rec'.version = 0 /\ rec'.keys = {}
          /\ rec'.certified = none
      BY <1>03, <3>1, <3>2, <3>3 DEF Record
    <3>5. RecordOK(rec')
      BY <2>2, <3>1, <3>4 DEF RecordOK
    <3>6. TypeOK' /\ Cached' \cup sessions' = {}
      BY <1>15, <1>03, <3>4 DEF ReleaseMaster, TypeOK, Cached, NoCurves
    <3> QED
      BY <1>15, <3>4, <3>5, <3>6
      DEF ReleaseMaster, Idle, Backed, VerifiedWasCompared
  <2> QED
    BY <2>1, <2>2
<1>16. CASE Restart
  <2>1. TypeOK' /\ Cached' \cup sessions' \subseteq sessions
    BY <1>16, <1>02, <1>03 DEF Restart, TypeOK, Cached, NoCurves
  <2> QED
    BY <1>16, <1>02, <2>1 DEF Restart, Idle, Backed, VerifiedWasCompared
<1> QED
  BY <1>1, <1>2, <1>3, <1>4, <1>5, <1>6, <1>7, <1>8, <1>9, <1>10, <1>11,
     <1>12, <1>13, <1>14, <1>15, <1>16 DEF Next

\* The invariant is one of every behaviour.
THEOREM TrustInvariant == Spec => []TrustInv
  BY TrustInvInit, TrustInvStep, PTL DEF Spec

\* Type correctness of the record, the engine's memory and the dialog.
THEOREM TypeCorrect == Spec => []TypeOK
<1>1. TrustInv => TypeOK
  BY DEF TrustInv
<1> QED
  BY <1>1, TrustInvariant, PTL

\* Whatever lists, certificates and id blocks the network delivers, in any
\* order, with failed writes and restarts: every device that the engine would
\* seal for, and every sender it would read, is vouched for by the pinned
\* master (accept_keys, save_state, replace_peer_master, forget_revoked).
THEOREM OnlyVouchedDevices == Spec => []OnlyVouched
<1>1. TrustInv => OnlyVouched
  BY DEF TrustInv, OnlyVouched, ReadyVouched, SessionVouched, Ready, SenderRevoked,
         IsRevoked, Backed, Cached
<1> QED
  BY <1>1, TrustInvariant, PTL

\* A stored list never contradicts a kept certificate, and a stored list of a
\* peer never holds a revoked key (accept_list).
THEOREM RecordConsistent ==
    Spec => [](CertifiedAhead /\ (~OwnAccount => RevokedNotListed))
<1>1. TrustInv => CertifiedAhead /\ (~OwnAccount => RevokedNotListed)
  BY DEF TrustInv, RecordOK, CertifiedAhead, RevokedNotListed
<1> QED
  BY <1>1, TrustInvariant, PTL

\* A verified mark stands only for the master that the user compared.
THEOREM VerifiedMeansCompared == Spec => []VerifiedWasCompared
<1>1. TrustInv => VerifiedWasCompared
  BY DEF TrustInv
<1> QED
  BY <1>1, TrustInvariant, PTL

-----------------------------------------------------------------------------
(* What a step may never do.                                               *)

\* How the stored record changes: it grows, the user marks or replaces its
\* master, or the own identity releases it.
LEMMA RecordStep ==
    ASSUME TrustInv, [Next]_vars
    PROVE  \/ Grows(rec, rec')
           \/ rec' = Released(rec)
           \/ rec' \in {[rec EXCEPT !.sas = TRUE], [rec EXCEPT !.key = TRUE]}
           \/ \E m \in Master : ReplacePeerMaster(m)
<1>0. rec \in Record /\ RecordOK(rec) /\ Lists \subseteq SignedList
  BY ConstantsAssumption DEF TrustInv, TypeOK, ConstantsAssumption
<1>1. CASE rec' = rec
  BY <1>0, <1>1, GrowsReflexive
<1>2. CASE KeysSaved
  BY <1>2 DEF KeysSaved, TrustInv
<1>3. ASSUME NEW from \in Device, NEW l \in Lists, ListMessage(from, l)
      PROVE  Grows(rec, rec')
  <2>1. Grows(rec, ApplyPeerList(rec, l))
    BY <1>0, ApplyPeerListOK
  <2> QED
    BY <1>0, <1>3, <2>1, GrowsReflexive DEF ListMessage
<1>4. ASSUME NEW m \in Master, NEW v \in Version, NEW d \in Device,
             NEW c \in Curve, PkMsg(m, v, d, c) \/ PkMsgHalfSaved(m, v, d, c)
      PROVE  Grows(rec, rec')
  BY <1>0, <1>4, VerifyCertifiedOK DEF PkMsg, PkMsgHalfSaved, PkMsgAccepted
<1>5. ASSUME NEW check \in Checks, Confirm(check)
      PROVE  rec' \in {rec, [rec EXCEPT !.sas = TRUE], [rec EXCEPT !.key = TRUE]}
  BY <1>5 DEF Confirm
<1>6. ASSUME NEW m \in Master, NEW d \in Device, NEW s \in BOOLEAN,
              RevokeDevice(m, d, s)
      PROVE  Grows(rec, rec')
  <2> DEFINE r == IF rec.master = NoMaster THEN NewRecord(m) ELSE rec
  <2>1. RecordOK(r) /\ Grows(rec, r)
    <3>1. CASE rec.master = NoMaster
      BY <1>0, <3>1, ObservedOK DEF Observed
    <3>2. CASE rec.master # NoMaster
      BY <1>0, <3>2, GrowsReflexive
    <3> QED
      BY <3>1, <3>2
  <2> HIDE DEF r
  <2>2. r \in Record /\ rec' = Revoked(r, {d})
    BY <1>6, <2>1 DEF RevokeDevice, r, RecordOK
  <2>3. /\ rec' \in Record
        /\ rec' = [r EXCEPT !.revoked = r.revoked \cup {d},
                            !.revokedCurves = rec'.revokedCurves]
        /\ r.revokedCurves \subseteq rec'.revokedCurves
    BY <2>2, RevokedOK
  <2>4. Grows(r, rec')
    BY <2>2, <2>3 DEF Grows, Vouched, Record
  <2> QED
    BY <1>0, <2>1, <2>2, <2>3, <2>4, GrowsTransitive
<1>7. CASE ReleaseMaster
  BY <1>7 DEF ReleaseMaster
<1>8. CASE \E m \in Master : ReplacePeerMaster(m)
  BY <1>8
<1>9. CASE \/ \E l \in Lists : KeysStart(l)
           \/ \E d \in Device, c \in Curve, k \in BOOLEAN : KeysEntry(d, c, k)
           \/ KeysSaveFails
           \/ \E m \in Master, d \in Device : PkMsgRefused(m, d)
           \/ \E d \in Device : OpenSession(d)
           \/ ShowMaster
           \/ \E s \in BOOLEAN : ReplaceFails(s)
           \/ Restart
           \/ UNCHANGED vars
  <2>1. rec' = rec
    BY <1>9 DEF KeysStart, KeysEntry, KeysSaveFails, PkMsgRefused, OpenSession,
                ShowMaster, ReplaceFails, Restart, vars
  <2> QED
    BY <1>1, <2>1
<1> QED
  BY <1>1, <1>2, <1>3, <1>4, <1>5, <1>6, <1>7, <1>8, <1>9 DEF Next

\* What a release and a mark leave alone.
LEMMA ReleasedFields ==
    ASSUME NEW r, RecordOK(r)
    PROVE  /\ Released(r).revoked = r.revoked
           /\ Released(r).revokedCurves = r.revokedCurves
           /\ Released(r).master = r.master
           /\ Released(r) = r \/ Released(r).released
  BY DEF Released, RecordOK, Record

\* No list, first message, failed write, reset or restart undoes a revocation
\* (accept_list, revoke_device, release_master).
THEOREM RevocationsAreKept == Spec => RevocationsKept
<1>1. TrustInv /\ [Next]_vars => [KeepsRevocations]_vars
  <2> SUFFICES ASSUME TrustInv, [Next]_vars,
                      ~ \E m \in Master : ReplacePeerMaster(m)
               PROVE  rec.revoked \subseteq rec'.revoked
                        /\ rec.revokedCurves \subseteq rec'.revokedCurves
    BY DEF KeepsRevocations
  <2>1. RecordOK(rec) /\ rec \in Record
    BY DEF TrustInv, TypeOK
  <2>2. CASE Grows(rec, rec')
    BY <2>2 DEF Grows
  <2>3. CASE rec' = Released(rec)
    BY <2>1, <2>3, ReleasedFields
  <2>4. CASE rec' \in {[rec EXCEPT !.sas = TRUE], [rec EXCEPT !.key = TRUE]}
    BY <2>1, <2>4 DEF Record
  <2> QED
    BY <2>2, <2>3, <2>4, RecordStep
<1> QED
  BY <1>1, TrustInvariant, PTL DEF Spec, RevocationsKept

\* A pinned master gives way only to the user or after a release, and its
\* successor is unverified (observe_master, replace_master_by_user).
THEOREM MasterStaysPinned == Spec => MasterPinned
<1>1. TrustInv /\ [Next]_vars => [KeepsMaster]_vars
  <2> SUFFICES ASSUME TrustInv, [Next]_vars, rec'.master # rec.master
               PROVE  /\ ~rec'.sas /\ ~rec'.key
                      /\ \/ rec.master = NoMaster \/ rec.released
                         \/ \E m \in Master : ReplacePeerMaster(m)
    BY DEF KeepsMaster
  <2>1. RecordOK(rec) /\ rec \in Record
    BY DEF TrustInv, TypeOK
  <2>2. CASE Grows(rec, rec')
    BY <2>2 DEF Grows
  <2>3. CASE rec' = Released(rec)
    BY <2>1, <2>3, ReleasedFields
  <2>4. CASE rec' \in {[rec EXCEPT !.sas = TRUE], [rec EXCEPT !.key = TRUE]}
    BY <2>1, <2>4 DEF Record
  <2>5. CASE \E m \in Master : ReplacePeerMaster(m)
    <3>1. PICK m \in Master : ReplacePeerMaster(m)
      BY <2>5
    <3>2. ~rec'.sas /\ ~rec'.key
      BY <3>1 DEF ReplacePeerMaster, NewRecord
    <3> QED
      BY <2>5, <3>2
  <2> QED
    BY <2>2, <2>3, <2>4, <2>5, RecordStep
<1> QED
  BY <1>1, TrustInvariant, PTL DEF Spec, MasterPinned

\* Under one master no replayed or conflicting list takes the stored list
\* back (decide_list, ListState::apply).
THEOREM NoListRollback == Spec => ListNeverRollsBack
<1>1. TrustInv /\ [Next]_vars => [KeepsList]_vars
  <2> SUFFICES ASSUME TrustInv, [Next]_vars,
                      ~ \E m \in Master : ReplacePeerMaster(m)
               PROVE  \/ rec'.version > rec.version
                      \/ rec'.version = rec.version /\ rec'.keys = rec.keys
                      \/ rec'.released
    BY DEF KeepsList
  <2>1. RecordOK(rec) /\ rec \in Record
    BY DEF TrustInv, TypeOK
  <2>2. CASE Grows(rec, rec')
    BY <2>2 DEF Grows
  <2>3. CASE rec' = Released(rec)
    BY <2>1, <2>3, ReleasedFields
  <2>4. CASE rec' \in {[rec EXCEPT !.sas = TRUE], [rec EXCEPT !.key = TRUE]}
    BY <2>1, <2>4 DEF Record
  <2> QED
    BY <2>2, <2>3, <2>4, RecordStep
<1> QED
  BY <1>1, TrustInvariant, PTL DEF Spec, ListNeverRollsBack

\* A device that stops being vouched for is revoked, it never just fades
\* (the two sources of `dropped` in accept_list).
THEOREM LossRevokes == Spec => LossIsRevocation
<1>1. TrustInv /\ [Next]_vars => [RevokesLost]_vars
  <2> SUFFICES ASSUME TrustInv, [Next]_vars,
                      ~ \E m \in Master : ReplacePeerMaster(m),
                      NEW d \in Device, Vouched(rec, d), ~Vouched(rec', d)
               PROVE  d \in rec'.revoked \/ rec'.released
    BY DEF RevokesLost
  <2>1. RecordOK(rec) /\ rec \in Record
    BY DEF TrustInv, TypeOK
  <2>2. CASE Grows(rec, rec')
    BY <2>2 DEF Grows
  <2>3. CASE rec' = Released(rec)
    BY <2>1, <2>3, ReleasedFields
  <2>4. CASE rec' \in {[rec EXCEPT !.sas = TRUE], [rec EXCEPT !.key = TRUE]}
    BY <2>1, <2>4 DEF Record, Vouched
  <2> QED
    BY <2>2, <2>3, <2>4, RecordStep
<1> QED
  BY <1>1, TrustInvariant, PTL DEF Spec, LossIsRevocation

\* No door, dialog, failed write, reset or restart takes back a revocation,
\* a list, a pinned master or a device's trust without a revocation: the four
\* action properties in the formula that the run checks.
THEOREM TrustNeverUndone == Spec => NothingUndone
  BY RevocationsAreKept, NoListRollback, LossRevokes, MasterStaysPinned, PTL
     DEF NothingUndone, RevocationsKept, ListNeverRollsBack, LossIsRevocation,
         MasterPinned
=============================================================================
