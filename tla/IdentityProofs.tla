--------------------------- MODULE IdentityProofs ----------------------------
(***************************************************************************)
(* Proofs about OwnIdentity: the identity stays sound, a revoke holds and  *)
(* neither the stored list nor the server's is taken back, for every set   *)
(* of devices and masters, every bound and every order of faults.          *)
(*                                                                         *)
(* BaseInv is inductive whatever the other devices sign.  What a device    *)
(* knows of its own master needs more: AloneInv, and the assumption that   *)
(* no other device signs with a master that this device made.  The code    *)
(* justifies it, since a master secret never leaves the device that made   *)
(* it.  Without it, a copied store could sign a list behind the stored one *)
(* and apply_grant, which compares no versions, would take it.             *)
(***************************************************************************)
EXTENDS OwnIdentity, TLAPS

\* Where a provisioning run stands, a revoke, and a pairing.
AfterMigrate == {"legacy", "stale", "first", "cert", "devices", "register", "put", "clear",
                 "bundle"}
AfterFirst == {"cert", "devices", "register", "put", "clear", "bundle"}
Revoking == {"route", "publish", "refetch", "resign", "published", "drop", "dropped"}
Pairs == {"grant", "save", "grantlist", "grantcert"}
Pcs == ProvisionSteps \cup Revoking \cup Pairs \cup {"idle", "open", "delete", "wipe", "adopt"}

\* TypeOK in the parts that steps of one kind write.
StoreTypes ==
    /\ account \in OwnKey \cup {None} /\ master \in OwnKey \cup {None}
    /\ cert \in Master \cup {None} /\ list \in List \cup {None}
    /\ revoking \in Sibling \cup {None} /\ ownRevoked \subseteq Sibling
    /\ trustRevoked \subseteq Sibling /\ srvList \in List \cup {None}

RunTypes ==
    /\ pc \in Pcs /\ held \in List \cup {None} /\ tries \in 0 .. 1
    /\ srvDevices \subseteq Key /\ engine \in OwnKey \cup {None}

CountTypes ==
    /\ made \in Nat /\ spent \subseteq OtherMaster
    /\ faults \in 0 .. MaxFaults /\ user \in 0 .. MaxUser /\ other \in 0 .. MaxOther
    /\ banned \subseteq Sibling /\ forgot \subseteq OwnKey

DataTypes == StoreTypes /\ RunTypes /\ CountTypes

FlagTypes ==
    /\ listPending \in BOOLEAN /\ migrated \in BOOLEAN /\ resetPending \in BOOLEAN
    /\ unavailable \in BOOLEAN /\ provisioned \in BOOLEAN /\ resetDone \in BOOLEAN
    /\ forgotten \in BOOLEAN /\ replaced \in BOOLEAN /\ joining \in BOOLEAN

\* The list l and the server's list are of one identity.
Same(l) == srvList # None /\ l # None /\ srvList.master = l.master

\* What one write of the store keeps together: the master is the one of the
\* account, a certificate and a revoke stand only beside a list, and a
\* migrated list is signed by the master in the current order.
StoreInv ==
    /\ master # None => master = account
    /\ cert # None => list # None
    /\ migrated => /\ master # None
                   /\ list # None /\ list.master = master /\ ~list.legacy
    /\ list = None => ownRevoked = {} /\ revoking = None
    /\ replaced => master # None

\* A master that some list names was made: by another device, or by this one
\* no later than its last key, so a new key is never the master of an old
\* list.
KnownMaster(m) ==
    /\ m \in OtherMaster => m \in spent
    /\ m \in OwnKey => m <= made /\ (m = account => master = account)

MastersKnown ==
    /\ account # None => account <= made
    /\ srvList # None => KnownMaster(srvList.master)
    /\ list # None => KnownMaster(list.master)
    /\ held # None => KnownMaster(held.master)

\* What a provisioning run found out on its way and the next links rely on:
\* the checks of "master" hold on, a list that the run puts is above the list
\* it read, and a run that writes the first list has a master.
ProvisionInv ==
    /\ pc \in ProvisionSteps \ {"account"} => account # None
    /\ pc \in AfterMigrate \cup {"migrate"} =>
          /\ held = None => master # None
          /\ held # None => master = held.master \/ (master = None /\ cert = held.master)
    /\ (pc \in AfterMigrate /\ list # None /\ master # None) => list.master = master
    /\ (pc \in {"stale", "first"} /\ held # None /\ master # None /\ Behind) => ~held.legacy
    /\ pc \in AfterFirst => list # None
    /\ (pc \in AfterFirst \cup {"first"} /\ held # None /\ listPending)
          => list.version > held.version
    /\ pc = "put" => listPending \/ held = None

\* The same for a revoke and a reset: a run that puts a list has the mark, a
\* revoke run has a pending revoke, and the wipe of a reset comes after the
\* server dropped the own identity.
RevokeRunInv ==
    /\ pc \in {"publish", "refetch", "resign", "published"} => listPending
    /\ (pc = "publish" /\ held # None) => list.version > held.version
    /\ pc = "route" => held = None
    /\ pc = "resign" => held # None
    /\ pc \in Revoking => revoking # None
    /\ (pc = "wipe" /\ srvList # None) => srvList.master \in OtherMaster

\* The same for a grant and for sync_own_list: what the run will store is a
\* list of the same master above the stored one.
PairRunInv ==
    /\ pc \in {"grant", "save"} =>
          /\ master # None /\ list # None /\ held # None
          /\ list.master = master /\ held.master = master /\ ~held.legacy
          /\ held.version = list.version + 1
    /\ pc \in {"grantlist", "grantcert"} =>
          held # None /\ ~held.legacy /\ master \in {None, held.master}
    /\ pc = "grantcert" => list # None
    /\ pc = "adopt" =>
          /\ held # None /\ ~held.legacy /\ list # None
          /\ held.master = list.master /\ held.version > list.version

\* The list that a run read is the server's, or the server moved on.
HeldIsBehind ==
    (pc # "grant" /\ Same(held)) => held.version < srvList.version \/ held = srvList

\* While the server holds the identity of the own master, the stored list is
\* of that master too.
ListFollows ==
    (list # None /\ srvList # None /\ master # None /\ srvList.master = master)
        => list.master = master

\* The stored list names no revoked key that the server's does not name.
Fresh == list.keys \cap ownRevoked \subseteq srvList.keys

\* No revoke waits with an unpublished list.
Settled == revoking = None \/ ~listPending \/ pc \in {"clear", "published", "drop", "dropped"}

\* A list above the server's, which a put would bring there, names no revoked
\* key that is new to the server; when both have one version the same holds
\* once no revoke waits, so that a revoke, which signs above it, keeps it.
AheadInv ==
    /\ (Same(list) /\ list.version > srvList.version) =>
          \/ list.keys \cap ownRevoked = {}
          \/ Fresh /\ list.version = srvList.version + 1 /\ ~Settled
    /\ (Same(list) /\ list.version = srvList.version /\ Settled) => Fresh
    /\ (Same(list) /\ pc \in {"clear", "published", "drop", "dropped"})
          => list.version <= srvList.version

\* The invariant for any Shared.
RunInv ==
    StoreInv /\ PendingIsSigned /\ MastersKnown /\ ProvisionInv /\ RevokeRunInv /\ PairRunInv

ListInv ==
    HeldIsBehind /\ ListFollows /\ AheadInv /\ UnmarkedIsPublished /\ IdentityNotOrphaned

BaseInv == DataTypes /\ FlagTypes /\ RunInv /\ ListInv

\* What holds when the own master is not shared: this device never holds a
\* list of another master above the server's.
ForeignInv ==
    /\ (Same(list) /\ list.master \in OtherMaster) => list.version <= srvList.version
    /\ pc \in {"grantlist", "grantcert"} => held.master \in OtherMaster
    /\ (pc = "grantlist" /\ list # None /\ list.master = held.master)
          => list.version <= held.version

\* The server holds an identity of the own master.
OwnSrv == srvList # None /\ master # None /\ srvList.master = master

\* The server is never more than the list of one grant ahead, and under a
\* provisioning run the server's list does not change.
OwnInv ==
    /\ (OwnSrv /\ list # None) => srvList.version <= list.version + 1
    /\ (pc \in {"master", "migrate", "legacy", "stale", "first"} /\ OwnSrv)
          => held = srvList

\* A banned key is revoked, the lists that are ahead or on the way into the
\* store do not name it, and a revoke is over only when the server's list
\* does not name its key.
BanInv ==
    /\ banned \subseteq ownRevoked
    /\ banned # {} => master # None /\ list # None /\ list.master = master
    /\ (OwnSrv /\ list # None /\ srvList.version > list.version) => srvList.keys \cap banned = {}
    /\ pc \in {"adopt", "save"} => held.keys \cap banned = {}
    /\ (pc = "dropped" /\ OwnSrv) => revoking \notin srvList.keys
    /\ pc \in Revoking \ {"route"} => revoking \in trustRevoked

AloneInv == BaseInv /\ ForeignInv /\ OwnInv /\ BanInv /\ RevokeHolds



\* What the provers need of a signed list.
IsSigned(l, m, v, ks) ==
    /\ l \in List /\ l # None
    /\ l.master = m /\ l.version = v /\ l.keys = ks /\ ~l.legacy

\* A list that SignList builds is a list with the fields it was given.
LEMMA SignListFits ==
    ASSUME NEW m \in Master, NEW v \in Nat \ {0}, NEW ks \in SUBSET Key
    PROVE  IsSigned(SignList(m, v, ks), m, v, ks)
<1>1. SignList(m, v, ks) \in List
  BY DEF SignList, List
<1>2. SignList(m, v, ks) # None
  BY <1>1, IdentityConstants
<1>3. /\ SignList(m, v, ks).master = m /\ SignList(m, v, ks).version = v
      /\ SignList(m, v, ks).keys = ks
  BY DEF SignList
<1>4. ~SignList(m, v, ks).legacy
  BY DEF SignList
<1> QED
  BY <1>1, <1>2, <1>3, <1>4 DEF IsSigned

\* Signing a list again in the current order keeps its fields.
LEMMA MigratedFits ==
    ASSUME NEW l \in List
    PROVE  IsSigned([l EXCEPT !.legacy = FALSE], l.master, l.version, l.keys)
<1> DEFINE r == [l EXCEPT !.legacy = FALSE]
<1>1. r \in List
  BY DEF List
<1>2. r # None
  BY <1>1, IdentityConstants
<1>3. ~r.legacy
  BY DEF List
<1>4. r.master = l.master /\ r.version = l.version /\ r.keys = l.keys
  BY DEF List
<1> QED
  BY <1>1, <1>2, <1>3, <1>4 DEF IsSigned

\* The fields of a list have their types.
LEMMA ListFields ==
    ASSUME NEW l \in List
    PROVE  /\ l.master \in Master /\ l.version \in Nat \ {0} /\ l.keys \in SUBSET Key
           /\ l.version + 1 \in Nat \ {0}
BY DEF List

\* What the signing steps do to the stored list, with its fields spelled out:
\* the list of the old order is left, or signed again above the held one.
LEMMA LegacyStep ==
    ASSUME DataTypes, RunInv, ProvisionLegacy
    PROVE  \/ /\ UNCHANGED <<list, listPending>>
              /\ ~(held # None /\ master # None /\ Behind /\ held.legacy)
           \/ /\ held # None /\ master # None /\ Behind /\ listPending'
              /\ IsSigned(list', master, held.version + 1, KeysAbove(held.keys))
<1>1. CASE held # None /\ master # None /\ Behind /\ held.legacy
  <2>1. held \in List /\ master \in Master /\ account \in Key
    BY <1>1 DEF DataTypes, StoreTypes, RunTypes, Master, Key, RunInv, ProvisionInv,
        ProvisionLegacy, ProvisionSteps
  <2>2. KeysAbove(held.keys) \in SUBSET Key
    BY <2>1, ListFields DEF KeysAbove
  <2>3. IsSigned(SignList(master, held.version + 1, KeysAbove(held.keys)), master,
                 held.version + 1, KeysAbove(held.keys))
    BY <2>1, <2>2, SignListFits, ListFields
  <2> QED
    BY <1>1, <2>3 DEF ProvisionLegacy, Replaces
<1> QED
  BY <1>1 DEF ProvisionLegacy

\* The link "master" goes on with the master that fits, makes one for an
\* account that the server does not know, or ends.
MasterOutcome ==
    \/ /\ master # None /\ (held # None => held.master = master)
       /\ Goto("migrate") /\ UNCHANGED <<master, replaced>>
    \/ /\ master = None /\ held # None /\ cert = held.master
       /\ Goto("migrate") /\ UNCHANGED <<master, replaced>>
    \/ /\ master = None /\ held = None
       /\ master' = account /\ Goto("migrate") /\ UNCHANGED replaced
    \/ /\ pc' \in {"idle", "open"} /\ held' = None /\ tries' = 0 /\ joining' = FALSE
       /\ replaced' \in BOOLEAN /\ (replaced' => replaced \/ master # None)
       /\ UNCHANGED master

\* These are its outcomes.
LEMMA MasterStep ==
    ASSUME FlagTypes, ProvisionMaster
    PROVE  MasterOutcome
<1>1. ASSUME NEW b \in BOOLEAN, Recovery(b)
      PROVE  /\ pc' \in {"idle", "open"} /\ held' = None /\ tries' = 0 /\ joining' = FALSE
             /\ replaced' \in BOOLEAN /\ (replaced' => replaced \/ b)
  <2>1. pc' \in {"idle", "open"} /\ held' = None /\ tries' = 0 /\ joining' = FALSE
    BY <1>1 DEF Recovery, Returns, Ended
  <2>2. replaced' = replaced \/ replaced' = b
    BY <1>1 DEF Recovery
  <2> QED
    BY <2>1, <2>2 DEF FlagTypes
<1>2. CASE master # None /\ Recovery(TRUE) /\ UNCHANGED master
  BY <1>1, <1>2 DEF MasterOutcome
<1>3. CASE Recovery(FALSE) /\ UNCHANGED master
  BY <1>1, <1>3 DEF MasterOutcome
<1> QED
  BY <1>2, <1>3 DEF ProvisionMaster, MasterOutcome, Paired, memory

\* The waiting list is left, replaced by the held one or signed above it.
LEMMA StaleStep ==
    ASSUME DataTypes, RunInv, ProvisionStale
    PROVE  \/ /\ UNCHANGED <<list, listPending>>
              /\ ~(held # None /\ list # None /\ listPending /\ list.version <= held.version)
           \/ /\ held # None /\ list # None /\ listPending /\ list.version <= held.version
              /\ \/ list' = held /\ ~listPending' /\ held.keys \cap ownRevoked = {}
                 \/ /\ listPending'
                    /\ IsSigned(list', master, held.version + 1, KeysAbove(held.keys))
<1>1. CASE held # None /\ list # None /\ listPending /\ list.version <= held.version
  <2>1. held \in List /\ master \in Master /\ account \in Key /\ account \notin ownRevoked
    BY <1>1, IdentityConstants
    DEF DataTypes, StoreTypes, RunTypes, Master, Key, RunInv, PendingIsSigned, ProvisionInv,
        ProvisionStale,
        ProvisionSteps, OwnKey
  <2>2. KeysAbove(held.keys) \in SUBSET Key
    BY <2>1, ListFields DEF KeysAbove
  <2>3. KeysAbove(held.keys) = held.keys => held.keys \cap ownRevoked = {}
    BY <2>1 DEF KeysAbove
  <2>4. IsSigned(SignList(master, held.version + 1, KeysAbove(held.keys)), master,
                 held.version + 1, KeysAbove(held.keys))
    BY <2>1, <2>2, SignListFits, ListFields
  <2> QED
    BY <1>1, <2>3, <2>4 DEF ProvisionStale, Replaces
<1> QED
  BY <1>1 DEF ProvisionStale

\* The first list is the held one or is signed.
LEMMA FirstStep ==
    ASSUME DataTypes, RunInv, ProvisionFirst
    PROVE  \/ list # None /\ UNCHANGED <<list, listPending>>
           \/ list = None /\ held # None /\ list' = held /\ UNCHANGED listPending
           \/ /\ list = None /\ held # None /\ master # None /\ listPending'
              /\ IsSigned(list', master, held.version + 1, held.keys \cup {account})
           \/ /\ list = None /\ held = None /\ master # None /\ listPending'
              /\ IsSigned(list', master, 1, {account})
<1>1. CASE list = None
  <2>1. master \in Master /\ master # None /\ account \in Key
    BY <1>1, IdentityConstants
    DEF DataTypes, StoreTypes, RunTypes, Master, Key, RunInv, StoreInv, ProvisionInv,
        ProvisionFirst, ProvisionSteps,
        AfterMigrate, List
  <2>2. CASE held = None
    BY <1>1, <2>1, <2>2, SignListFits DEF ProvisionFirst, Replaces
  <2>3. CASE held # None
    <3>1. held \in List
      BY <2>3 DEF DataTypes, StoreTypes, RunTypes
    <3>2. IsSigned(SignList(master, held.version + 1, held.keys \cup {account}), master,
                   held.version + 1, held.keys \cup {account})
      BY <2>1, <3>1, SignListFits, ListFields
    <3> QED
      BY <1>1, <2>1, <2>3, <3>2 DEF ProvisionFirst, Replaces
  <2> QED
    BY <2>2, <2>3
<1> QED
  BY <1>1 DEF ProvisionFirst

\* The migration keeps the master, the version and the keys of the list.
LEMMA MigrateStep ==
    ASSUME DataTypes, RunInv, ProvisionMigrate
    PROVE  \/ UNCHANGED lists /\ (migrated \/ list = None \/ master = None) /\ Goto("legacy")
           \/ UNCHANGED lists /\ Returns
           \/ /\ list # None /\ master # None /\ list.master = master /\ migrated'
              /\ IsSigned(list', list.master, list.version, list.keys)
              /\ listPending => listPending'
              /\ Goto("legacy")
<1>1. list # None => IsSigned([list EXCEPT !.legacy = FALSE], list.master, list.version, list.keys)
  BY MigratedFits DEF DataTypes, StoreTypes, RunTypes
<1> QED
  BY <1>1 DEF ProvisionMigrate

\* The retry ends, takes the held list or signs above both lists.
LEMMA ResignStep ==
    ASSUME DataTypes, RunInv, PublishResign
    PROVE  \/ End /\ UNCHANGED lists
           \/ /\ held.master = master /\ ~held.legacy /\ held.keys \cap ownRevoked = {}
              /\ held.version >= list.version
              /\ list' = held /\ Goto("published") /\ UNCHANGED <<listPending, migrated>>
           \/ /\ listPending' /\ list'.version > held.version /\ list'.version > list.version
              /\ IsSigned(list', master, list'.version, Unrevoked(held.keys))
              /\ \/ End
                 \/ pc' = "publish" /\ tries' = 1 /\ UNCHANGED <<held, joining>>
              /\ UNCHANGED migrated
<1>1. held \in List /\ list \in List /\ master \in Master
  BY DEF DataTypes, StoreTypes, RunTypes, RunInv, RevokeRunInv, PendingIsSigned,
      PublishResign, Master
<1>2. /\ Higher(held.version, list.version) + 1 \in Nat \ {0}
      /\ Higher(held.version, list.version) + 1 > held.version
      /\ Higher(held.version, list.version) + 1 > list.version
  BY <1>1, ListFields DEF Higher
<1>3. Unrevoked(held.keys) \in SUBSET Key
  BY <1>1, ListFields DEF Unrevoked
<1>4. IsSigned(Resigned, master, Higher(held.version, list.version) + 1, Unrevoked(held.keys))
  BY <1>1, <1>2, <1>3, SignListFits DEF Resigned
<1>5. tries = 0 \/ tries = 1
  BY DEF DataTypes, StoreTypes, RunTypes
<1> QED
  BY <1>1, <1>2, <1>4, <1>5 DEF PublishResign, Replaces, Unrevoked, IsSigned

\* A revoke resumes, or signs the list without the key.
LEMMA RevokeStep ==
    ASSUME DataTypes, RunInv, NEW k \in Sibling, Revoke(k)
    PROVE  \/ revoking = k /\ UNCHANGED <<list, listPending, revoking, ownRevoked, banned>>
           \/ /\ revoking = None /\ master # None /\ list # None
              /\ revoking' = k /\ ownRevoked' = ownRevoked \cup {k} /\ banned' = banned \cup {k}
              /\ listPending'
              /\ IsSigned(list', master, list.version + 1, list.keys \ {k})
<1>1. CASE list # None /\ master # None
  <2>1. list \in List /\ master \in Master /\ list.keys \ {k} \in SUBSET Key
    BY <1>1, ListFields DEF DataTypes, StoreTypes, RunTypes, Master
  <2>2. IsSigned(SignList(master, list.version + 1, list.keys \ {k}), master, list.version + 1,
                 list.keys \ {k})
    BY <2>1, SignListFits, ListFields
  <2> QED
    BY <1>1, <2>2 DEF Revoke, BeginRevoke, Replaces
<1> QED
  BY <1>1 DEF Revoke

\* The lists that a grant and the other devices put are signed.
LEMMA GrantFits ==
    ASSUME NEW l \in List, NEW k \in Key
    PROVE  IsSigned(Grant(l, k), l.master, l.version + 1, l.keys \cup {k})
BY SignListFits, ListFields DEF Grant

\* The first list of another device is signed.
LEMMA HeldFits ==
    ASSUME NEW m \in OtherMaster
    PROVE  IsSigned(Held(m, Sibling), m, 1, Sibling)
BY SignListFits DEF Held, Master, Key

\* So is a later list of another device.
LEMMA OtherListFits ==
    ASSUME DataTypes, srvList # None, NEW ks \in SUBSET (Sibling \cup ({account} \ {None}))
    PROVE  IsSigned(SignList(srvList.master, srvList.version + 1, ks), srvList.master,
                    srvList.version + 1, ks)
<1>1. srvList \in List /\ ks \in SUBSET Key
  BY DEF DataTypes, StoreTypes, RunTypes, Key
<1> QED
  BY <1>1, SignListFits, ListFields

\* The steps that sign or choose a list; a lemma of its own proves each.
SigningStep ==
    \/ ProvisionMaster \/ ProvisionMigrate \/ ProvisionLegacy \/ ProvisionStale \/ ProvisionFirst
    \/ PublishResign \/ JoinGranted
    \/ \E k \in Sibling : Revoke(k) \/ PairSign(k)
    \/ \E ks \in SUBSET (Sibling \cup ({account} \ {None})) : OtherList(ks)
    \/ \E m \in OtherMaster : OtherFirst(m)

\* The other steps, part by part: the types of the store.
LEMMA StoreTypesKeep ==
    ASSUME BaseInv, Next
    PROVE  StoreTypes' \/ SigningStep
<1> USE IdentityConstants DEF identity, lists, revokes, disk, server, memory, run, limits,
    bounds, history, BaseInv, DataTypes, StoreTypes, RunTypes, CountTypes, OwnKey, Master,
    Key, List, RunInv, RevokeRunInv, Revoking, PairRunInv
<1>1. CASE Connect
  BY <1>1 DEF Connect, Ended
<1>2. CASE ProvisionAccount
  BY <1>2 DEF ProvisionAccount, MakeAccount, Returns, Ended, Goto
<1>3. CASE ProvisionFetch
  BY <1>3 DEF ProvisionFetch
<1>4. CASE ProvisionCert
  BY <1>4 DEF ProvisionCert, Goto
<1>5. CASE ProvisionDevices
  BY <1>5 DEF ProvisionDevices, Goto, AfterRegister
<1>6. CASE ProvisionRegister
  BY <1>6 DEF ProvisionRegister, Goto, AfterRegister, ServerRegisters
<1>7. CASE ProvisionPut
  BY <1>7 DEF ProvisionPut, Goto, Accepts, ServerTakes, Returns, Ended
<1>8. CASE ProvisionClear
  BY <1>8 DEF ProvisionClear, Goto
<1>9. CASE ProvisionDone
  BY <1>9 DEF ProvisionDone, Returns, Ended
<1>10. CASE Open
  BY <1>10 DEF Open, Openable, Ended, End, Resumed
<1>11. CASE StopRouting
  BY <1>11 DEF StopRouting, Goto
<1>12. CASE Publish
  BY <1>12 DEF Publish, Accepts, Stale, ServerTakes, Goto, End, Ended
<1>13. CASE PublishRefetch
  BY <1>13 DEF PublishRefetch, End, Ended
<1>14. CASE PublishClear
  BY <1>14 DEF PublishClear, Goto
<1>15. CASE DropDevice
  BY <1>15 DEF DropDevice, End, Ended, ServerDrops, Goto
<1>16. CASE RevokeDone
  BY <1>16 DEF RevokeDone, End, Ended
<1>17. CASE ResetDelete
  BY <1>17 DEF ResetDelete, ServerDeletes, Goto
<1>18. CASE ResetDone
  BY <1>18 DEF ResetDone, FinishReset, SettleReset, End, Ended
<1>19. CASE PairPut
  BY <1>19 DEF PairPut, Accepts, ServerTakes, Goto, End, Ended
<1>20. CASE PairSave
  BY <1>20 DEF PairSave, Replaces, End, Ended
<1>21. CASE ApplyGrantList
  BY <1>21 DEF ApplyGrantList, Replaces, Goto
<1>22. CASE ApplyGrantCert
  BY <1>22 DEF ApplyGrantCert
<1>23. CASE SyncAdopt
  BY <1>23 DEF SyncAdopt, Replaces, End, Ended
<1>24. CASE ResetConfirmed
  BY <1>24 DEF ResetConfirmed, Command, Openable, Ended
<1>25. CASE Forget
  BY <1>25 DEF Forget, MayForget, FinishReset, SettleReset
<1>26. CASE JoinOpen
  BY <1>26 DEF JoinOpen, PairingEngine, MakeAccount
<1>27. CASE SyncFetch
  BY <1>27 DEF SyncFetch, SyncNewer
<1>28. CASE OtherReset
  BY <1>28 DEF OtherReset, Other, ServerDeletes
<1>29. CASE StepFails
  BY <1>29 DEF StepFails, Fault, Fails, Ended
<1>30. CASE AnswerLost
  BY <1>30 DEF AnswerLost, Fault, Fails, Ended, ServerRegisters, Accepts, ServerTakes,
      ServerDrops, ServerDeletes
<1>31. CASE Restart
  BY <1>31 DEF Restart, Fault, End, Ended
<1> QED
  BY <1>1, <1>2, <1>3, <1>4, <1>5, <1>6, <1>7, <1>8, <1>9, <1>10, <1>11, <1>12, <1>13,
      <1>14, <1>15, <1>16, <1>17, <1>18, <1>19, <1>20, <1>21, <1>22, <1>23, <1>24, <1>25,
      <1>26, <1>27, <1>28, <1>29, <1>30, <1>31 DEF Next, RunStep, UserStep, OtherStep,
      FaultStep, SigningStep

\* The types of the run and of the server.
LEMMA RunTypesKeep ==
    ASSUME BaseInv, Next
    PROVE  RunTypes' \/ SigningStep
<1> USE IdentityConstants DEF identity, lists, revokes, disk, server, memory, run, limits,
    bounds, history, BaseInv, DataTypes, StoreTypes, RunTypes, CountTypes, OwnKey, Key,
    Master, List, Pcs, ProvisionSteps, Revoking, Pairs, RunInv, ProvisionInv
<1>1. CASE Connect
  BY <1>1 DEF Connect, Ended
<1>2. CASE ProvisionAccount
  BY <1>2 DEF ProvisionAccount, MakeAccount, Returns, Ended, Goto
<1>3. CASE ProvisionFetch
  BY <1>3 DEF ProvisionFetch
<1>4. CASE ProvisionCert
  BY <1>4 DEF ProvisionCert, Goto
<1>5. CASE ProvisionDevices
  BY <1>5 DEF ProvisionDevices, Goto, AfterRegister
<1>6. CASE ProvisionRegister
  BY <1>6 DEF ProvisionRegister, Goto, AfterRegister, ServerRegisters
<1>7. CASE ProvisionPut
  <2>1. pc' \in Pcs /\ held' \in List \cup {None}
    BY <1>7 DEF ProvisionPut, Goto, Accepts, ServerTakes, Returns, Ended
  <2>2. tries' \in 0 .. 1
    BY <1>7 DEF ProvisionPut, Goto, Accepts, ServerTakes, Returns, Ended
  <2>3. srvDevices' \subseteq Key /\ engine' \in OwnKey \cup {None}
    BY <1>7 DEF ProvisionPut, Goto, Accepts, ServerTakes, Returns, Ended
  <2> QED
    BY <2>1, <2>2, <2>3
<1>8. CASE ProvisionClear
  BY <1>8 DEF ProvisionClear, Goto
<1>9. CASE ProvisionDone
  BY <1>9 DEF ProvisionDone, Returns, Ended
<1>10. CASE Open
  BY <1>10 DEF Open, Openable, Ended, End, Resumed
<1>11. CASE StopRouting
  BY <1>11 DEF StopRouting, Goto
<1>12. CASE Publish
  <2>1. pc' \in Pcs /\ held' \in List \cup {None}
    BY <1>12 DEF Publish, Accepts, Stale, ServerTakes, Goto, End, Ended
  <2>2. tries' \in 0 .. 1
    BY <1>12 DEF Publish, Accepts, Stale, ServerTakes, Goto, End, Ended
  <2>3. srvDevices' \subseteq Key /\ engine' \in OwnKey \cup {None}
    BY <1>12 DEF Publish, Accepts, Stale, ServerTakes, Goto, End, Ended
  <2> QED
    BY <2>1, <2>2, <2>3
<1>13. CASE PublishRefetch
  BY <1>13 DEF PublishRefetch, End, Ended
<1>14. CASE PublishClear
  BY <1>14 DEF PublishClear, Goto
<1>15. CASE DropDevice
  <2>1. pc' \in Pcs /\ held' \in List \cup {None}
    BY <1>15 DEF DropDevice, End, Ended, ServerDrops, Goto
  <2>2. tries' \in 0 .. 1
    BY <1>15 DEF DropDevice, End, Ended, ServerDrops, Goto
  <2>3. srvDevices' \subseteq Key /\ engine' \in OwnKey \cup {None}
    BY <1>15 DEF DropDevice, End, Ended, ServerDrops, Goto
  <2> QED
    BY <2>1, <2>2, <2>3
<1>16. CASE RevokeDone
  BY <1>16 DEF RevokeDone, End, Ended
<1>17. CASE ResetDelete
  BY <1>17 DEF ResetDelete, ServerDeletes, Goto
<1>18. CASE ResetDone
  BY <1>18 DEF ResetDone, FinishReset, SettleReset, End, Ended
<1>19. CASE PairPut
  <2>1. pc' \in Pcs /\ held' \in List \cup {None}
    BY <1>19 DEF PairPut, Accepts, ServerTakes, Goto, End, Ended
  <2>2. tries' \in 0 .. 1
    BY <1>19 DEF PairPut, Accepts, ServerTakes, Goto, End, Ended
  <2>3. srvDevices' \subseteq Key /\ engine' \in OwnKey \cup {None}
    BY <1>19 DEF PairPut, Accepts, ServerTakes, Goto, End, Ended
  <2> QED
    BY <2>1, <2>2, <2>3
<1>20. CASE PairSave
  BY <1>20 DEF PairSave, Replaces, End, Ended
<1>21. CASE ApplyGrantList
  BY <1>21 DEF ApplyGrantList, Replaces, Goto
<1>22. CASE ApplyGrantCert
  BY <1>22 DEF ApplyGrantCert
<1>23. CASE SyncAdopt
  BY <1>23 DEF SyncAdopt, Replaces, End, Ended
<1>24. CASE ResetConfirmed
  BY <1>24 DEF ResetConfirmed, Command, Openable, Ended
<1>25. CASE Forget
  BY <1>25 DEF Forget, MayForget, FinishReset, SettleReset
<1>26. CASE JoinOpen
  BY <1>26 DEF JoinOpen, PairingEngine, MakeAccount
<1>27. CASE SyncFetch
  BY <1>27 DEF SyncFetch, SyncNewer
<1>28. CASE OtherReset
  BY <1>28 DEF OtherReset, Other, ServerDeletes
<1>29. CASE StepFails
  BY <1>29 DEF StepFails, Fault, Fails, Ended
<1>30. CASE AnswerLost
  <2>1. pc' \in Pcs /\ held' \in List \cup {None}
    BY <1>30 DEF AnswerLost, Fault, Fails, Ended, ServerRegisters, Accepts, ServerTakes,
        ServerDrops, ServerDeletes
  <2>2. tries' \in 0 .. 1
    BY <1>30 DEF AnswerLost, Fault, Fails, Ended, ServerRegisters, Accepts, ServerTakes,
        ServerDrops, ServerDeletes
  <2>3. srvDevices' \subseteq Key /\ engine' \in OwnKey \cup {None}
    BY <1>30 DEF AnswerLost, Fault, Fails, Ended, ServerRegisters, Accepts, ServerTakes,
        ServerDrops, ServerDeletes
  <2> QED
    BY <2>1, <2>2, <2>3
<1>31. CASE Restart
  BY <1>31 DEF Restart, Fault, End, Ended
<1> QED
  BY <1>1, <1>2, <1>3, <1>4, <1>5, <1>6, <1>7, <1>8, <1>9, <1>10, <1>11, <1>12, <1>13,
      <1>14, <1>15, <1>16, <1>17, <1>18, <1>19, <1>20, <1>21, <1>22, <1>23, <1>24, <1>25,
      <1>26, <1>27, <1>28, <1>29, <1>30, <1>31 DEF Next, RunStep, UserStep, OtherStep,
      FaultStep, SigningStep

\* The types of the bounds and the history.
LEMMA CountTypesKeep ==
    ASSUME BaseInv, Next
    PROVE  CountTypes' \/ SigningStep
<1> USE IdentityConstants DEF identity, lists, revokes, disk, server, memory, run, limits,
    bounds, history, BaseInv, DataTypes, CountTypes, StoreTypes, OwnKey, RunInv, StoreInv
<1>1. CASE Connect
  BY <1>1 DEF Connect, Ended
<1>2. CASE ProvisionAccount
  BY <1>2 DEF ProvisionAccount, MakeAccount, Returns, Ended, Goto
<1>3. CASE ProvisionFetch
  BY <1>3 DEF ProvisionFetch
<1>4. CASE ProvisionCert
  BY <1>4 DEF ProvisionCert, Goto
<1>5. CASE ProvisionDevices
  BY <1>5 DEF ProvisionDevices, Goto, AfterRegister
<1>6. CASE ProvisionRegister
  BY <1>6 DEF ProvisionRegister, Goto, AfterRegister, ServerRegisters
<1>7. CASE ProvisionPut
  BY <1>7 DEF ProvisionPut, Goto, Accepts, ServerTakes, Returns, Ended
<1>8. CASE ProvisionClear
  BY <1>8 DEF ProvisionClear, Goto
<1>9. CASE ProvisionDone
  BY <1>9 DEF ProvisionDone, Returns, Ended
<1>10. CASE Open
  BY <1>10 DEF Open, Openable, Ended, End, Resumed
<1>11. CASE StopRouting
  BY <1>11 DEF StopRouting, Goto
<1>12. CASE Publish
  BY <1>12 DEF Publish, Accepts, Stale, ServerTakes, Goto, End, Ended
<1>13. CASE PublishRefetch
  BY <1>13 DEF PublishRefetch, End, Ended
<1>14. CASE PublishClear
  BY <1>14 DEF PublishClear, Goto
<1>15. CASE DropDevice
  BY <1>15 DEF DropDevice, End, Ended, ServerDrops, Goto
<1>16. CASE RevokeDone
  BY <1>16 DEF RevokeDone, End, Ended
<1>17. CASE ResetDelete
  BY <1>17 DEF ResetDelete, ServerDeletes, Goto
<1>18. CASE ResetDone
  BY <1>18 DEF ResetDone, FinishReset, SettleReset, End, Ended
<1>19. CASE PairPut
  BY <1>19 DEF PairPut, Accepts, ServerTakes, Goto, End, Ended
<1>20. CASE PairSave
  BY <1>20 DEF PairSave, Replaces, End, Ended
<1>21. CASE ApplyGrantList
  BY <1>21 DEF ApplyGrantList, Replaces, Goto
<1>22. CASE ApplyGrantCert
  BY <1>22 DEF ApplyGrantCert
<1>23. CASE SyncAdopt
  BY <1>23 DEF SyncAdopt, Replaces, End, Ended
<1>24. CASE ResetConfirmed
  BY <1>24 DEF ResetConfirmed, Command, Openable, Ended
<1>25. CASE Forget
  BY <1>25 DEF Forget, MayForget, FinishReset, SettleReset
<1>26. CASE JoinOpen
  BY <1>26 DEF JoinOpen, PairingEngine, MakeAccount
<1>27. CASE SyncFetch
  BY <1>27 DEF SyncFetch, SyncNewer
<1>28. CASE OtherReset
  BY <1>28 DEF OtherReset, Other, ServerDeletes
<1>29. CASE StepFails
  BY <1>29 DEF StepFails, Fault, Fails, Ended
<1>30. CASE AnswerLost
  BY <1>30 DEF AnswerLost, Fault, Fails, Ended, ServerRegisters, Accepts, ServerTakes,
      ServerDrops, ServerDeletes
<1>31. CASE Restart
  BY <1>31 DEF Restart, Fault, End, Ended
<1> QED
  BY <1>1, <1>2, <1>3, <1>4, <1>5, <1>6, <1>7, <1>8, <1>9, <1>10, <1>11, <1>12, <1>13,
      <1>14, <1>15, <1>16, <1>17, <1>18, <1>19, <1>20, <1>21, <1>22, <1>23, <1>24, <1>25,
      <1>26, <1>27, <1>28, <1>29, <1>30, <1>31 DEF Next, RunStep, UserStep, OtherStep,
      FaultStep, SigningStep

\* The types of the flags.
LEMMA FlagTypesKeep ==
    ASSUME BaseInv, Next
    PROVE  FlagTypes' \/ SigningStep
<1> USE IdentityConstants DEF identity, lists, revokes, disk, server, memory, run, limits,
    bounds, history, BaseInv, FlagTypes
<1>1. CASE Connect
  BY <1>1 DEF Connect, Ended
<1>2. CASE ProvisionAccount
  BY <1>2 DEF ProvisionAccount, MakeAccount, Returns, Ended, Goto
<1>3. CASE ProvisionFetch
  BY <1>3 DEF ProvisionFetch
<1>4. CASE ProvisionCert
  BY <1>4 DEF ProvisionCert, Goto
<1>5. CASE ProvisionDevices
  BY <1>5 DEF ProvisionDevices, Goto, AfterRegister
<1>6. CASE ProvisionRegister
  BY <1>6 DEF ProvisionRegister, Goto, AfterRegister, ServerRegisters
<1>7. CASE ProvisionPut
  BY <1>7 DEF ProvisionPut, Goto, Accepts, ServerTakes, Returns, Ended
<1>8. CASE ProvisionClear
  BY <1>8 DEF ProvisionClear, Goto
<1>9. CASE ProvisionDone
  BY <1>9 DEF ProvisionDone, Returns, Ended
<1>10. CASE Open
  BY <1>10 DEF Open, Openable, Ended, End, Resumed
<1>11. CASE StopRouting
  BY <1>11 DEF StopRouting, Goto
<1>12. CASE Publish
  BY <1>12 DEF Publish, Accepts, Stale, ServerTakes, Goto, End, Ended
<1>13. CASE PublishRefetch
  BY <1>13 DEF PublishRefetch, End, Ended
<1>14. CASE PublishClear
  BY <1>14 DEF PublishClear, Goto
<1>15. CASE DropDevice
  BY <1>15 DEF DropDevice, End, Ended, ServerDrops, Goto
<1>16. CASE RevokeDone
  BY <1>16 DEF RevokeDone, End, Ended
<1>17. CASE ResetDelete
  BY <1>17 DEF ResetDelete, ServerDeletes, Goto
<1>18. CASE ResetDone
  BY <1>18 DEF ResetDone, FinishReset, SettleReset, End, Ended
<1>19. CASE PairPut
  BY <1>19 DEF PairPut, Accepts, ServerTakes, Goto, End, Ended
<1>20. CASE PairSave
  BY <1>20 DEF PairSave, Replaces, End, Ended
<1>21. CASE ApplyGrantList
  BY <1>21 DEF ApplyGrantList, Replaces, Goto
<1>22. CASE ApplyGrantCert
  BY <1>22 DEF ApplyGrantCert
<1>23. CASE SyncAdopt
  BY <1>23 DEF SyncAdopt, Replaces, End, Ended
<1>24. CASE ResetConfirmed
  BY <1>24 DEF ResetConfirmed, Command, Openable, Ended
<1>25. CASE Forget
  BY <1>25 DEF Forget, MayForget, FinishReset, SettleReset
<1>26. CASE JoinOpen
  BY <1>26 DEF JoinOpen, PairingEngine, MakeAccount
<1>27. CASE SyncFetch
  BY <1>27 DEF SyncFetch, SyncNewer
<1>28. CASE OtherReset
  BY <1>28 DEF OtherReset, Other, ServerDeletes
<1>29. CASE StepFails
  BY <1>29 DEF StepFails, Fault, Fails, Ended
<1>30. CASE AnswerLost
  BY <1>30 DEF AnswerLost, Fault, Fails, Ended, ServerRegisters, Accepts, ServerTakes,
      ServerDrops, ServerDeletes
<1>31. CASE Restart
  BY <1>31 DEF Restart, Fault, End, Ended
<1> QED
  BY <1>1, <1>2, <1>3, <1>4, <1>5, <1>6, <1>7, <1>8, <1>9, <1>10, <1>11, <1>12, <1>13,
      <1>14, <1>15, <1>16, <1>17, <1>18, <1>19, <1>20, <1>21, <1>22, <1>23, <1>24, <1>25,
      <1>26, <1>27, <1>28, <1>29, <1>30, <1>31 DEF Next, RunStep, UserStep, OtherStep,
      FaultStep, SigningStep

\* The store, the masters and what the runs found out.
LEMMA RunInvKeeps ==
    ASSUME BaseInv, Next
    PROVE  RunInv' \/ SigningStep
<1> USE IdentityConstants DEF identity, lists, revokes, disk, server, memory, run, limits,
    bounds, history, BaseInv, DataTypes, StoreTypes, RunTypes, CountTypes, OwnKey, Master,
    Key, List, RunInv, StoreInv, PendingIsSigned, MastersKnown, KnownMaster, ProvisionInv,
    AfterMigrate, AfterFirst, ProvisionSteps, Behind, RevokeRunInv, Revoking, PairRunInv
<1>1. CASE Connect
  BY <1>1 DEF Connect, Ended
<1>2. CASE ProvisionAccount
  BY <1>2 DEF ProvisionAccount, MakeAccount, Returns, Ended, Goto
<1>3. CASE ProvisionFetch
  BY <1>3 DEF ProvisionFetch
<1>4. CASE ProvisionCert
  BY <1>4 DEF ProvisionCert, Goto
<1>5. CASE ProvisionDevices
  BY <1>5 DEF ProvisionDevices, Goto, AfterRegister
<1>6. CASE ProvisionRegister
  BY <1>6 DEF ProvisionRegister, Goto, AfterRegister, ServerRegisters
<1>7. CASE ProvisionPut
  BY <1>7 DEF ProvisionPut, Goto, Accepts, ServerTakes, Returns, Ended
<1>8. CASE ProvisionClear
  BY <1>8 DEF ProvisionClear, Goto
<1>9. CASE ProvisionDone
  BY <1>9 DEF ProvisionDone, Returns, Ended
<1>10. CASE Open
  BY <1>10 DEF Open, Openable, Ended, End, Resumed
<1>11. CASE StopRouting
  BY <1>11 DEF StopRouting, Goto
<1>12. CASE Publish
  BY <1>12 DEF Publish, Accepts, Stale, ServerTakes, Goto, End, Ended
<1>13. CASE PublishRefetch
  BY <1>13 DEF PublishRefetch, End, Ended
<1>14. CASE PublishClear
  BY <1>14 DEF PublishClear, Goto
<1>15. CASE DropDevice
  BY <1>15 DEF DropDevice, End, Ended, ServerDrops, Goto
<1>16. CASE RevokeDone
  BY <1>16 DEF RevokeDone, End, Ended
<1>17. CASE ResetDelete
  BY <1>17 DEF ResetDelete, ServerDeletes, Goto
<1>18. CASE ResetDone
  BY <1>18 DEF ResetDone, FinishReset, SettleReset, End, Ended
<1>19. CASE PairPut
  BY <1>19 DEF PairPut, Accepts, ServerTakes, Goto, End, Ended
<1>20. CASE PairSave
  BY <1>20 DEF PairSave, Replaces, End, Ended
<1>21. CASE ApplyGrantList
  BY <1>21 DEF ApplyGrantList, Replaces, Goto
<1>22. CASE ApplyGrantCert
  BY <1>22 DEF ApplyGrantCert
<1>23. CASE SyncAdopt
  BY <1>23 DEF SyncAdopt, Replaces, End, Ended
<1>24. CASE ResetConfirmed
  BY <1>24 DEF ResetConfirmed, Command, Openable, Ended
<1>25. CASE Forget
  BY <1>25 DEF Forget, MayForget, FinishReset, SettleReset
<1>26. CASE JoinOpen
  BY <1>26 DEF JoinOpen, PairingEngine, MakeAccount
<1>27. CASE SyncFetch
  BY <1>27 DEF SyncFetch, SyncNewer
<1>28. CASE OtherReset
  BY <1>28 DEF OtherReset, Other, ServerDeletes
<1>29. CASE StepFails
  BY <1>29 DEF StepFails, Fault, Fails, Ended
<1>30. CASE AnswerLost
  BY <1>30 DEF AnswerLost, Fault, Fails, Ended, ServerRegisters, Accepts, ServerTakes,
      ServerDrops, ServerDeletes
<1>31. CASE Restart
  BY <1>31 DEF Restart, Fault, End, Ended
<1> QED
  BY <1>1, <1>2, <1>3, <1>4, <1>5, <1>6, <1>7, <1>8, <1>9, <1>10, <1>11, <1>12, <1>13,
      <1>14, <1>15, <1>16, <1>17, <1>18, <1>19, <1>20, <1>21, <1>22, <1>23, <1>24, <1>25,
      <1>26, <1>27, <1>28, <1>29, <1>30, <1>31 DEF Next, RunStep, UserStep, OtherStep,
      FaultStep, SigningStep

\* The stored list against the server's.
LEMMA ListInvKeeps ==
    ASSUME BaseInv, Next
    PROVE  ListInv' \/ SigningStep
<1> USE IdentityConstants DEF identity, lists, revokes, disk, server, memory, run, limits,
    bounds, history, BaseInv, DataTypes, StoreTypes, RunTypes, CountTypes, OwnKey, Master,
    Key, List, RunInv, StoreInv, PendingIsSigned, MastersKnown, KnownMaster, ProvisionInv,
    AfterMigrate, AfterFirst, ProvisionSteps, Behind, RevokeRunInv, Revoking, PairRunInv,
    ListInv, HeldIsBehind, Same, ListFollows, AheadInv, Fresh, Settled,
    UnmarkedIsPublished, IdentityNotOrphaned
<1>1. CASE Connect
  BY <1>1 DEF Connect, Ended
<1>2. CASE ProvisionAccount
  BY <1>2 DEF ProvisionAccount, MakeAccount, Returns, Ended, Goto
<1>3. CASE ProvisionFetch
  BY <1>3 DEF ProvisionFetch
<1>4. CASE ProvisionCert
  BY <1>4 DEF ProvisionCert, Goto
<1>5. CASE ProvisionDevices
  BY <1>5 DEF ProvisionDevices, Goto, AfterRegister
<1>6. CASE ProvisionRegister
  BY <1>6 DEF ProvisionRegister, Goto, AfterRegister, ServerRegisters
<1>7. CASE ProvisionPut
  BY <1>7 DEF ProvisionPut, Goto, Accepts, ServerTakes, Returns, Ended
<1>8. CASE ProvisionClear
  BY <1>8 DEF ProvisionClear, Goto
<1>9. CASE ProvisionDone
  BY <1>9 DEF ProvisionDone, Returns, Ended
<1>10. CASE Open
  BY <1>10 DEF Open, Openable, Ended, End, Resumed
<1>11. CASE StopRouting
  BY <1>11 DEF StopRouting, Goto
<1>12. CASE Publish
  BY <1>12 DEF Publish, Accepts, Stale, ServerTakes, Goto, End, Ended
<1>13. CASE PublishRefetch
  BY <1>13 DEF PublishRefetch, End, Ended
<1>14. CASE PublishClear
  BY <1>14 DEF PublishClear, Goto
<1>15. CASE DropDevice
  BY <1>15 DEF DropDevice, End, Ended, ServerDrops, Goto
<1>16. CASE RevokeDone
  BY <1>16 DEF RevokeDone, End, Ended
<1>17. CASE ResetDelete
  BY <1>17 DEF ResetDelete, ServerDeletes, Goto
<1>18. CASE ResetDone
  BY <1>18 DEF ResetDone, FinishReset, SettleReset, End, Ended
<1>19. CASE PairPut
  BY <1>19 DEF PairPut, Accepts, ServerTakes, Goto, End, Ended
<1>20. CASE PairSave
  BY <1>20 DEF PairSave, Replaces, End, Ended
<1>21. CASE ApplyGrantList
  BY <1>21 DEF ApplyGrantList, Replaces, Goto
<1>22. CASE ApplyGrantCert
  BY <1>22 DEF ApplyGrantCert
<1>23. CASE SyncAdopt
  BY <1>23 DEF SyncAdopt, Replaces, End, Ended
<1>24. CASE ResetConfirmed
  BY <1>24 DEF ResetConfirmed, Command, Openable, Ended
<1>25. CASE Forget
  BY <1>25 DEF Forget, MayForget, FinishReset, SettleReset
<1>26. CASE JoinOpen
  BY <1>26 DEF JoinOpen, PairingEngine, MakeAccount
<1>27. CASE SyncFetch
  BY <1>27 DEF SyncFetch, SyncNewer
<1>28. CASE OtherReset
  BY <1>28 DEF OtherReset, Other, ServerDeletes
<1>29. CASE StepFails
  BY <1>29 DEF StepFails, Fault, Fails, Ended
<1>30. CASE AnswerLost
  BY <1>30 DEF AnswerLost, Fault, Fails, Ended, ServerRegisters, Accepts, ServerTakes,
      ServerDrops, ServerDeletes
<1>31. CASE Restart
  BY <1>31 DEF Restart, Fault, End, Ended
<1> QED
  BY <1>1, <1>2, <1>3, <1>4, <1>5, <1>6, <1>7, <1>8, <1>9, <1>10, <1>11, <1>12, <1>13,
      <1>14, <1>15, <1>16, <1>17, <1>18, <1>19, <1>20, <1>21, <1>22, <1>23, <1>24, <1>25,
      <1>26, <1>27, <1>28, <1>29, <1>30, <1>31 DEF Next, RunStep, UserStep, OtherStep,
      FaultStep, SigningStep

\* The signing steps, one by one.
LEMMA ProvisionMasterKeeps ==
    ASSUME BaseInv, ProvisionMaster
    PROVE  BaseInv'
<1>1. /\ pc = "master"
      /\ UNCHANGED <<account, cert, list, listPending, migrated, revoking, ownRevoked,
                     trustRevoked, resetPending, srvList, srvDevices, engine, unavailable,
                     provisioned, resetDone, forgotten, made, spent, faults, user, other,
                     banned, forgot>>
  BY DEF ProvisionMaster, Recovery, memory, lists, revokes, server, bounds, limits, history
<1>2. MasterOutcome
  BY MasterStep DEF BaseInv
<1>3. master' = master \/ (master = None /\ held = None /\ account # None /\ master' = account)
  BY <1>1, <1>2 DEF MasterOutcome, BaseInv, RunInv, ProvisionInv, ProvisionSteps
<1>4. StoreTypes'
  BY <1>1, <1>3 DEF BaseInv, DataTypes, StoreTypes
<1>5. RunTypes'
  BY <1>1, <1>2 DEF MasterOutcome, Goto, BaseInv, DataTypes, RunTypes, Pcs, ProvisionSteps
<1>6. CountTypes'
  BY <1>1 DEF BaseInv, DataTypes, CountTypes
<1>7. FlagTypes'
  <2>1. replaced' \in BOOLEAN /\ joining' \in BOOLEAN
    BY <1>2 DEF MasterOutcome, Goto, BaseInv, FlagTypes
  <2> QED
    BY <1>1, <2>1 DEF BaseInv, FlagTypes
<1>8. RunInv'
  <2> USE <1>1, <1>2, <1>3, IdentityConstants DEF MasterOutcome, Goto, BaseInv, RunInv
  <2>1. StoreInv'
    BY DEF StoreInv
  <2>2. PendingIsSigned'
    BY DEF PendingIsSigned
  <2>3. MastersKnown'
    BY DEF MastersKnown, KnownMaster, StoreInv
  <2>4. ProvisionInv'
    BY DEF ProvisionInv, AfterMigrate, AfterFirst, ProvisionSteps, DataTypes, StoreTypes
  <2>5. RevokeRunInv'
    BY DEF RevokeRunInv, Revoking
  <2>6. PairRunInv'
    BY DEF PairRunInv
  <2> QED
    BY <2>1, <2>2, <2>3, <2>4, <2>5, <2>6
<1>9. ListInv'
  <2> USE <1>1, <1>2, <1>3 DEF MasterOutcome, Goto, BaseInv, ListInv
  <2>2. HeldIsBehind'
    BY DEF HeldIsBehind, Same
  <2>1. (master' # master /\ srvList # None) => srvList.master # account /\ srvList.master # None
    BY IdentityConstants, ListFields DEF RunInv, MastersKnown, KnownMaster, DataTypes, StoreTypes
  <2>3. ListFollows'
    BY <2>1 DEF ListFollows
  <2>4. UnmarkedIsPublished'
    BY DEF UnmarkedIsPublished
  <2>5. IdentityNotOrphaned'
    BY IdentityConstants DEF IdentityNotOrphaned, OwnKey, Master, Key
  <2>6. AheadInv'
    BY DEF AheadInv, Same, Fresh, Settled
  <2> QED
    BY <2>2, <2>3, <2>4, <2>5, <2>6
<1> QED
  BY <1>4, <1>5, <1>6, <1>7, <1>8, <1>9 DEF BaseInv, DataTypes

\* BaseInv: the migration to the current key order.
LEMMA ProvisionMigrateKeeps ==
    ASSUME BaseInv, ProvisionMigrate
    PROVE  BaseInv'
<1>1. \/ UNCHANGED lists /\ (migrated \/ list = None \/ master = None) /\ Goto("legacy")
      \/ UNCHANGED lists /\ Returns
      \/ /\ list # None /\ master # None /\ list.master = master /\ migrated'
         /\ IsSigned(list', list.master, list.version, list.keys)
         /\ listPending => listPending'
         /\ Goto("legacy")
  BY MigrateStep DEF BaseInv
<1> USE IdentityConstants DEF identity, lists, revokes, disk, server, memory, run, limits,
    bounds, history, ProvisionMigrate, IsSigned, Goto, Returns, Ended
<1>2. StoreTypes'
  BY <1>1 DEF BaseInv, DataTypes, StoreTypes, RunTypes, CountTypes, OwnKey, Master, Key,
      List, RunInv, StoreInv, ProvisionInv
<1>3. RunTypes'
  BY <1>1 DEF BaseInv, DataTypes, StoreTypes, RunTypes, CountTypes, OwnKey, Master, Key,
      List, Pcs, ProvisionSteps, Revoking, Pairs, RunInv, ProvisionInv
<1>4. CountTypes'
  BY <1>1 DEF BaseInv, DataTypes, CountTypes
<1>5. FlagTypes'
  BY <1>1 DEF BaseInv, FlagTypes
<1>6. RunInv'
  BY <1>1 DEF BaseInv, DataTypes, StoreTypes, RunTypes, CountTypes, OwnKey, Master, Key,
      List, RunInv, StoreInv, PendingIsSigned, MastersKnown, KnownMaster, ProvisionInv,
      AfterMigrate, AfterFirst, ProvisionSteps, Behind, RevokeRunInv, Revoking,
      PairRunInv, KeysAbove
<1>7. ListInv'
  BY <1>1 DEF BaseInv, DataTypes, StoreTypes, RunTypes, CountTypes, OwnKey, Master, Key,
      List, RunInv, StoreInv, PendingIsSigned, MastersKnown, KnownMaster, ProvisionInv,
      AfterMigrate, AfterFirst, ProvisionSteps, Behind, RevokeRunInv, Revoking,
      PairRunInv, ListInv, HeldIsBehind, Same, ListFollows, AheadInv, Fresh, Settled,
      UnmarkedIsPublished, IdentityNotOrphaned
<1> QED
  BY <1>2, <1>3, <1>4, <1>5, <1>6, <1>7 DEF BaseInv, DataTypes

\* BaseInv: a server list of the old order is signed again.
LEMMA ProvisionLegacyKeeps ==
    ASSUME BaseInv, ProvisionLegacy
    PROVE  BaseInv'
<1>1. \/ /\ UNCHANGED <<list, listPending>>
         /\ ~(held # None /\ master # None /\ Behind /\ held.legacy)
      \/ /\ held # None /\ master # None /\ Behind /\ listPending'
         /\ IsSigned(list', master, held.version + 1, KeysAbove(held.keys))
  BY LegacyStep DEF BaseInv
<1> USE IdentityConstants DEF identity, lists, revokes, disk, server, memory, run, limits,
    bounds, history, ProvisionLegacy, IsSigned, KeysAbove, Goto
<1>2. StoreTypes'
  BY <1>1 DEF BaseInv, DataTypes, StoreTypes, RunTypes, CountTypes, OwnKey, Master, Key,
      List, RunInv, StoreInv, ProvisionInv
<1>3. RunTypes'
  BY <1>1 DEF BaseInv, DataTypes, StoreTypes, RunTypes, CountTypes, OwnKey, Master, Key,
      List, Pcs, ProvisionSteps, Revoking, Pairs, RunInv, ProvisionInv
<1>4. CountTypes'
  BY <1>1 DEF BaseInv, DataTypes, CountTypes
<1>5. FlagTypes'
  BY <1>1 DEF BaseInv, FlagTypes
<1>6. RunInv'
  BY <1>1 DEF BaseInv, DataTypes, StoreTypes, RunTypes, CountTypes, OwnKey, Master, Key,
      List, RunInv, StoreInv, PendingIsSigned, MastersKnown, KnownMaster, ProvisionInv,
      AfterMigrate, AfterFirst, ProvisionSteps, Behind, RevokeRunInv, Revoking,
      PairRunInv, KeysAbove
<1>7. ListInv'
  BY <1>1 DEF BaseInv, DataTypes, StoreTypes, RunTypes, CountTypes, OwnKey, Master, Key,
      List, RunInv, StoreInv, PendingIsSigned, MastersKnown, KnownMaster, ProvisionInv,
      AfterMigrate, AfterFirst, ProvisionSteps, Behind, RevokeRunInv, Revoking,
      PairRunInv, ListInv, HeldIsBehind, Same, ListFollows, AheadInv, Fresh, Settled,
      UnmarkedIsPublished, IdentityNotOrphaned
<1> QED
  BY <1>2, <1>3, <1>4, <1>5, <1>6, <1>7 DEF BaseInv, DataTypes

\* BaseInv: a waiting list that is not above the server's is signed again.
LEMMA ProvisionStaleKeeps ==
    ASSUME BaseInv, ProvisionStale
    PROVE  BaseInv'
<1>1. \/ /\ UNCHANGED <<list, listPending>>
         /\ ~(held # None /\ list # None /\ listPending /\ list.version <= held.version)
      \/ /\ held # None /\ list # None /\ listPending /\ list.version <= held.version
         /\ \/ list' = held /\ ~listPending' /\ held.keys \cap ownRevoked = {}
            \/ /\ listPending'
               /\ IsSigned(list', master, held.version + 1, KeysAbove(held.keys))
  BY StaleStep DEF BaseInv
<1> USE IdentityConstants DEF identity, lists, revokes, disk, server, memory, run, limits,
    bounds, history, ProvisionStale, IsSigned, KeysAbove, Goto
<1>2. StoreTypes'
  BY <1>1 DEF BaseInv, DataTypes, StoreTypes, RunTypes, CountTypes, OwnKey, Master, Key,
      List, RunInv, StoreInv, ProvisionInv
<1>3. RunTypes'
  BY <1>1 DEF BaseInv, DataTypes, StoreTypes, RunTypes, CountTypes, OwnKey, Master, Key,
      List, Pcs, ProvisionSteps, Revoking, Pairs, RunInv, ProvisionInv
<1>4. CountTypes'
  BY <1>1 DEF BaseInv, DataTypes, CountTypes
<1>5. FlagTypes'
  BY DEF BaseInv, FlagTypes, Replaces
<1>6. RunInv'
  BY <1>1 DEF BaseInv, DataTypes, StoreTypes, RunTypes, CountTypes, OwnKey, Master, Key,
      List, RunInv, StoreInv, PendingIsSigned, MastersKnown, KnownMaster, ProvisionInv,
      AfterMigrate, AfterFirst, ProvisionSteps, Behind, RevokeRunInv, Revoking,
      PairRunInv, KeysAbove
<1>7. ListInv'
  BY <1>1 DEF BaseInv, DataTypes, StoreTypes, RunTypes, CountTypes, OwnKey, Master, Key,
      List, RunInv, StoreInv, PendingIsSigned, MastersKnown, KnownMaster, ProvisionInv,
      AfterMigrate, AfterFirst, ProvisionSteps, Behind, RevokeRunInv, Revoking,
      PairRunInv, ListInv, HeldIsBehind, Same, ListFollows, AheadInv, Fresh, Settled,
      UnmarkedIsPublished, IdentityNotOrphaned
<1> QED
  BY <1>2, <1>3, <1>4, <1>5, <1>6, <1>7 DEF BaseInv, DataTypes

\* BaseInv: a store without a list gets one.
LEMMA ProvisionFirstKeeps ==
    ASSUME BaseInv, ProvisionFirst
    PROVE  BaseInv'
<1>1. \/ list # None /\ UNCHANGED <<list, listPending>>
      \/ list = None /\ held # None /\ list' = held /\ UNCHANGED listPending
      \/ /\ list = None /\ held # None /\ master # None /\ listPending'
         /\ IsSigned(list', master, held.version + 1, held.keys \cup {account})
      \/ /\ list = None /\ held = None /\ master # None /\ listPending'
         /\ IsSigned(list', master, 1, {account})
  BY FirstStep DEF BaseInv
<1> USE IdentityConstants DEF identity, lists, revokes, disk, server, memory, run, limits,
    bounds, history, ProvisionFirst, IsSigned, Goto
<1>2. StoreTypes'
  BY <1>1 DEF BaseInv, DataTypes, StoreTypes, RunTypes, CountTypes, OwnKey, Master, Key,
      List, RunInv, StoreInv, ProvisionInv
<1>3. RunTypes'
  BY <1>1 DEF BaseInv, DataTypes, StoreTypes, RunTypes, CountTypes, OwnKey, Master, Key,
      List, Pcs, ProvisionSteps, Revoking, Pairs, RunInv, ProvisionInv
<1>4. CountTypes'
  BY <1>1 DEF BaseInv, DataTypes, CountTypes
<1>5. FlagTypes'
  BY <1>1 DEF BaseInv, FlagTypes
<1>6. RunInv'
  BY <1>1 DEF BaseInv, DataTypes, StoreTypes, RunTypes, CountTypes, OwnKey, Master, Key,
      List, RunInv, StoreInv, PendingIsSigned, MastersKnown, KnownMaster, ProvisionInv,
      AfterMigrate, AfterFirst, ProvisionSteps, Behind, RevokeRunInv, Revoking,
      PairRunInv, KeysAbove
<1>7. ListInv'
  BY <1>1 DEF BaseInv, DataTypes, StoreTypes, RunTypes, CountTypes, OwnKey, Master, Key,
      List, RunInv, StoreInv, PendingIsSigned, MastersKnown, KnownMaster, ProvisionInv,
      AfterMigrate, AfterFirst, ProvisionSteps, Behind, RevokeRunInv, Revoking,
      PairRunInv, ListInv, HeldIsBehind, Same, ListFollows, AheadInv, Fresh, Settled,
      UnmarkedIsPublished, IdentityNotOrphaned
<1> QED
  BY <1>2, <1>3, <1>4, <1>5, <1>6, <1>7 DEF BaseInv, DataTypes

\* BaseInv: the retry of a stale put.
LEMMA PublishResignKeeps ==
    ASSUME BaseInv, PublishResign
    PROVE  BaseInv'
<1>1. \/ End /\ UNCHANGED lists
      \/ /\ held.master = master /\ ~held.legacy /\ held.keys \cap ownRevoked = {}
         /\ held.version >= list.version
         /\ list' = held /\ Goto("published") /\ UNCHANGED <<listPending, migrated>>
      \/ /\ listPending' /\ list'.version > held.version /\ list'.version > list.version
         /\ IsSigned(list', master, list'.version, Unrevoked(held.keys))
         /\ \/ End
            \/ pc' = "publish" /\ tries' = 1 /\ UNCHANGED <<held, joining>>
         /\ UNCHANGED migrated
  BY ResignStep DEF BaseInv
<1> USE IdentityConstants DEF identity, lists, revokes, disk, server, memory, run, limits,
    bounds, history, PublishResign, IsSigned, Unrevoked, Goto, End, Ended
<1>2. StoreTypes'
  BY <1>1 DEF BaseInv, DataTypes, StoreTypes, RunTypes, CountTypes, OwnKey, Master, Key,
      List, RunInv, StoreInv, ProvisionInv
<1>3. RunTypes'
  BY <1>1 DEF BaseInv, DataTypes, StoreTypes, RunTypes, CountTypes, OwnKey, Master, Key,
      List, Pcs, ProvisionSteps, Revoking, Pairs, RunInv, ProvisionInv
<1>4. CountTypes'
  BY <1>1 DEF BaseInv, DataTypes, CountTypes
<1>5. FlagTypes'
  <2>1. listPending' \in {TRUE, FALSE, listPending}
    BY DEF Replaces, lists
  <2>2. joining' \in {FALSE, joining} /\ migrated' = migrated
    BY <1>1
  <2> QED
    BY <2>1, <2>2 DEF BaseInv, FlagTypes
<1>6. RunInv'
  <2> USE DEF BaseInv, DataTypes, StoreTypes, RunTypes, CountTypes, OwnKey, Master, Key,
      List, RunInv, StoreInv, PendingIsSigned, MastersKnown, KnownMaster, ProvisionInv,
      AfterMigrate, AfterFirst, ProvisionSteps, Behind, RevokeRunInv, Revoking,
      PairRunInv, KeysAbove
  <2>1. CASE End /\ UNCHANGED lists
    BY <2>1
  <2>2. CASE list' = held /\ Goto("published")
    BY <1>1, <2>2
  <2>3. CASE listPending' /\ IsSigned(list', master, list'.version, Unrevoked(held.keys))
    BY <1>1, <2>3
  <2> QED
    BY <1>1, <2>1, <2>2, <2>3
<1>7. ListInv'
  <2> USE DEF BaseInv, DataTypes, StoreTypes, RunTypes, CountTypes, OwnKey, Master, Key,
      List, RunInv, StoreInv, PendingIsSigned, MastersKnown, KnownMaster, ProvisionInv,
      AfterMigrate, AfterFirst, ProvisionSteps, Behind, RevokeRunInv, Revoking,
      PairRunInv, ListInv, HeldIsBehind, Same, ListFollows, AheadInv, Fresh, Settled,
      UnmarkedIsPublished, IdentityNotOrphaned
  <2>1. CASE End /\ UNCHANGED lists
    BY <2>1
  <2>2. CASE list' = held /\ Goto("published")
    BY <1>1, <2>2
  <2>3. CASE listPending' /\ IsSigned(list', master, list'.version, Unrevoked(held.keys))
    BY <1>1, <2>3
  <2> QED
    BY <1>1, <2>1, <2>2, <2>3
<1> QED
  BY <1>2, <1>3, <1>4, <1>5, <1>6, <1>7 DEF BaseInv, DataTypes

\* BaseInv: the shorter list and its mark in one write.
LEMMA RevokeKeeps ==
    ASSUME BaseInv, NEW k \in Sibling, Revoke(k)
    PROVE  BaseInv'
<1>1. \/ revoking = k /\ UNCHANGED <<list, listPending, revoking, ownRevoked, banned>>
      \/ /\ revoking = None /\ master # None /\ list # None
         /\ revoking' = k /\ ownRevoked' = ownRevoked \cup {k} /\ banned' = banned \cup {k}
         /\ listPending'
         /\ IsSigned(list', master, list.version + 1, list.keys \ {k})
  BY RevokeStep DEF BaseInv
<1> USE IdentityConstants DEF identity, lists, revokes, disk, server, memory, run, limits,
    bounds, history, Revoke, IsSigned, Command, Ended, Openable, Opens
<1>2. StoreTypes'
  BY <1>1 DEF BaseInv, DataTypes, StoreTypes, RunTypes, CountTypes, OwnKey, Master, Key,
      List, RunInv, StoreInv, ProvisionInv
<1>3. RunTypes'
  BY <1>1 DEF BaseInv, DataTypes, StoreTypes, RunTypes, CountTypes, OwnKey, Master, Key,
      List, Pcs, ProvisionSteps, Revoking, Pairs, RunInv, ProvisionInv
<1>4. CountTypes'
  BY <1>1 DEF BaseInv, DataTypes, CountTypes
<1>5. FlagTypes'
  BY <1>1 DEF BaseInv, FlagTypes
<1>6. RunInv'
  BY <1>1 DEF BaseInv, DataTypes, StoreTypes, RunTypes, CountTypes, OwnKey, Master, Key,
      List, RunInv, StoreInv, PendingIsSigned, MastersKnown, KnownMaster, ProvisionInv,
      AfterMigrate, AfterFirst, ProvisionSteps, Behind, RevokeRunInv, Revoking,
      PairRunInv, KeysAbove
<1>7. ListInv'
  BY <1>1 DEF BaseInv, DataTypes, StoreTypes, RunTypes, CountTypes, OwnKey, Master, Key,
      List, RunInv, StoreInv, PendingIsSigned, MastersKnown, KnownMaster, ProvisionInv,
      AfterMigrate, AfterFirst, ProvisionSteps, Behind, RevokeRunInv, Revoking,
      PairRunInv, ListInv, HeldIsBehind, Same, ListFollows, AheadInv, Fresh, Settled,
      UnmarkedIsPublished, IdentityNotOrphaned
<1> QED
  BY <1>2, <1>3, <1>4, <1>5, <1>6, <1>7 DEF BaseInv, DataTypes

\* BaseInv: the holder signs a grant.
LEMMA PairSignKeeps ==
    ASSUME BaseInv, NEW k \in Sibling, PairSign(k)
    PROVE  BaseInv'
<1>1. /\ list # None /\ list \in List
      /\ IsSigned(held', list.master, list.version + 1, list.keys \cup {k})
  BY GrantFits DEF PairSign, BaseInv, DataTypes, StoreTypes, Key
<1> USE IdentityConstants DEF identity, lists, revokes, disk, server, memory, run, limits,
    bounds, history, PairSign, IsSigned, Command, Openable, Opens
<1>2. StoreTypes'
  BY <1>1 DEF BaseInv, DataTypes, StoreTypes, RunTypes, CountTypes, OwnKey, Master, Key,
      List, RunInv, StoreInv, ProvisionInv
<1>3. RunTypes'
  BY <1>1 DEF BaseInv, DataTypes, StoreTypes, RunTypes, CountTypes, OwnKey, Master, Key,
      List, Pcs, ProvisionSteps, Revoking, Pairs, RunInv, ProvisionInv
<1>4. CountTypes'
  BY <1>1 DEF BaseInv, DataTypes, CountTypes
<1>5. FlagTypes'
  BY <1>1 DEF BaseInv, FlagTypes
<1>6. RunInv'
  BY <1>1 DEF BaseInv, DataTypes, StoreTypes, RunTypes, CountTypes, OwnKey, Master, Key,
      List, RunInv, StoreInv, PendingIsSigned, MastersKnown, KnownMaster, ProvisionInv,
      AfterMigrate, AfterFirst, ProvisionSteps, Behind, RevokeRunInv, Revoking,
      PairRunInv, KeysAbove
<1>7. ListInv'
  BY <1>1 DEF BaseInv, DataTypes, StoreTypes, RunTypes, CountTypes, OwnKey, Master, Key,
      List, RunInv, StoreInv, PendingIsSigned, MastersKnown, KnownMaster, ProvisionInv,
      AfterMigrate, AfterFirst, ProvisionSteps, Behind, RevokeRunInv, Revoking,
      PairRunInv, ListInv, HeldIsBehind, Same, ListFollows, AheadInv, Fresh, Settled,
      UnmarkedIsPublished, IdentityNotOrphaned
<1> QED
  BY <1>2, <1>3, <1>4, <1>5, <1>6, <1>7 DEF BaseInv, DataTypes

\* BaseInv: another holder grants this device.
LEMMA JoinGrantedKeeps ==
    ASSUME BaseInv, JoinGranted
    PROVE  BaseInv'
<1>1. IsSigned(srvList', srvList.master, srvList.version + 1, srvList.keys \cup {account})
  BY GrantFits DEF JoinGranted, ServerTakes, BaseInv, DataTypes, StoreTypes, RunTypes, Key
<1> USE IdentityConstants DEF identity, lists, revokes, disk, server, memory, run, limits,
    bounds, history, JoinGranted, IsSigned, ServerTakes
<1>2. StoreTypes'
  BY <1>1 DEF BaseInv, DataTypes, StoreTypes, RunTypes, CountTypes, OwnKey, Master, Key,
      List, RunInv, StoreInv, ProvisionInv
<1>3. RunTypes'
  BY <1>1 DEF BaseInv, DataTypes, StoreTypes, RunTypes, CountTypes, OwnKey, Master, Key,
      List, Pcs, ProvisionSteps, Revoking, Pairs, RunInv, ProvisionInv
<1>4. CountTypes'
  BY <1>1 DEF BaseInv, DataTypes, CountTypes
<1>5. FlagTypes'
  BY <1>1 DEF BaseInv, FlagTypes
<1>6. RunInv'
  BY <1>1 DEF BaseInv, DataTypes, StoreTypes, RunTypes, CountTypes, OwnKey, Master, Key,
      List, RunInv, StoreInv, PendingIsSigned, MastersKnown, KnownMaster, ProvisionInv,
      AfterMigrate, AfterFirst, ProvisionSteps, Behind, RevokeRunInv, Revoking,
      PairRunInv, KeysAbove
<1>7. ListInv'
  BY <1>1 DEF BaseInv, DataTypes, StoreTypes, RunTypes, CountTypes, OwnKey, Master, Key,
      List, RunInv, StoreInv, PendingIsSigned, MastersKnown, KnownMaster, ProvisionInv,
      AfterMigrate, AfterFirst, ProvisionSteps, Behind, RevokeRunInv, Revoking,
      PairRunInv, ListInv, HeldIsBehind, Same, ListFollows, AheadInv, Fresh, Settled,
      UnmarkedIsPublished, IdentityNotOrphaned
<1> QED
  BY <1>2, <1>3, <1>4, <1>5, <1>6, <1>7 DEF BaseInv, DataTypes

\* BaseInv: another device makes a new identity.
LEMMA OtherFirstKeeps ==
    ASSUME BaseInv, NEW m \in OtherMaster, OtherFirst(m)
    PROVE  BaseInv'
<1>1. IsSigned(srvList', m, 1, Sibling)
  BY HeldFits DEF OtherFirst, ServerTakes
<1> USE IdentityConstants DEF identity, lists, revokes, disk, server, memory, run, limits,
    bounds, history, OtherFirst, IsSigned, Other, ServerTakes
<1>2. StoreTypes'
  BY <1>1 DEF BaseInv, DataTypes, StoreTypes, RunTypes, CountTypes, OwnKey, Master, Key,
      List, RunInv, StoreInv, ProvisionInv
<1>3. RunTypes'
  BY <1>1 DEF BaseInv, DataTypes, StoreTypes, RunTypes, CountTypes, OwnKey, Master, Key,
      List, Pcs, ProvisionSteps, Revoking, Pairs, RunInv, ProvisionInv
<1>4. CountTypes'
  BY <1>1 DEF BaseInv, DataTypes, CountTypes
<1>5. FlagTypes'
  BY <1>1 DEF BaseInv, FlagTypes
<1>6. RunInv'
  BY <1>1 DEF BaseInv, DataTypes, StoreTypes, RunTypes, CountTypes, OwnKey, Master, Key,
      List, RunInv, StoreInv, PendingIsSigned, MastersKnown, KnownMaster, ProvisionInv,
      AfterMigrate, AfterFirst, ProvisionSteps, Behind, RevokeRunInv, Revoking,
      PairRunInv, KeysAbove
<1>7. ListInv'
  BY <1>1 DEF BaseInv, DataTypes, StoreTypes, RunTypes, CountTypes, OwnKey, Master, Key,
      List, RunInv, StoreInv, PendingIsSigned, MastersKnown, KnownMaster, ProvisionInv,
      AfterMigrate, AfterFirst, ProvisionSteps, Behind, RevokeRunInv, Revoking,
      PairRunInv, ListInv, HeldIsBehind, Same, ListFollows, AheadInv, Fresh, Settled,
      UnmarkedIsPublished, IdentityNotOrphaned
<1> QED
  BY <1>2, <1>3, <1>4, <1>5, <1>6, <1>7 DEF BaseInv, DataTypes

\* BaseInv: another device that has the master signs a list.
LEMMA OtherListKeeps ==
    ASSUME BaseInv,
           NEW ks \in SUBSET (Sibling \cup ({account} \ {None})), OtherList(ks)
    PROVE  BaseInv'
<1>1. IsSigned(srvList', srvList.master, srvList.version + 1, ks)
  BY OtherListFits DEF OtherList, ServerTakes, BaseInv
<1> USE IdentityConstants DEF identity, lists, revokes, disk, server, memory, run, limits,
    bounds, history, OtherList, IsSigned, Other, ServerTakes
<1>2. StoreTypes'
  BY <1>1 DEF BaseInv, DataTypes, StoreTypes, RunTypes, CountTypes, OwnKey, Master, Key,
      List, RunInv, StoreInv, ProvisionInv
<1>3. RunTypes'
  BY <1>1 DEF BaseInv, DataTypes, StoreTypes, RunTypes, CountTypes, OwnKey, Master, Key,
      List, Pcs, ProvisionSteps, Revoking, Pairs, RunInv, ProvisionInv
<1>4. CountTypes'
  BY <1>1 DEF BaseInv, DataTypes, CountTypes
<1>5. FlagTypes'
  BY <1>1 DEF BaseInv, FlagTypes
<1>6. RunInv'
  BY <1>1 DEF BaseInv, DataTypes, StoreTypes, RunTypes, CountTypes, OwnKey, Master, Key,
      List, RunInv, StoreInv, PendingIsSigned, MastersKnown, KnownMaster, ProvisionInv,
      AfterMigrate, AfterFirst, ProvisionSteps, Behind, RevokeRunInv, Revoking,
      PairRunInv, KeysAbove
<1>7. ListInv'
  BY <1>1 DEF BaseInv, DataTypes, StoreTypes, RunTypes, CountTypes, OwnKey, Master, Key,
      List, RunInv, StoreInv, PendingIsSigned, MastersKnown, KnownMaster, ProvisionInv,
      AfterMigrate, AfterFirst, ProvisionSteps, Behind, RevokeRunInv, Revoking,
      PairRunInv, ListInv, HeldIsBehind, Same, ListFollows, AheadInv, Fresh, Settled,
      UnmarkedIsPublished, IdentityNotOrphaned
<1> QED
  BY <1>2, <1>3, <1>4, <1>5, <1>6, <1>7 DEF BaseInv, DataTypes

\* Every step keeps BaseInv.
LEMMA BaseKeeps ==
    ASSUME BaseInv, [Next]_vars
    PROVE  BaseInv'
<1>1. CASE SigningStep
  BY <1>1, ProvisionMasterKeeps, ProvisionMigrateKeeps, ProvisionLegacyKeeps,
      ProvisionStaleKeeps, ProvisionFirstKeeps, PublishResignKeeps, RevokeKeeps,
      PairSignKeeps, JoinGrantedKeeps, OtherFirstKeeps, OtherListKeeps DEF SigningStep
<1>2. CASE Next /\ ~SigningStep
  BY <1>2, StoreTypesKeep, RunTypesKeep, CountTypesKeep, FlagTypesKeep, RunInvKeeps,
     ListInvKeeps DEF BaseInv, DataTypes
<1>3. CASE UNCHANGED vars
  BY <1>3 DEF vars, identity, lists, revokes, disk, server, memory, run, limits, bounds,
      history, BaseInv, DataTypes, StoreTypes, RunTypes, CountTypes, OwnKey, Master, Key,
      List, RunInv, StoreInv, PendingIsSigned, MastersKnown, KnownMaster, ProvisionInv,
      AfterMigrate, AfterFirst, ProvisionSteps, Behind, RevokeRunInv, Revoking,
      PairRunInv, Pcs, FlagTypes, ListInv, HeldIsBehind, Same, ListFollows, AheadInv,
      Fresh, Settled, UnmarkedIsPublished, IdentityNotOrphaned
<1> QED
  BY <1>1, <1>2, <1>3

\* The invariant of the unshared master, for the steps that sign nothing.
LEMMA ForeignKeeps ==
    ASSUME AloneInv, Shared \cap OwnKey = {}, Next
    PROVE  (ForeignInv /\ OwnInv)' \/ SigningStep
<1> USE IdentityConstants DEF identity, lists, revokes, disk, server, memory, run, limits,
    bounds, history, AloneInv, ForeignInv, OwnInv, OwnSrv, BaseInv, DataTypes, StoreTypes,
    RunTypes, CountTypes, OwnKey, Master, Key, List, RunInv, StoreInv, PendingIsSigned,
    MastersKnown, KnownMaster, ProvisionInv, AfterMigrate, AfterFirst, ProvisionSteps,
    Behind, RevokeRunInv, Revoking, PairRunInv, ListInv, HeldIsBehind, Same, ListFollows,
    AheadInv, Fresh, Settled, UnmarkedIsPublished, IdentityNotOrphaned
<1>1. CASE Connect
  BY <1>1 DEF Connect, Ended
<1>2. CASE ProvisionAccount
  BY <1>2 DEF ProvisionAccount, MakeAccount, Returns, Ended, Goto
<1>3. CASE ProvisionFetch
  BY <1>3 DEF ProvisionFetch
<1>4. CASE ProvisionCert
  BY <1>4 DEF ProvisionCert, Goto
<1>5. CASE ProvisionDevices
  BY <1>5 DEF ProvisionDevices, Goto, AfterRegister
<1>6. CASE ProvisionRegister
  BY <1>6 DEF ProvisionRegister, Goto, AfterRegister, ServerRegisters
<1>7. CASE ProvisionPut
  BY <1>7 DEF ProvisionPut, Goto, Accepts, ServerTakes, Returns, Ended
<1>8. CASE ProvisionClear
  BY <1>8 DEF ProvisionClear, Goto
<1>9. CASE ProvisionDone
  BY <1>9 DEF ProvisionDone, Returns, Ended
<1>10. CASE Open
  BY <1>10 DEF Open, Openable, Ended, End, Resumed
<1>11. CASE StopRouting
  BY <1>11 DEF StopRouting, Goto
<1>12. CASE Publish
  BY <1>12 DEF Publish, Accepts, Stale, ServerTakes, Goto, End, Ended
<1>13. CASE PublishRefetch
  BY <1>13 DEF PublishRefetch, End, Ended
<1>14. CASE PublishClear
  BY <1>14 DEF PublishClear, Goto
<1>15. CASE DropDevice
  BY <1>15 DEF DropDevice, End, Ended, ServerDrops, Goto
<1>16. CASE RevokeDone
  BY <1>16 DEF RevokeDone, End, Ended
<1>17. CASE ResetDelete
  BY <1>17 DEF ResetDelete, ServerDeletes, Goto
<1>18. CASE ResetDone
  BY <1>18 DEF ResetDone, FinishReset, SettleReset, End, Ended
<1>19. CASE PairPut
  BY <1>19 DEF PairPut, Accepts, ServerTakes, Goto, End, Ended
<1>20. CASE PairSave
  BY <1>20 DEF PairSave, Replaces, End, Ended
<1>21. CASE ApplyGrantList
  BY <1>21 DEF ApplyGrantList, Replaces, Goto
<1>22. CASE ApplyGrantCert
  BY <1>22 DEF ApplyGrantCert
<1>23. CASE SyncAdopt
  BY <1>23 DEF SyncAdopt, Replaces, End, Ended
<1>24. CASE ResetConfirmed
  BY <1>24 DEF ResetConfirmed, Command, Openable, Ended
<1>25. CASE Forget
  BY <1>25 DEF Forget, MayForget, FinishReset, SettleReset
<1>26. CASE JoinOpen
  BY <1>26 DEF JoinOpen, PairingEngine, MakeAccount
<1>27. CASE SyncFetch
  BY <1>27 DEF SyncFetch, SyncNewer
<1>28. CASE OtherReset
  BY <1>28 DEF OtherReset, Other, ServerDeletes
<1>29. CASE StepFails
  BY <1>29 DEF StepFails, Fault, Fails, Ended
<1>30. CASE AnswerLost
  BY <1>30 DEF AnswerLost, Fault, Fails, Ended, ServerRegisters, Accepts, ServerTakes,
      ServerDrops, ServerDeletes
<1>31. CASE Restart
  BY <1>31 DEF Restart, Fault, End, Ended
<1> QED
  BY <1>1, <1>2, <1>3, <1>4, <1>5, <1>6, <1>7, <1>8, <1>9, <1>10, <1>11, <1>12, <1>13,
      <1>14, <1>15, <1>16, <1>17, <1>18, <1>19, <1>20, <1>21, <1>22, <1>23, <1>24, <1>25,
      <1>26, <1>27, <1>28, <1>29, <1>30, <1>31 DEF Next, RunStep, UserStep, OtherStep,
      FaultStep, SigningStep

\* The revokes, for the steps that sign nothing.
LEMMA BansKeep ==
    ASSUME AloneInv, Shared \cap OwnKey = {}, Next
    PROVE  (BanInv /\ RevokeHolds)' \/ SigningStep
<1> USE IdentityConstants DEF identity, lists, revokes, disk, server, memory, run, limits,
    bounds, history, AloneInv, ForeignInv, OwnInv, OwnSrv, BanInv, RevokeHolds, BaseInv,
    DataTypes, StoreTypes, RunTypes, CountTypes, OwnKey, Master, Key, List, RunInv,
    StoreInv, PendingIsSigned, MastersKnown, KnownMaster, ProvisionInv, AfterMigrate,
    AfterFirst, ProvisionSteps, Behind, RevokeRunInv, Revoking, PairRunInv, ListInv,
    HeldIsBehind, Same, ListFollows, AheadInv, Fresh, Settled, UnmarkedIsPublished,
    IdentityNotOrphaned
<1>1. CASE Connect
  BY <1>1 DEF Connect, Ended
<1>2. CASE ProvisionAccount
  BY <1>2 DEF ProvisionAccount, MakeAccount, Returns, Ended, Goto
<1>3. CASE ProvisionFetch
  BY <1>3 DEF ProvisionFetch
<1>4. CASE ProvisionCert
  BY <1>4 DEF ProvisionCert, Goto
<1>5. CASE ProvisionDevices
  BY <1>5 DEF ProvisionDevices, Goto, AfterRegister
<1>6. CASE ProvisionRegister
  BY <1>6 DEF ProvisionRegister, Goto, AfterRegister, ServerRegisters
<1>7. CASE ProvisionPut
  BY <1>7 DEF ProvisionPut, Goto, Accepts, ServerTakes, Returns, Ended
<1>8. CASE ProvisionClear
  BY <1>8 DEF ProvisionClear, Goto
<1>9. CASE ProvisionDone
  BY <1>9 DEF ProvisionDone, Returns, Ended
<1>10. CASE Open
  BY <1>10 DEF Open, Openable, Ended, End, Resumed
<1>11. CASE StopRouting
  BY <1>11 DEF StopRouting, Goto
<1>12. CASE Publish
  BY <1>12 DEF Publish, Accepts, Stale, ServerTakes, Goto, End, Ended
<1>13. CASE PublishRefetch
  BY <1>13 DEF PublishRefetch, End, Ended
<1>14. CASE PublishClear
  BY <1>14 DEF PublishClear, Goto
<1>15. CASE DropDevice
  BY <1>15 DEF DropDevice, End, Ended, ServerDrops, Goto
<1>16. CASE RevokeDone
  BY <1>16 DEF RevokeDone, End, Ended
<1>17. CASE ResetDelete
  BY <1>17 DEF ResetDelete, ServerDeletes, Goto
<1>18. CASE ResetDone
  BY <1>18 DEF ResetDone, FinishReset, SettleReset, End, Ended
<1>19. CASE PairPut
  BY <1>19 DEF PairPut, Accepts, ServerTakes, Goto, End, Ended
<1>20. CASE PairSave
  BY <1>20 DEF PairSave, Replaces, End, Ended
<1>21. CASE ApplyGrantList
  BY <1>21 DEF ApplyGrantList, Replaces, Goto
<1>22. CASE ApplyGrantCert
  BY <1>22 DEF ApplyGrantCert
<1>23. CASE SyncAdopt
  BY <1>23 DEF SyncAdopt, Replaces, End, Ended
<1>24. CASE ResetConfirmed
  BY <1>24 DEF ResetConfirmed, Command, Openable, Ended
<1>25. CASE Forget
  BY <1>25 DEF Forget, MayForget, FinishReset, SettleReset
<1>26. CASE JoinOpen
  BY <1>26 DEF JoinOpen, PairingEngine, MakeAccount
<1>27. CASE SyncFetch
  BY <1>27 DEF SyncFetch, SyncNewer
<1>28. CASE OtherReset
  BY <1>28 DEF OtherReset, Other, ServerDeletes
<1>29. CASE StepFails
  BY <1>29 DEF StepFails, Fault, Fails, Ended
<1>30. CASE AnswerLost
  BY <1>30 DEF AnswerLost, Fault, Fails, Ended, ServerRegisters, Accepts, ServerTakes,
      ServerDrops, ServerDeletes
<1>31. CASE Restart
  BY <1>31 DEF Restart, Fault, End, Ended
<1> QED
  BY <1>1, <1>2, <1>3, <1>4, <1>5, <1>6, <1>7, <1>8, <1>9, <1>10, <1>11, <1>12, <1>13,
      <1>14, <1>15, <1>16, <1>17, <1>18, <1>19, <1>20, <1>21, <1>22, <1>23, <1>24, <1>25,
      <1>26, <1>27, <1>28, <1>29, <1>30, <1>31 DEF Next, RunStep, UserStep, OtherStep,
      FaultStep, SigningStep

\* The signing steps for the unshared master, one by one.
LEMMA ProvisionMasterAlone ==
    ASSUME AloneInv, Shared \cap OwnKey = {}, ProvisionMaster
    PROVE  (ForeignInv /\ OwnInv /\ BanInv /\ RevokeHolds)'
<1> QED
  BY IdentityConstants DEF identity, lists, revokes, disk, server, memory, run, limits,
      bounds, history, AloneInv, ForeignInv, OwnInv, OwnSrv, BanInv, RevokeHolds, BaseInv,
      DataTypes, StoreTypes, RunTypes, CountTypes, OwnKey, Master, Key, List, RunInv,
      StoreInv, PendingIsSigned, MastersKnown, KnownMaster, ProvisionInv, AfterMigrate,
      AfterFirst, ProvisionSteps, Behind, RevokeRunInv, Revoking, PairRunInv, ListInv,
      HeldIsBehind, Same, ListFollows, AheadInv, Fresh, Settled, UnmarkedIsPublished,
      IdentityNotOrphaned, ProvisionMaster, Goto, Recovery, Returns, Ended, Paired

\* AloneInv: the migration to the current key order.
LEMMA ProvisionMigrateAlone ==
    ASSUME AloneInv, Shared \cap OwnKey = {}, ProvisionMigrate
    PROVE  (ForeignInv /\ OwnInv /\ BanInv /\ RevokeHolds)'
<1>1. \/ UNCHANGED lists /\ (migrated \/ list = None \/ master = None) /\ Goto("legacy")
      \/ UNCHANGED lists /\ Returns
      \/ /\ list # None /\ master # None /\ list.master = master /\ migrated'
         /\ IsSigned(list', list.master, list.version, list.keys)
         /\ listPending => listPending'
         /\ Goto("legacy")
  BY MigrateStep DEF BaseInv, AloneInv
<1> QED
  BY IdentityConstants, <1>1 DEF identity, lists, revokes, disk, server, memory, run,
      limits, bounds, history, AloneInv, ForeignInv, OwnInv, OwnSrv, BanInv, RevokeHolds,
      BaseInv, DataTypes, StoreTypes, RunTypes, CountTypes, OwnKey, Master, Key, List,
      RunInv, StoreInv, PendingIsSigned, MastersKnown, KnownMaster, ProvisionInv,
      AfterMigrate, AfterFirst, ProvisionSteps, Behind, RevokeRunInv, Revoking,
      PairRunInv, ListInv, HeldIsBehind, Same, ListFollows, AheadInv, Fresh, Settled,
      UnmarkedIsPublished, IdentityNotOrphaned, ProvisionMigrate, IsSigned, Goto, Returns,
      Ended

\* AloneInv: a server list of the old order is signed again.
LEMMA ProvisionLegacyAlone ==
    ASSUME AloneInv, Shared \cap OwnKey = {}, ProvisionLegacy
    PROVE  (ForeignInv /\ OwnInv /\ BanInv /\ RevokeHolds)'
<1>1. \/ /\ UNCHANGED <<list, listPending>>
         /\ ~(held # None /\ master # None /\ Behind /\ held.legacy)
      \/ /\ held # None /\ master # None /\ Behind /\ listPending'
         /\ IsSigned(list', master, held.version + 1, KeysAbove(held.keys))
  BY LegacyStep DEF BaseInv, AloneInv
<1> QED
  BY IdentityConstants, <1>1 DEF identity, lists, revokes, disk, server, memory, run,
      limits, bounds, history, AloneInv, ForeignInv, OwnInv, OwnSrv, BanInv, RevokeHolds,
      BaseInv, DataTypes, StoreTypes, RunTypes, CountTypes, OwnKey, Master, Key, List,
      RunInv, StoreInv, PendingIsSigned, MastersKnown, KnownMaster, ProvisionInv,
      AfterMigrate, AfterFirst, ProvisionSteps, Behind, RevokeRunInv, Revoking,
      PairRunInv, ListInv, HeldIsBehind, Same, ListFollows, AheadInv, Fresh, Settled,
      UnmarkedIsPublished, IdentityNotOrphaned, ProvisionLegacy, IsSigned, KeysAbove, Goto

\* AloneInv: a waiting list that is not above the server's is signed again.
LEMMA ProvisionStaleAlone ==
    ASSUME AloneInv, Shared \cap OwnKey = {}, ProvisionStale
    PROVE  (ForeignInv /\ OwnInv /\ BanInv /\ RevokeHolds)'
<1>1. \/ /\ UNCHANGED <<list, listPending>>
         /\ ~(held # None /\ list # None /\ listPending /\ list.version <= held.version)
      \/ /\ held # None /\ list # None /\ listPending /\ list.version <= held.version
         /\ \/ list' = held /\ ~listPending' /\ held.keys \cap ownRevoked = {}
            \/ /\ listPending'
               /\ IsSigned(list', master, held.version + 1, KeysAbove(held.keys))
  BY StaleStep DEF BaseInv, AloneInv
<1> QED
  BY IdentityConstants, <1>1 DEF identity, lists, revokes, disk, server, memory, run,
      limits, bounds, history, AloneInv, ForeignInv, OwnInv, OwnSrv, BanInv, RevokeHolds,
      BaseInv, DataTypes, StoreTypes, RunTypes, CountTypes, OwnKey, Master, Key, List,
      RunInv, StoreInv, PendingIsSigned, MastersKnown, KnownMaster, ProvisionInv,
      AfterMigrate, AfterFirst, ProvisionSteps, Behind, RevokeRunInv, Revoking,
      PairRunInv, ListInv, HeldIsBehind, Same, ListFollows, AheadInv, Fresh, Settled,
      UnmarkedIsPublished, IdentityNotOrphaned, ProvisionStale, IsSigned, KeysAbove, Goto

\* AloneInv: a store without a list gets one.
LEMMA ProvisionFirstAlone ==
    ASSUME AloneInv, Shared \cap OwnKey = {}, ProvisionFirst
    PROVE  (ForeignInv /\ OwnInv /\ BanInv /\ RevokeHolds)'
<1>1. \/ list # None /\ UNCHANGED <<list, listPending>>
      \/ list = None /\ held # None /\ list' = held /\ UNCHANGED listPending
      \/ /\ list = None /\ held # None /\ master # None /\ listPending'
         /\ IsSigned(list', master, held.version + 1, held.keys \cup {account})
      \/ /\ list = None /\ held = None /\ master # None /\ listPending'
         /\ IsSigned(list', master, 1, {account})
  BY FirstStep DEF BaseInv, AloneInv
<1> QED
  BY IdentityConstants, <1>1 DEF identity, lists, revokes, disk, server, memory, run,
      limits, bounds, history, AloneInv, ForeignInv, OwnInv, OwnSrv, BanInv, RevokeHolds,
      BaseInv, DataTypes, StoreTypes, RunTypes, CountTypes, OwnKey, Master, Key, List,
      RunInv, StoreInv, PendingIsSigned, MastersKnown, KnownMaster, ProvisionInv,
      AfterMigrate, AfterFirst, ProvisionSteps, Behind, RevokeRunInv, Revoking,
      PairRunInv, ListInv, HeldIsBehind, Same, ListFollows, AheadInv, Fresh, Settled,
      UnmarkedIsPublished, IdentityNotOrphaned, ProvisionFirst, IsSigned, Goto

\* AloneInv: the retry of a stale put.
LEMMA PublishResignAlone ==
    ASSUME AloneInv, Shared \cap OwnKey = {}, PublishResign
    PROVE  (ForeignInv /\ OwnInv /\ BanInv /\ RevokeHolds)'
<1>1. \/ End /\ UNCHANGED lists
      \/ /\ held.master = master /\ ~held.legacy /\ held.keys \cap ownRevoked = {}
         /\ held.version >= list.version
         /\ list' = held /\ Goto("published") /\ UNCHANGED <<listPending, migrated>>
      \/ /\ listPending' /\ list'.version > held.version /\ list'.version > list.version
         /\ IsSigned(list', master, list'.version, Unrevoked(held.keys))
         /\ \/ End
            \/ pc' = "publish" /\ tries' = 1 /\ UNCHANGED <<held, joining>>
         /\ UNCHANGED migrated
  BY ResignStep DEF BaseInv, AloneInv
<1> USE IdentityConstants DEF identity, lists, revokes, disk, server, memory, run, limits,
    bounds, history, AloneInv, ForeignInv, OwnInv, OwnSrv, BanInv, RevokeHolds, BaseInv,
    DataTypes, StoreTypes, RunTypes, CountTypes, OwnKey, Master, Key, List, RunInv,
    StoreInv, PendingIsSigned, MastersKnown, KnownMaster, ProvisionInv, AfterMigrate,
    AfterFirst, ProvisionSteps, Behind, RevokeRunInv, Revoking, PairRunInv, ListInv,
    HeldIsBehind, Same, ListFollows, AheadInv, Fresh, Settled, UnmarkedIsPublished,
    IdentityNotOrphaned, PublishResign, IsSigned, Unrevoked, Goto, End, Ended
<1>2. CASE End /\ UNCHANGED lists
  BY <1>2
<1>3. CASE list' = held /\ Goto("published")
  BY <1>1, <1>3
<1>4. CASE listPending' /\ IsSigned(list', master, list'.version, Unrevoked(held.keys))
  BY <1>1, <1>4
<1> QED
  BY <1>1, <1>2, <1>3, <1>4

\* AloneInv: the shorter list and its mark in one write.
LEMMA RevokeAlone ==
    ASSUME AloneInv, Shared \cap OwnKey = {}, NEW k \in Sibling, Revoke(k)
    PROVE  (ForeignInv /\ OwnInv /\ BanInv /\ RevokeHolds)'
<1>1. \/ revoking = k /\ UNCHANGED <<list, listPending, revoking, ownRevoked, banned>>
      \/ /\ revoking = None /\ master # None /\ list # None
         /\ revoking' = k /\ ownRevoked' = ownRevoked \cup {k} /\ banned' = banned \cup {k}
         /\ listPending'
         /\ IsSigned(list', master, list.version + 1, list.keys \ {k})
  BY RevokeStep DEF BaseInv, AloneInv
<1> QED
  BY IdentityConstants, <1>1 DEF identity, lists, revokes, disk, server, memory, run,
      limits, bounds, history, AloneInv, ForeignInv, OwnInv, OwnSrv, BanInv, RevokeHolds,
      BaseInv, DataTypes, StoreTypes, RunTypes, CountTypes, OwnKey, Master, Key, List,
      RunInv, StoreInv, PendingIsSigned, MastersKnown, KnownMaster, ProvisionInv,
      AfterMigrate, AfterFirst, ProvisionSteps, Behind, RevokeRunInv, Revoking,
      PairRunInv, ListInv, HeldIsBehind, Same, ListFollows, AheadInv, Fresh, Settled,
      UnmarkedIsPublished, IdentityNotOrphaned, Revoke, IsSigned, Command, Ended,
      Openable, Opens

\* AloneInv: the holder signs a grant.
LEMMA PairSignAlone ==
    ASSUME AloneInv, Shared \cap OwnKey = {}, NEW k \in Sibling, PairSign(k)
    PROVE  (ForeignInv /\ OwnInv /\ BanInv /\ RevokeHolds)'
<1>1. /\ list # None /\ list \in List
      /\ IsSigned(held', list.master, list.version + 1, list.keys \cup {k})
  BY GrantFits DEF PairSign, BaseInv, DataTypes, StoreTypes, Key, AloneInv
<1> QED
  BY IdentityConstants, <1>1 DEF identity, lists, revokes, disk, server, memory, run,
      limits, bounds, history, AloneInv, ForeignInv, OwnInv, OwnSrv, BanInv, RevokeHolds,
      BaseInv, DataTypes, StoreTypes, RunTypes, CountTypes, OwnKey, Master, Key, List,
      RunInv, StoreInv, PendingIsSigned, MastersKnown, KnownMaster, ProvisionInv,
      AfterMigrate, AfterFirst, ProvisionSteps, Behind, RevokeRunInv, Revoking,
      PairRunInv, ListInv, HeldIsBehind, Same, ListFollows, AheadInv, Fresh, Settled,
      UnmarkedIsPublished, IdentityNotOrphaned, PairSign, IsSigned, Command, Openable,
      Opens

\* AloneInv: another holder grants this device.
LEMMA JoinGrantedAlone ==
    ASSUME AloneInv, Shared \cap OwnKey = {}, JoinGranted
    PROVE  (ForeignInv /\ OwnInv /\ BanInv /\ RevokeHolds)'
<1>1. IsSigned(srvList', srvList.master, srvList.version + 1, srvList.keys \cup {account})
  BY GrantFits DEF JoinGranted, ServerTakes, BaseInv, DataTypes, StoreTypes, RunTypes,
      Key, AloneInv
<1> QED
  BY IdentityConstants, <1>1 DEF identity, lists, revokes, disk, server, memory, run,
      limits, bounds, history, AloneInv, ForeignInv, OwnInv, OwnSrv, BanInv, RevokeHolds,
      BaseInv, DataTypes, StoreTypes, RunTypes, CountTypes, OwnKey, Master, Key, List,
      RunInv, StoreInv, PendingIsSigned, MastersKnown, KnownMaster, ProvisionInv,
      AfterMigrate, AfterFirst, ProvisionSteps, Behind, RevokeRunInv, Revoking,
      PairRunInv, ListInv, HeldIsBehind, Same, ListFollows, AheadInv, Fresh, Settled,
      UnmarkedIsPublished, IdentityNotOrphaned, JoinGranted, IsSigned, ServerTakes

\* AloneInv: another device makes a new identity.
LEMMA OtherFirstAlone ==
    ASSUME AloneInv, Shared \cap OwnKey = {}, NEW m \in OtherMaster, OtherFirst(m)
    PROVE  (ForeignInv /\ OwnInv /\ BanInv /\ RevokeHolds)'
<1>1. IsSigned(srvList', m, 1, Sibling)
  BY HeldFits DEF OtherFirst, ServerTakes, AloneInv
<1> QED
  BY IdentityConstants, <1>1 DEF identity, lists, revokes, disk, server, memory, run,
      limits, bounds, history, AloneInv, ForeignInv, OwnInv, OwnSrv, BanInv, RevokeHolds,
      BaseInv, DataTypes, StoreTypes, RunTypes, CountTypes, OwnKey, Master, Key, List,
      RunInv, StoreInv, PendingIsSigned, MastersKnown, KnownMaster, ProvisionInv,
      AfterMigrate, AfterFirst, ProvisionSteps, Behind, RevokeRunInv, Revoking,
      PairRunInv, ListInv, HeldIsBehind, Same, ListFollows, AheadInv, Fresh, Settled,
      UnmarkedIsPublished, IdentityNotOrphaned, OtherFirst, IsSigned, Other, ServerTakes

\* AloneInv: another device that has the master signs a list.
LEMMA OtherListAlone ==
    ASSUME AloneInv, Shared \cap OwnKey = {},
           NEW ks \in SUBSET (Sibling \cup ({account} \ {None})), OtherList(ks)
    PROVE  (ForeignInv /\ OwnInv /\ BanInv /\ RevokeHolds)'
<1>1. IsSigned(srvList', srvList.master, srvList.version + 1, ks)
  BY OtherListFits DEF OtherList, ServerTakes, BaseInv, AloneInv
<1> QED
  BY IdentityConstants, <1>1 DEF identity, lists, revokes, disk, server, memory, run,
      limits, bounds, history, AloneInv, ForeignInv, OwnInv, OwnSrv, BanInv, RevokeHolds,
      BaseInv, DataTypes, StoreTypes, RunTypes, CountTypes, OwnKey, Master, Key, List,
      RunInv, StoreInv, PendingIsSigned, MastersKnown, KnownMaster, ProvisionInv,
      AfterMigrate, AfterFirst, ProvisionSteps, Behind, RevokeRunInv, Revoking,
      PairRunInv, ListInv, HeldIsBehind, Same, ListFollows, AheadInv, Fresh, Settled,
      UnmarkedIsPublished, IdentityNotOrphaned, OtherList, IsSigned, Other, ServerTakes

\* Every step keeps AloneInv when the own master is not shared.
LEMMA AloneKeeps ==
    ASSUME AloneInv, Shared \cap OwnKey = {}, [Next]_vars
    PROVE  AloneInv'
<1>1. BaseInv'
  BY BaseKeeps DEF AloneInv
<1>2. (ForeignInv /\ OwnInv /\ BanInv /\ RevokeHolds)'
  <2>1. CASE SigningStep
    BY <2>1, ProvisionMasterAlone, ProvisionMigrateAlone, ProvisionLegacyAlone,
        ProvisionStaleAlone, ProvisionFirstAlone, PublishResignAlone, RevokeAlone,
        PairSignAlone, JoinGrantedAlone, OtherFirstAlone, OtherListAlone DEF SigningStep
  <2>2. CASE Next /\ ~SigningStep
    BY <2>2, ForeignKeeps, BansKeep
  <2>3. CASE UNCHANGED vars
    BY <2>3 DEF vars, identity, lists, revokes, disk, server, memory, run, limits, bounds,
        history, AloneInv, ForeignInv, OwnInv, OwnSrv, BanInv, RevokeHolds, Same
  <2> QED
    BY <2>1, <2>2, <2>3
<1> QED
  BY <1>1, <1>2 DEF AloneInv

\* A list of the other key order keeps the rest of its fields.
LEMMA ReorderFits ==
    ASSUME NEW l \in List, NEW b \in BOOLEAN
    PROVE  LET r == [l EXCEPT !.legacy = b] IN
           /\ r \in List /\ r # None /\ r.master = l.master /\ r.version = l.version
           /\ r.keys = l.keys
<1> DEFINE r == [l EXCEPT !.legacy = b]
<1>1. r \in List
  BY DEF List
<1>2. r # None
  BY <1>1, IdentityConstants
<1>3. r.master = l.master /\ r.version = l.version /\ r.keys = l.keys
  BY DEF List
<1> QED
  BY <1>1, <1>2, <1>3

\* What the five situations have in common in which the program starts.
StartFits ==
    /\ account \in {None, 1} /\ master \in {None, 1} /\ cert \in {None, 1} \cup spent
    /\ srvList # None => srvList \in List /\ srvList.master \in {1} \cup spent
    /\ (srvList # None /\ srvList.master = 1) => master = 1
    /\ spent \subseteq OtherMaster /\ made \in {0, 1} /\ srvDevices \subseteq Key
    /\ list # None => /\ srvList # None /\ list \in List
                      /\ list.master = srvList.master /\ list.version = srvList.version
                      /\ list.keys = srvList.keys
    /\ master # None => account = 1
    /\ account # None => made = 1
    /\ cert # None => list # None
    /\ migrated \in BOOLEAN
    /\ migrated => master # None /\ list # None /\ list.master = master /\ ~list.legacy

\* Each of the five situations fits.
LEMMA StartsFit ==
    ASSUME NEW s \in Starts, ServerAt(s), StoreAt(s)
    PROVE  StartFits
<1> USE IdentityConstants DEF OwnKey, Master, Key
<1>0. None # 1 /\ \A m \in OtherMaster : m # 1 /\ m # None
  OBVIOUS
<1>1. CASE s = "fresh"
  BY <1>1, <1>0 DEF ServerAt, StoreAt, StartFits
<1>2. CASE s = "beside"
  <2>1. PICK ks \in SUBSET Sibling, m \in OtherMaster :
            srvList = Held(m, ks) /\ spent = {m} /\ srvDevices = ks
    BY <1>2 DEF ServerAt
  <2>0. m \in Master /\ 1 \in Nat \ {0} /\ ks \in SUBSET Key
    OBVIOUS
  <2>2. IsSigned(srvList, m, 1, ks)
    <3> HIDE DEF Master, Key
    <3> QED
      BY <2>1, <2>0, SignListFits DEF Held
  <2> QED
    BY <1>2, <1>0, <2>1, <2>2 DEF StoreAt, StartFits, IsSigned
<1>3. CASE s = "upgrade"
  <2>1. PICK ks \in SUBSET Sibling, old \in BOOLEAN :
            /\ srvList = [Held(1, ks \cup {1}) EXCEPT !.legacy = old]
            /\ srvDevices = ks /\ spent = {}
    BY <1>3 DEF ServerAt
  <2>2. IsSigned(Held(1, ks \cup {1}), 1, 1, ks \cup {1})
    BY SignListFits DEF Held
  <2>3. srvList \in List /\ srvList # None /\ srvList.master = 1
    BY <2>1, <2>2, ReorderFits DEF IsSigned
  <2>4. LET r == [srvList EXCEPT !.legacy = TRUE] IN
        /\ r \in List /\ r # None /\ r.master = srvList.master /\ r.version = srvList.version
        /\ r.keys = srvList.keys
    BY <2>3, ReorderFits
  <2> QED
    BY <1>3, <1>0, <2>1, <2>3, <2>4 DEF StoreAt, StartFits
<1>4. CASE s = "holder"
  <2>1. PICK ks \in SUBSET Sibling :
            srvList = Held(1, ks \cup {1}) /\ srvDevices = ks \cup {1} /\ spent = {}
    BY <1>4 DEF ServerAt
  <2>2. IsSigned(srvList, 1, 1, ks \cup {1})
    BY <2>1, SignListFits DEF Held
  <2> QED
    BY <1>4, <1>0, <2>1, <2>2 DEF StoreAt, StartFits, IsSigned
<1>5. CASE s = "joined"
  <2>1. PICK ks \in SUBSET Sibling, m \in OtherMaster :
            srvList = Held(m, ks \cup {1}) /\ spent = {m} /\ srvDevices = ks \cup {1}
    BY <1>5 DEF ServerAt
  <2>0. m \in Master /\ 1 \in Nat \ {0} /\ ks \cup {1} \in SUBSET Key
    OBVIOUS
  <2>2. IsSigned(srvList, m, 1, ks \cup {1})
    <3> HIDE DEF Master, Key
    <3> QED
      BY <2>1, <2>0, SignListFits DEF Held
  <2>3. /\ srvList \in List /\ srvList # None /\ srvList.master = m /\ spent = {m}
        /\ m # 1 /\ m # None /\ m \in OtherMaster /\ srvDevices \subseteq Key
    BY <1>0, <2>1, <2>2 DEF IsSigned
  <2>4. /\ account = 1 /\ master = None /\ list = srvList /\ cert = m
        /\ migrated = FALSE /\ made = 1
    BY <1>5, <2>3 DEF StoreAt
  <2> QED
    BY <1>0, <2>3, <2>4 DEF StartFits
<1> QED
  BY <1>1, <1>2, <1>3, <1>4, <1>5

\* The invariant holds when the program starts.
LEMMA InitAlone ==
    ASSUME Init
    PROVE  AloneInv
<1>1. StartFits
  BY StartsFit DEF Init
<1> USE IdentityConstants, <1>1 DEF StartFits, Init, OwnKey, Master, Key
<1>2. None # 1 /\ (\A m \in OtherMaster : m # 1) /\ 1 \in OwnKey
  OBVIOUS
<1>3. FlagTypes
  BY DEF FlagTypes
<1>4. DataTypes
  BY <1>2 DEF DataTypes, StoreTypes, RunTypes, CountTypes, Pcs
<1>5. RunInv
  BY <1>2 DEF RunInv, StoreInv, PendingIsSigned, MastersKnown, KnownMaster, ProvisionInv,
     ProvisionSteps, AfterMigrate, AfterFirst, RevokeRunInv, Revoking, PairRunInv
<1>6. ListInv
  BY <1>2, ListFields DEF ListInv, HeldIsBehind, Same, ListFollows, AheadInv, Fresh, Settled,
     UnmarkedIsPublished, IdentityNotOrphaned
<1>7. ForeignInv /\ OwnInv /\ BanInv /\ RevokeHolds
  BY <1>2, ListFields DEF ForeignInv, Same, OwnInv, OwnSrv, BanInv, Revoking, RevokeHolds
<1> QED
  BY <1>3, <1>4, <1>5, <1>6, <1>7 DEF AloneInv, BaseInv


\* The steps that write the stored list.
ListStep ==
    \/ ProvisionMigrate \/ ProvisionLegacy \/ ProvisionStale \/ ProvisionFirst \/ PublishResign
    \/ ResetDone \/ Forget \/ PairSave \/ ApplyGrantList \/ SyncAdopt
    \/ \E k \in Sibling : Revoke(k)

\* No other step writes the stored list.
LEMMA OnlyListSteps ==
    ASSUME [Next]_vars, ~ListStep
    PROVE  list' = list
<1> USE DEF ListStep, vars, disk, lists, identity, revokes
<1>1. CASE RunStep
  BY <1>1 DEF RunStep, ProvisionAccount, ProvisionFetch, ProvisionMaster, ProvisionCert,
     ProvisionDevices, ProvisionRegister, ProvisionPut, ProvisionClear, ProvisionDone, Open,
     StopRouting, Publish, PublishRefetch, PublishClear, DropDevice, RevokeDone, ResetDelete,
     PairPut, ApplyGrantCert
<1>2. CASE UserStep
  BY <1>2 DEF UserStep, PairSign, ResetConfirmed, JoinOpen
<1>3. CASE OtherStep
  BY <1>3 DEF OtherStep, JoinGranted, OtherReset, OtherList, OtherFirst
<1>4. CASE FaultStep
  BY <1>4 DEF FaultStep, StepFails, AnswerLost, Restart
<1> QED
  BY <1>1, <1>2, <1>3, <1>4 DEF Next, Connect, SyncFetch

\* No step takes the stored list back to an older version: each of the steps
\* that write it stores a list above it or removes it.
LEMMA ListIsKept ==
    ASSUME AloneInv, [Next]_vars
    PROVE  KeepsOwnList
<1>1. SUFFICES ASSUME ListStep, list # None, list' # None, list'.master = list.master
               PROVE  list'.version >= list.version
  <2>1. list # None => list.version >= list.version
    BY ListFields DEF AloneInv, BaseInv, DataTypes, StoreTypes
  <2> QED
    BY <2>1, OnlyListSteps DEF KeepsOwnList
<1>2. list \in List /\ DataTypes /\ RunInv /\ ListInv
  BY <1>1 DEF AloneInv, BaseInv, DataTypes, StoreTypes
<1>3. list.version \in Nat /\ (held # None => held.version \in Nat)
  BY <1>2, ListFields DEF DataTypes, RunTypes
<1>4. CASE ProvisionMigrate
  BY <1>1, <1>2, <1>3, <1>4, MigrateStep DEF lists, IsSigned
<1>5. CASE ProvisionLegacy
  BY <1>1, <1>2, <1>3, <1>5, LegacyStep DEF IsSigned, Behind
<1>6. CASE ProvisionStale
  BY <1>1, <1>2, <1>3, <1>6, StaleStep DEF IsSigned
<1>7. CASE ProvisionFirst
  BY <1>1, <1>2, <1>3, <1>7, FirstStep
<1>8. CASE PublishResign
  <2>1. \/ list' = list
        \/ list' = held /\ held.version >= list.version
        \/ list' \in List /\ list'.version > list.version
    BY <1>2, <1>8, ResignStep DEF lists, IsSigned
  <2> QED
    BY <1>3, <2>1, ListFields
<1>9. CASE ResetDone \/ Forget
  BY <1>1, <1>9 DEF ResetDone, Forget, FinishReset
<1>10. CASE PairSave
  BY <1>1, <1>2, <1>3, <1>10 DEF PairSave, Replaces, RunInv, PairRunInv
<1>11. CASE ApplyGrantList
  BY <1>1, <1>2, <1>3, <1>11 DEF ApplyGrantList, Replaces, AloneInv, ForeignInv
<1>12. CASE SyncAdopt
  BY <1>1, <1>2, <1>3, <1>12 DEF SyncAdopt, Replaces, RunInv, PairRunInv
<1>13. CASE \E k \in Sibling : Revoke(k)
  BY <1>1, <1>2, <1>3, <1>13, RevokeStep DEF IsSigned
<1> QED
  BY <1>1, <1>4, <1>5, <1>6, <1>7, <1>8, <1>9, <1>10, <1>11, <1>12, <1>13 DEF ListStep

\* While a put is due, the own steps change the server's list only by that put
\* or by removing it.
LEMMA OnlyPuts ==
    ASSUME BaseInv, [Next]_vars, pc \in {"put", "publish"}, other' = other
    PROVE  \/ srvList' \in {srvList, None}
           \/ Accepts(list) /\ srvList' = list
<1> USE DEF vars, server
<1>1. CASE RunStep
  BY <1>1 DEF RunStep, ProvisionAccount, ProvisionFetch, ProvisionMaster, ProvisionMigrate,
     ProvisionLegacy, ProvisionStale, ProvisionFirst, ProvisionCert, ProvisionDevices,
     ProvisionRegister, ProvisionPut, ProvisionClear, ProvisionDone, Open, StopRouting,
     Publish, PublishRefetch, PublishResign, PublishClear, DropDevice, RevokeDone,
     ResetDelete, ResetDone, PairPut, PairSave, ApplyGrantList, ApplyGrantCert, SyncAdopt,
     ServerTakes
<1>2. CASE UserStep
  BY <1>2 DEF UserStep, Revoke, PairSign, ResetConfirmed, Forget, JoinOpen
<1>3. CASE OtherStep
  <2>1. other \in Nat
    BY DEF BaseInv, DataTypes, CountTypes
  <2> QED
    BY <1>3, <2>1 DEF OtherStep, JoinGranted, OtherReset, OtherList, OtherFirst, Other
<1>4. CASE FaultStep
  BY <1>4 DEF FaultStep, StepFails, AnswerLost, Restart, ServerTakes, ServerDrops,
     ServerRegisters, ServerDeletes
<1> QED
  BY <1>1, <1>2, <1>3, <1>4 DEF Next, Connect, SyncFetch

\* A put brings no revoked key to the server (AheadInv).
LEMMA NoRevokedKeyIsPut ==
    ASSUME BaseInv, [Next]_vars
    PROVE  PutsNoRevoked
<1>1. SUFFICES ASSUME pc \in {"put", "publish"}, other' = other, srvList # None,
                      srvList' # None, srvList' # srvList
               PROVE  (srvList'.keys \ srvList.keys) \cap ownRevoked = {}
  BY DEF PutsNoRevoked
<1>2. srvList' = list /\ list # None /\ Same(list) /\ list.version > srvList.version
  BY <1>1, OnlyPuts DEF Accepts, Same
<1> QED
  BY <1>2 DEF BaseInv, ListInv, AheadInv, Fresh

-----------------------------------------------------------------------------
(***************************************************************************)
(* The theorems.                                                           *)
(***************************************************************************)

\* BaseInv holds in every reachable state.
LEMMA BaseInvInvariant == Spec => []BaseInv
<1>1. Init => BaseInv
  BY InitAlone DEF AloneInv
<1>2. BaseInv /\ [Next]_vars => BaseInv'
  BY BaseKeeps
<1> QED
  BY <1>1, <1>2, PTL DEF Spec

\* Whatever fails, stops or changes on the server, and whoever shares a
\* master: the types hold, a list that waits for publication is signed by the
\* own master (ProvisionStale's errors are not reached), an unmarked list is
\* not ahead of the server (begin_revoke, provision_device, sync_own_list) and
\* a reset orphans no identity (reset_identity).
THEOREM IdentityStaysSound == Spec => []IdentitySound
<1>1. BaseInv => IdentitySound
  BY DEF BaseInv, DataTypes, StoreTypes, RunTypes, CountTypes, FlagTypes, RunInv, ListInv,
     IdentitySound, TypeOK
<1> QED
  BY <1>1, BaseInvInvariant, PTL

\* A put of provision_device or publish_list never brings a revoked key back
\* to the server, also when copies of the master sign lists that name it.
THEOREM NoRevokedKeyReturns == Spec => [][PutsNoRevoked]_vars
<1>1. BaseInv /\ [Next]_vars => [PutsNoRevoked]_vars
  BY NoRevokedKeyIsPut
<1> QED
  BY <1>1, BaseInvInvariant, PTL DEF Spec

\* AloneInv holds in every reachable state when the own master is not shared.
LEMMA AloneInvInvariant ==
    ASSUME Shared \cap OwnKey = {}
    PROVE  Spec => []AloneInv
<1>1. Init => AloneInv
  BY InitAlone
<1>2. AloneInv /\ [Next]_vars => AloneInv'
  BY AloneKeeps
<1> QED
  BY <1>1, <1>2, PTL DEF Spec

\* A revoke of e2e_revoke.rs holds against lost calls, failed writes, restarts
\* and retries: the key leaves the stored list at once and, when the revoke is
\* over, the server's list and the trust record agree.  The own master is not
\* shared.
THEOREM RevokesAreKept ==
    ASSUME Shared \cap OwnKey = {}
    PROVE  Spec => []RevokeHolds
<1>1. AloneInv => RevokeHolds
  BY DEF AloneInv
<1> QED
  BY <1>1, AloneInvInvariant, PTL

\* Under one master the stored list never goes back to an older version, and
\* no own put brings a revoked key back (apply_grant, publish_list,
\* sync_own_list).  The own master is not shared.
THEOREM ListsAreKept ==
    ASSUME Shared \cap OwnKey = {}
    PROVE  Spec => ListsNeverUndone
<1>1. AloneInv /\ [Next]_vars => [KeepsOwnList /\ PutsNoRevoked]_vars
  BY ListIsKept, NoRevokedKeyIsPut DEF AloneInv
<1> QED
  BY <1>1, AloneInvInvariant, PTL DEF Spec, ListsNeverUndone

=============================================================================
