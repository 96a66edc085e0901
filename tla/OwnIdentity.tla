----------------------------- MODULE OwnIdentity -----------------------------
(***************************************************************************)
(* The own E2E identity of one device on one network: how it is made,      *)
(* published, shrunk by a revoke, shared by a pairing and removed by a     *)
(* reset (e2e_provision.rs, e2e_revoke.rs, the grant of                    *)
(* e2e_pairing_flow.rs, sync_own_list of e2e_engine.rs), and the calls of  *)
(* the runtime that start those runs (e2e_runtime.rs).                     *)
(*                                                                         *)
(* A run is a chain of store writes and server calls.  The worker runs one *)
(* at a time, and pc is where it stands.  Between two links the server     *)
(* changes under it (the other devices of the account), a request or its   *)
(* answer is lost, a write fails, or the program stops and starts again.   *)
(***************************************************************************)
EXTENDS Integers, FiniteSets

CONSTANTS
    Sibling,       \* device keys of the other devices of the account
    OtherMaster,   \* master keys that another device of the account makes
    Shared,        \* the masters that another device signs lists with
    MaxDevices,    \* MAX_ENROLLED_DEVICES
    Starts,        \* the situations in which the program may first start
    MaxFaults,     \* bound: lost calls, failed writes and restarts
    MaxUser,       \* bound: commands of the user
    MaxOther,      \* bound: changes made by the other devices
    None

\* The keys that this device makes are numbered: Account::new() never gives
\* the same key twice.
OwnKey == Nat \ {0}
Key == OwnKey \cup Sibling
Master == OwnKey \cup OtherMaster

\* A signed list.  Its master stands for the signature, and legacy says that
\* the signature verifies only over the old order of the keys.
List == [master : Master, version : Nat \ {0}, keys : SUBSET Key, legacy : BOOLEAN]

ASSUME IdentityConstants ==
    /\ Sibling \cap Int = {}
    /\ OtherMaster \cap Int = {}
    /\ Shared \subseteq Master
    /\ None \notin Key \cup Master \cup Sibling \cup List
    /\ MaxDevices \in Nat /\ MaxFaults \in Nat /\ MaxUser \in Nat /\ MaxOther \in Nat
    /\ Starts \subseteq {"fresh", "beside", "upgrade", "holder", "joined"}

VARIABLES
    \* The sealed store.
    account,       \* the device key, or None
    master,        \* the master key, or None
    list,          \* the own signed list, or None
    listPending,   \* the list waits for publication
    migrated,      \* the key order migration is done
    cert,          \* the master that signed the certificate of this device
    revoking,      \* the device of the pending revoke, or None
    ownRevoked,    \* the device keys that this device revoked
    trustRevoked,  \* the revocations in the trust record of the own nick
    resetPending,
    \* The server.
    srvList,       \* the list it holds, or None
    srvDevices,    \* the devices it routes to
    \* The memory of the runtime.
    engine,        \* the device key of the open engine, or None
    unavailable, provisioned, resetDone, forgotten, replaced,
    \* The run.
    pc,
    held,          \* the list that the run read from the server
    tries,         \* the puts of publish_list that were stale
    joining,       \* the provisioning is the end of a pairing
    \* Bounds and history.
    made,          \* how many identities this device made keys for
    spent,         \* the masters that other devices made
    faults, user, other,
    banned,        \* revoked by the user and not paired again since
    forgot         \* the masters that the user told this device to forget

identity == <<account, master, cert>>
lists == <<list, listPending, migrated>>
revokes == <<revoking, ownRevoked, trustRevoked, resetPending>>
disk == <<identity, lists, revokes>>
server == <<srvList, srvDevices>>
memory == <<engine, unavailable, provisioned, resetDone, forgotten, replaced>>
run == <<pc, held, tries, joining>>
limits == <<faults, user, other>>
bounds == <<made, spent, limits>>
history == <<banned, forgot>>
vars == <<disk, server, memory, run, bounds, history>>

-----------------------------------------------------------------------------
(***************************************************************************)
(* Where the program starts: a first device, a device beside an existing   *)
(* identity, a store of an older build, a holder with its siblings and a   *)
(* device that joined by pairing.                                          *)
(***************************************************************************)

SignList(m, v, ks) == [master |-> m, version |-> v, keys |-> ks, legacy |-> FALSE]

Held(m, ks) == SignList(m, 1, ks)

StoreAt(s) ==
    \/ /\ s \in {"fresh", "beside"}
       /\ account = None /\ master = None /\ list = None /\ cert = None
       /\ migrated = FALSE /\ made = 0
    \/ /\ s = "upgrade"
       /\ account = 1 /\ master = 1 /\ cert = None
       /\ list \in {None, [srvList EXCEPT !.legacy = TRUE]}
       /\ migrated = FALSE /\ made = 1
    \/ /\ s = "holder"
       /\ account = 1 /\ master = 1 /\ list = srvList /\ cert = 1
       /\ migrated = TRUE /\ made = 1
    \/ /\ s = "joined"
       /\ account = 1 /\ master = None /\ list = srvList /\ cert = srvList.master
       /\ migrated = FALSE /\ made = 1

ServerAt(s) ==
    \/ s = "fresh" /\ srvList = None /\ srvDevices = {} /\ spent = {}
    \/ /\ s = "beside"
       /\ \E ks \in SUBSET Sibling, m \in OtherMaster :
             ks # {} /\ srvList = Held(m, ks) /\ srvDevices = ks /\ spent = {m}
    \/ /\ s = "upgrade"
       /\ \E ks \in SUBSET Sibling, old \in BOOLEAN :
             /\ srvList = [Held(1, ks \cup {1}) EXCEPT !.legacy = old]
             /\ srvDevices = ks /\ spent = {}
    \/ /\ s = "holder"
       /\ \E ks \in SUBSET Sibling :
             srvList = Held(1, ks \cup {1}) /\ srvDevices = ks \cup {1} /\ spent = {}
    \/ /\ s = "joined"
       /\ \E ks \in SUBSET Sibling, m \in OtherMaster :
             /\ ks # {} /\ srvList = Held(m, ks \cup {1})
             /\ srvDevices = ks \cup {1} /\ spent = {m}

Init ==
    /\ \E s \in Starts : ServerAt(s) /\ StoreAt(s)
    /\ listPending = FALSE /\ revoking = None /\ ownRevoked = {}
    /\ trustRevoked = {} /\ resetPending = FALSE
    /\ engine = None /\ unavailable = FALSE /\ provisioned = FALSE
    /\ resetDone = FALSE /\ forgotten = FALSE /\ replaced = FALSE
    /\ pc = "idle" /\ held = None /\ tries = 0 /\ joining = FALSE
    /\ faults = MaxFaults /\ user = MaxUser /\ other = MaxOther
    /\ banned = {} /\ forgot = {}

-----------------------------------------------------------------------------
(***************************************************************************)
(* The links of a run.                                                     *)
(***************************************************************************)

Goto(p) == pc' = p /\ UNCHANGED <<held, tries, joining>>

\* The run ends with an outcome for the user.
Ended(p) == pc' = p /\ held' = None /\ tries' = 0 /\ joining' = FALSE

End == Ended("idle")

\* provision_device returns.  On a connect the engine opens next; at the end
\* of a pairing nothing follows.
Returns == Ended(IF joining THEN "idle" ELSE "open")

\* What the server does with a put: a list of another master is refused, and
\* a list that is not above the held one is stale.
Accepts(l) == srvList # None => (srvList.master = l.master /\ l.version > srvList.version)
Stale(l) == srvList # None /\ srvList.master = l.master /\ l.version <= srvList.version

\* Mutant: the revoked keys of the server list stay.
KeysAboveAll(ks) == ks \cup {account}

\* The keys of the server list without the revoked keys, with this device.
KeysAbove(ks) == (ks \ ownRevoked) \cup {account}

Replaces(l, pending) == list' = l /\ listPending' = pending

-----------------------------------------------------------------------------
(***************************************************************************)
(* provision_network and provision_device.                                 *)
(***************************************************************************)

Connect ==
    /\ pc = "idle"
    /\ Ended(IF resetDone \/ provisioned THEN "open" ELSE "account")
    /\ UNCHANGED <<disk, server, memory, bounds, history>>

MakeAccount ==
    /\ account' = (IF account = None THEN made + 1 ELSE account)
    /\ made' = (IF account = None THEN made + 1 ELSE made)

ProvisionAccount ==
    /\ pc = "account"
    /\ IF resetPending
          THEN Returns /\ UNCHANGED <<account, made>>
          ELSE MakeAccount /\ Goto("fetch")
    /\ UNCHANGED <<master, cert, lists, revokes, server, memory, spent, limits, history>>

ProvisionFetch ==
    /\ pc = "fetch"
    /\ held' = srvList /\ pc' = "master" /\ UNCHANGED <<tries, joining>>
    /\ UNCHANGED <<disk, server, memory, bounds, history>>

\* recovery_for_provision: NeedsPairing and MasterMismatch set the reason of
\* the network; only MasterMismatch lets the user forget the local keys.
\* provision_network sets it, a pairing does not.
Recovery(isReplaced) ==
    /\ Returns
    /\ replaced' = (IF joining THEN replaced ELSE isReplaced)
    /\ UNCHANGED <<engine, unavailable, provisioned, resetDone, forgotten>>

Paired(l) == cert = l.master

\* A new master gets the number of the account that it is made for: an
\* account that goes takes its master along.
ProvisionMaster ==
    /\ pc = "master"
    /\ \/ /\ master # None /\ (held # None => held.master = master)
          /\ Goto("migrate") /\ UNCHANGED <<master, memory>>
       \/ /\ master # None /\ held # None /\ held.master # master
          /\ Recovery(TRUE) /\ UNCHANGED master
       \/ /\ master = None /\ held # None /\ Paired(held)
          /\ Goto("migrate") /\ UNCHANGED <<master, memory>>
       \/ /\ master = None /\ held # None /\ ~Paired(held)
          /\ Recovery(FALSE) /\ UNCHANGED master
       \/ /\ master = None /\ held = None
          /\ master' = account /\ Goto("migrate") /\ UNCHANGED memory
    /\ UNCHANGED <<account, cert, lists, revokes, server, bounds, history>>

\* An own list of the old key order is signed again, once.  A list that the
\* master did not sign stops the run.
ProvisionMigrate ==
    /\ pc = "migrate"
    /\ \/ /\ migrated \/ list = None \/ master = None
          /\ Goto("legacy") /\ UNCHANGED lists
       \/ /\ ~migrated /\ list # None /\ master # None /\ list.master # master
          /\ Returns /\ UNCHANGED lists
       \/ /\ ~migrated /\ list # None /\ master # None /\ list.master = master
          /\ list' = [list EXCEPT !.legacy = FALSE]
          /\ listPending' = (listPending \/
                 (list.legacy /\ (held = None \/ held.version < list.version)))
          /\ migrated' = TRUE
          /\ Goto("legacy")
    /\ UNCHANGED <<identity, revokes, server, memory, bounds, history>>

Behind == list = None \/ list.version <= held.version

\* A server list of the old key order gets a new version.
ProvisionLegacy ==
    /\ pc = "legacy"
    /\ IF held # None /\ master # None /\ Behind /\ held.legacy
          THEN Replaces(SignList(master, held.version + 1, KeysAbove(held.keys)), TRUE)
          ELSE UNCHANGED <<list, listPending>>
    /\ Goto("stale")
    /\ UNCHANGED <<identity, migrated, revokes, server, memory, bounds, history>>

\* Mutant: a pending list is left as it is.
ProvisionStaleLeft ==
    /\ pc = "stale"
    /\ Goto("first")
    /\ UNCHANGED <<disk, server, memory, bounds, history>>

\* A pending list that is not above the server list is signed again above it.
\* The mark stands only beside a master, and after the link before this one
\* the held list is not of the old order: the code's errors for a missing
\* master and a bad signature are not reached here (PendingIsSigned).
ProvisionStale ==
    /\ pc = "stale"
    /\ IF held # None /\ list # None /\ listPending /\ list.version <= held.version
          THEN IF KeysAbove(held.keys) = held.keys
                  THEN Replaces(held, FALSE)
                  ELSE Replaces(SignList(master, held.version + 1, KeysAbove(held.keys)), TRUE)
          ELSE UNCHANGED <<list, listPending>>
    /\ Goto("first")
    /\ UNCHANGED <<identity, migrated, revokes, server, memory, bounds, history>>

\* The list of a store that has none: the one of the server, or version 1.
\* A store without a list has no certificate, so a master is there.
ProvisionFirst ==
    /\ pc = "first"
    /\ \/ list # None /\ UNCHANGED <<list, listPending>>
       \/ /\ list = None /\ held # None /\ account \in held.keys
          /\ Replaces(held, listPending)
       \/ /\ list = None /\ held # None /\ account \notin held.keys
          /\ Replaces(SignList(master, held.version + 1, held.keys \cup {account}), TRUE)
       \/ /\ list = None /\ held = None
          /\ Replaces(SignList(master, 1, {account}), TRUE)
    /\ Goto("cert")
    /\ UNCHANGED <<identity, migrated, revokes, server, memory, bounds, history>>

ProvisionCert ==
    /\ pc = "cert"
    /\ cert' = (IF cert = None THEN master ELSE cert)
    /\ Goto("devices")
    /\ UNCHANGED <<account, master, lists, revokes, server, memory, bounds, history>>

\* The own list is put when it waits for publication or the server has none.
AfterRegister == IF listPending \/ held = None THEN "put" ELSE "bundle"

ProvisionDevices ==
    /\ pc = "devices"
    /\ Goto(IF account \in srvDevices THEN AfterRegister ELSE "register")
    /\ UNCHANGED <<disk, server, memory, bounds, history>>

\* What the server does with a register, an accepted put, a drop and a delete.
ServerRegisters == srvDevices' = srvDevices \cup {account} /\ UNCHANGED srvList
ServerTakes(l) == srvList' = l /\ UNCHANGED srvDevices
ServerDrops(k) == srvDevices' = srvDevices \ {k} /\ UNCHANGED srvList
ServerDeletes == srvList' = None /\ srvDevices' = {}

ProvisionRegister ==
    /\ pc = "register"
    /\ ServerRegisters /\ Goto(AfterRegister)
    /\ UNCHANGED <<disk, memory, bounds, history>>

\* A put that the server refuses ends the run.
ProvisionPut ==
    /\ pc = "put"
    /\ IF Accepts(list)
          THEN ServerTakes(list) /\ Goto("clear")
          ELSE Returns /\ UNCHANGED server
    /\ UNCHANGED <<disk, memory, bounds, history>>

ProvisionClear ==
    /\ pc = "clear"
    /\ listPending' = FALSE /\ Goto("bundle")
    /\ UNCHANGED <<identity, list, migrated, revokes, server, memory, bounds, history>>

\* The one-time keys go up and the run succeeds.  The runtime notes it: on a
\* connect the network is provisioned, after a join it is no longer reset.
ProvisionDone ==
    /\ pc = "bundle"
    /\ Returns
    /\ replaced' = FALSE
    /\ provisioned' = (provisioned \/ ~joining)
    /\ unavailable' = (unavailable /\ joining)
    /\ resetDone' = (resetDone /\ ~joining)
    /\ forgotten' = (forgotten /\ ~joining)
    /\ UNCHANGED <<disk, server, engine, bounds, history>>

ProvisionSteps == {"account", "fetch", "master", "migrate", "legacy", "stale", "first",
                   "cert", "devices", "register", "put", "clear", "bundle"}

-----------------------------------------------------------------------------
(***************************************************************************)
(* ensure_engine and resume_pending_manage.                                *)
(***************************************************************************)

\* An engine that is open or can be opened from the store.
Openable == ~resetDone /\ (engine # None \/ (~unavailable /\ account # None))
Opens == engine' = (IF engine = None THEN account ELSE engine)

\* Mutant: a pending revoke is not resumed.
ResumedResetOnly == IF resetPending THEN "delete" ELSE "idle"

\* A pending reset goes first, then a pending revoke.
Resumed ==
    IF resetPending THEN "delete" ELSE IF revoking # None THEN "route" ELSE "idle"

Open ==
    /\ pc = "open"
    /\ \/ /\ Openable \/ forgotten
          /\ Ended(Resumed)
          /\ engine' = (IF Openable /\ engine = None THEN account ELSE engine)
          /\ UNCHANGED unavailable
       \/ /\ ~Openable /\ ~forgotten
          /\ End
          /\ unavailable' = (unavailable \/ (~resetDone /\ engine = None))
          /\ UNCHANGED engine
    /\ UNCHANGED <<disk, server, provisioned, resetDone, forgotten, replaced, bounds,
                   history>>

\* A command of the user: the worker is free and the engine opens first.
Command ==
    /\ pc = "idle" /\ user > 0
    /\ user' = user - 1
    /\ UNCHANGED <<made, spent, faults, other>>

-----------------------------------------------------------------------------
(***************************************************************************)
(* revoke_device, finish_revoke and publish_list.                          *)
(***************************************************************************)

\* Mutant: the shorter list is saved without the mark of publication.
BeginRevokeUnmarked(k) ==
    /\ revoking' = k
    /\ ownRevoked' = ownRevoked \cup {k}
    /\ Replaces(SignList(master, list.version + 1, list.keys \ {k}), listPending)
    /\ banned' = banned \cup {k}

\* begin_revoke: the shorter list, its mark and the pending revoke in one write.
BeginRevoke(k) ==
    /\ revoking' = k
    /\ ownRevoked' = ownRevoked \cup {k}
    /\ Replaces(SignList(master, list.version + 1, list.keys \ {k}), TRUE)
    /\ banned' = banned \cup {k}

Revoke(k) ==
    /\ Command /\ Openable /\ Opens
    /\ ~resetPending
    /\ \/ revoking = k /\ UNCHANGED <<list, listPending, revoking, ownRevoked, banned>>
       \/ /\ revoking = None /\ master # None /\ list # None
          /\ k \in list.keys \ {account} /\ list.keys # {k}
          /\ BeginRevoke(k)
    /\ Ended("route")
    /\ UNCHANGED <<identity, migrated, trustRevoked, resetPending, server, unavailable,
                   provisioned, resetDone, forgotten, replaced, forgot>>

\* stop_routing: the trust record and the sessions, before any server call.
StopRouting ==
    /\ pc = "route"
    /\ trustRevoked' = trustRevoked \cup {revoking}
    /\ Goto(IF listPending THEN "publish" ELSE "drop")
    /\ UNCHANGED <<identity, lists, revoking, ownRevoked, resetPending, server, memory,
                   bounds, history>>

Publish ==
    /\ pc = "publish"
    /\ \/ Accepts(list) /\ ServerTakes(list) /\ Goto("published")
       \/ Stale(list) /\ UNCHANGED server /\ Goto("refetch")
       \/ ~Accepts(list) /\ ~Stale(list) /\ UNCHANGED server /\ End
    /\ UNCHANGED <<disk, memory, bounds, history>>

PublishRefetch ==
    /\ pc = "refetch"
    /\ IF srvList = None
          THEN End
          ELSE held' = srvList /\ pc' = "resign" /\ UNCHANGED <<tries, joining>>
    /\ UNCHANGED <<disk, server, memory, bounds, history>>

Higher(i, j) == IF i > j THEN i ELSE j

Unrevoked(ks) == ks \ ownRevoked

\* Mutant: the retry lifts the version of the own list and ignores the held one.
ResignedOwn == SignList(master, Higher(held.version, list.version) + 1, list.keys)

\* The list above the held one.
Resigned == SignList(master, Higher(held.version, list.version) + 1, Unrevoked(held.keys))

\* The server holds a list without a revoked key already, or the list is
\* signed again above it.  After the second stale put the mark stays.
PublishResign ==
    /\ pc = "resign"
    /\ \/ /\ held.master # master \/ held.legacy \/ Unrevoked(held.keys) = {}
          /\ End /\ UNCHANGED lists
       \/ /\ held.master = master /\ ~held.legacy /\ held.keys # {}
          /\ Unrevoked(held.keys) = held.keys /\ held.version >= list.version
          /\ Replaces(held, listPending) /\ Goto("published") /\ UNCHANGED migrated
       \/ /\ held.master = master /\ ~held.legacy /\ Unrevoked(held.keys) # {}
          /\ Unrevoked(held.keys) # held.keys \/ held.version < list.version
          /\ Replaces(Resigned, TRUE)
          /\ IF tries = 1
                THEN End
                ELSE pc' = "publish" /\ tries' = tries + 1 /\ UNCHANGED <<held, joining>>
          /\ UNCHANGED migrated
    /\ UNCHANGED <<identity, revokes, server, memory, bounds, history>>

PublishClear ==
    /\ pc = "published"
    /\ listPending' = FALSE /\ Goto("drop")
    /\ UNCHANGED <<identity, list, migrated, revokes, server, memory, bounds, history>>

\* The server refuses to drop a device that its list names.
DropDevice ==
    /\ pc = "drop"
    /\ IF srvList # None /\ revoking \in srvList.keys
          THEN End /\ UNCHANGED server
          ELSE ServerDrops(revoking) /\ Goto("dropped")
    /\ UNCHANGED <<disk, memory, bounds, history>>

RevokeDone ==
    /\ pc = "dropped"
    /\ revoking' = None /\ End
    /\ UNCHANGED <<identity, lists, ownRevoked, trustRevoked, resetPending, server, memory,
                   bounds, history>>

-----------------------------------------------------------------------------
(***************************************************************************)
(* reset_identity, resume_reset and the forget of a replaced identity.     *)
(***************************************************************************)

\* The reset of a network whose keys the user forgot needs no open engine.
ResetConfirmed ==
    /\ Command
    /\ Openable \/ (forgotten /\ engine # None)
    /\ engine' = (IF engine = None THEN account ELSE engine)
    /\ resetPending' = TRUE
    /\ Ended("delete")
    /\ UNCHANGED <<identity, lists, revoking, ownRevoked, trustRevoked, server, unavailable,
                   provisioned, resetDone, forgotten, replaced, history>>

\* Mutant: any answer counts as a deleted identity.
ResetDeleteAnyAnswer ==
    /\ pc = "delete"
    /\ (ServerDeletes \/ UNCHANGED server) /\ Goto("wipe")
    /\ UNCHANGED <<disk, memory, bounds, history>>

ResetDelete ==
    /\ pc = "delete"
    /\ ServerDeletes /\ Goto("wipe")
    /\ UNCHANGED <<disk, memory, bounds, history>>

\* Mutant: the mark of publication stays.
FinishResetKeepsMark ==
    /\ account' = None /\ master' = None /\ cert' = None
    /\ list' = None /\ migrated' = FALSE
    /\ revoking' = None /\ ownRevoked' = {} /\ resetPending' = FALSE
    /\ banned' = {}
    /\ UNCHANGED <<trustRevoked, listPending>>

\* finish_reset: the private state goes in one write; the trust stays.
FinishReset ==
    /\ account' = None /\ master' = None /\ cert' = None
    /\ list' = None /\ listPending' = FALSE /\ migrated' = FALSE
    /\ revoking' = None /\ ownRevoked' = {} /\ resetPending' = FALSE
    /\ banned' = {}
    /\ UNCHANGED trustRevoked

\* settle_reset: the engine stays in the map for the sealed history only.
SettleReset(isForgotten) ==
    /\ provisioned' = FALSE /\ resetDone' = TRUE /\ replaced' = FALSE
    /\ forgotten' = isForgotten

ResetDone ==
    /\ pc = "wipe"
    /\ FinishReset /\ SettleReset(FALSE) /\ End
    /\ UNCHANGED <<server, engine, unavailable, bounds, forgot>>

\* The engine that a pairing step takes: the old one of a reset network is
\* dropped, and a missing one is opened with a new account if need be.
PairingEngine ==
    LET open == engine # None /\ ~resetDone IN
    /\ IF open THEN UNCHANGED <<account, made, engine, unavailable>>
               ELSE MakeAccount /\ engine' = account' /\ unavailable' = FALSE

\* Mutant: the local keys may be forgotten at any time.
MayForgetAlways == TRUE

\* The last provisioning found another master on the server.
MayForget == replaced

\* The user forgets the keys of an identity that the server replaced.
Forget ==
    /\ pc = "idle" /\ user > 0 /\ MayForget
    /\ user' = user - 1
    /\ engine' = (IF engine = None THEN account ELSE engine)
    /\ unavailable' = (unavailable /\ engine # None)
    /\ forgot' = forgot \cup {master}
    /\ FinishReset /\ SettleReset(TRUE)
    /\ UNCHANGED <<server, run, made, spent, faults, other>>

-----------------------------------------------------------------------------
(***************************************************************************)
(* The grant of a pairing, on the holder and on the joiner.                *)
(***************************************************************************)

Grant(l, k) == SignList(l.master, l.version + 1, l.keys \cup {k})

\* finish_creator: the checks of the holder.  build_grant takes only a list
\* that its master signed in the current order.  The list is put before it is
\* saved; held is the signed grant meanwhile.
PairSign(k) ==
    /\ Command
    /\ Openable \/ engine # None
    /\ Opens
    /\ master # None /\ list # None /\ list.master = master /\ ~list.legacy
    /\ k \notin list.keys /\ Cardinality(list.keys) < MaxDevices
    /\ pc' = "grant" /\ held' = Grant(list, k) /\ UNCHANGED <<tries, joining>>
    /\ UNCHANGED <<disk, server, unavailable, provisioned, resetDone, forgotten, replaced,
                   history>>

PairPut ==
    /\ pc = "grant"
    /\ IF Accepts(held)
          THEN ServerTakes(held) /\ banned' = banned \ held.keys /\ Goto("save")
          ELSE UNCHANGED <<server, banned>> /\ End
    /\ UNCHANGED <<disk, memory, bounds, forgot>>

PairSave ==
    /\ pc = "save"
    /\ Replaces(held, listPending) /\ End
    /\ UNCHANGED <<identity, migrated, revokes, server, memory, bounds, history>>

\* The joiner opens its engine, then its key goes to the holder.
JoinOpen ==
    /\ pc = "idle" /\ user > 0
    /\ user' = user - 1
    /\ PairingEngine
    /\ UNCHANGED <<master, cert, lists, revokes, server, provisioned, resetDone, forgotten,
                   replaced, run, spent, faults, other, history>>

\* The holder of the identity on the server grants the key of this device.
\* A device that holds a master of its own refuses the grant of another.
JoinGranted ==
    /\ pc = "idle" /\ other > 0
    /\ engine # None /\ engine = account
    /\ srvList # None /\ srvList.master \in Shared /\ ~srvList.legacy
    /\ account \notin srvList.keys /\ Cardinality(srvList.keys) < MaxDevices
    /\ other' = other - 1
    /\ ServerTakes(Grant(srvList, account))
    /\ IF master \in {None, srvList.master}
          THEN /\ held' = Grant(srvList, account) /\ pc' = "grantlist"
               /\ joining' = TRUE /\ UNCHANGED tries
          ELSE UNCHANGED run
    /\ UNCHANGED <<disk, memory, made, spent, faults, user, history>>

ApplyGrantList ==
    /\ pc = "grantlist"
    /\ Replaces(held, listPending) /\ Goto("grantcert")
    /\ UNCHANGED <<identity, migrated, revokes, server, memory, bounds, history>>

ApplyGrantCert ==
    /\ pc = "grantcert"
    /\ cert' = held.master
    /\ pc' = "account" /\ held' = None /\ UNCHANGED <<tries, joining>>
    /\ UNCHANGED <<account, master, lists, revokes, server, memory, bounds, history>>

-----------------------------------------------------------------------------
(***************************************************************************)
(* sync_own_list: the engine adopts a newer list that keeps this device.   *)
(***************************************************************************)

\* Mutant: the version is not compared.
SyncNewerAny == engine \in srvList.keys

\* The held list is newer and keeps this device.
SyncNewer == srvList.version > list.version /\ engine \in srvList.keys

SyncFetch ==
    /\ pc = "idle"
    /\ engine # None /\ ~resetDone
    /\ list # None /\ cert = list.master /\ ~list.legacy
    /\ srvList # None /\ srvList.master = cert /\ ~srvList.legacy
    /\ SyncNewer
    /\ pc' = "adopt" /\ held' = srvList /\ UNCHANGED <<tries, joining>>
    /\ UNCHANGED <<disk, server, memory, bounds, history>>

SyncAdopt ==
    /\ pc = "adopt"
    /\ Replaces(held, listPending) /\ End
    /\ UNCHANGED <<identity, migrated, revokes, server, memory, bounds, history>>

-----------------------------------------------------------------------------
(***************************************************************************)
(* What goes wrong, and what the other devices of the account do.          *)
(***************************************************************************)

Fault == faults > 0 /\ faults' = faults - 1 /\ UNCHANGED <<made, spent, user, other>>

\* A run that fails ends; a failed provisioning still opens the engine.
Fails == Ended(IF pc \in ProvisionSteps /\ ~joining THEN "open" ELSE "idle")

\* A store write fails, or a request does not reach the server.
StepFails ==
    /\ Fault
    /\ pc \notin {"idle", "open"}
    /\ Fails
    /\ UNCHANGED <<disk, server, memory, history>>

\* The server acts, and the answer is lost.
AnswerLost ==
    /\ Fault
    /\ \/ pc = "register" /\ ServerRegisters /\ UNCHANGED banned
       \/ pc \in {"put", "publish"} /\ Accepts(list) /\ ServerTakes(list) /\ UNCHANGED banned
       \/ /\ pc = "grant" /\ Accepts(held) /\ ServerTakes(held)
          /\ banned' = banned \ held.keys
       \/ /\ pc = "drop" /\ (srvList # None => revoking \notin srvList.keys)
          /\ ServerDrops(revoking) /\ UNCHANGED banned
       \/ pc = "delete" /\ ServerDeletes /\ UNCHANGED banned
    /\ Fails
    /\ UNCHANGED <<disk, memory, forgot>>

\* The program stops and starts again: the store is all that is left.
Restart ==
    /\ Fault
    /\ End
    /\ engine' = None /\ unavailable' = FALSE /\ provisioned' = FALSE
    /\ resetDone' = FALSE /\ forgotten' = FALSE /\ replaced' = FALSE
    /\ UNCHANGED <<disk, server, history>>

Other == other > 0 /\ other' = other - 1 /\ UNCHANGED <<made, faults, user>>

\* Another device that holds the master signs a list.
OtherList(ks) ==
    /\ Other
    /\ srvList # None /\ srvList.master \in Shared /\ ks # {}
    /\ ServerTakes(SignList(srvList.master, srvList.version + 1, ks))
    /\ UNCHANGED <<disk, memory, run, spent, history>>

\* Another device resets the identity of the account.
OtherReset ==
    /\ Other
    /\ srvList # None /\ ServerDeletes
    /\ UNCHANGED <<disk, memory, run, spent, history>>

\* Another device makes a new identity.
OtherFirst(m) ==
    /\ Other
    /\ srvList = None /\ m \notin spent
    /\ spent' = spent \cup {m}
    /\ ServerTakes(Held(m, Sibling))
    /\ UNCHANGED <<disk, memory, run, history>>

-----------------------------------------------------------------------------
RunStep ==
    \/ ProvisionAccount \/ ProvisionFetch \/ ProvisionMaster \/ ProvisionMigrate
    \/ ProvisionLegacy \/ ProvisionStale \/ ProvisionFirst \/ ProvisionCert
    \/ ProvisionDevices \/ ProvisionRegister \/ ProvisionPut \/ ProvisionClear
    \/ ProvisionDone \/ Open
    \/ StopRouting \/ Publish \/ PublishRefetch \/ PublishResign \/ PublishClear
    \/ DropDevice \/ RevokeDone \/ ResetDelete \/ ResetDone
    \/ PairPut \/ PairSave \/ ApplyGrantList \/ ApplyGrantCert \/ SyncAdopt

UserStep ==
    \/ \E k \in Sibling : Revoke(k) \/ PairSign(k)
    \/ ResetConfirmed \/ Forget \/ JoinOpen

OtherStep ==
    \/ JoinGranted \/ OtherReset
    \/ \E ks \in SUBSET (Sibling \cup ({account} \ {None})) : OtherList(ks)
    \/ \E m \in OtherMaster : OtherFirst(m)

FaultStep == StepFails \/ AnswerLost \/ Restart

Next == Connect \/ RunStep \/ UserStep \/ SyncFetch \/ OtherStep \/ FaultStep

Spec == Init /\ [][Next]_vars

\* A call that started goes on, and a client that is not connected connects
\* again and again: the session loop retries with a backoff for ever.
FairSpec == Spec /\ WF_vars(RunStep) /\ SF_vars(Connect)

-----------------------------------------------------------------------------
(***************************************************************************)
(* Properties.                                                             *)
(***************************************************************************)

TypeOK ==
    /\ account \in OwnKey \cup {None} /\ master \in OwnKey \cup {None}
    /\ cert \in Master \cup {None}
    /\ list \in List \cup {None} /\ listPending \in BOOLEAN /\ migrated \in BOOLEAN
    /\ revoking \in Sibling \cup {None} /\ ownRevoked \subseteq Sibling
    /\ trustRevoked \subseteq Sibling /\ resetPending \in BOOLEAN
    /\ srvList \in List \cup {None} /\ srvDevices \subseteq Key
    /\ engine \in OwnKey \cup {None}
    /\ unavailable \in BOOLEAN /\ provisioned \in BOOLEAN /\ resetDone \in BOOLEAN
    /\ forgotten \in BOOLEAN /\ replaced \in BOOLEAN /\ joining \in BOOLEAN
    /\ held \in List \cup {None} /\ tries \in 0 .. 1
    /\ made \in Nat /\ spent \subseteq OtherMaster
    /\ faults \in 0 .. MaxFaults /\ user \in 0 .. MaxUser /\ other \in 0 .. MaxOther
    /\ banned \subseteq Sibling /\ forgot \subseteq OwnKey

\* A mark of publication stands only beside the own master and a list that it
\* signed in the current order (the errors that ProvisionStale leaves out).
PendingIsSigned ==
    listPending => /\ master # None
                   /\ list # None /\ list.master = master /\ ~list.legacy

\* A revoke holds against the lost calls, the failed writes, the restarts and
\* the retries of e2e_revoke.rs and e2e_provision.rs: a key that the user
\* revoked and did not pair again is off the stored list at once, and once the
\* revoke is finished it is off the server's list and out of the routing.
RevokeHolds ==
    /\ list # None => list.keys \cap banned = {}
    /\ (srvList # None /\ srvList.master = master) => srvList.keys \cap banned \subseteq {revoking}
    /\ banned \ {revoking} \subseteq trustRevoked

\* An own list that carries no mark of publication is not ahead of the
\* server: a list that a lost put or a stop left unpublished is put later.
UnmarkedIsPublished ==
    (list # None /\ ~listPending /\ srvList # None /\ srvList.master = list.master)
        => list.version <= srvList.version

\* A reset never leaves an identity on the server whose master key is gone:
\* the server drops the identity before finish_reset removes the key.  Only
\* the user gives a master up, with /e2e forget.
IdentityNotOrphaned ==
    (srvList # None /\ srvList.master \in OwnKey)
        => srvList.master = master \/ srvList.master \in forgot

\* Whatever fails, stops or changes on the server: a waiting list is signed, an
\* unmarked one is published and no identity is orphaned (e2e_provision.rs,
\* e2e_revoke.rs, sync_own_list).
IdentitySound == TypeOK /\ PendingIsSigned /\ UnmarkedIsPublished /\ IdentityNotOrphaned

\* Under one master the stored list never goes back to an older version, so
\* peers never meet a list of this device with a version they saw already.
KeepsOwnList ==
    (list # None /\ list' # None /\ list'.master = list.master)
        => list'.version >= list.version

\* An own put never brings a revoked key back to the server, also when a copy
\* of the master signs lists elsewhere that name the key, and sync_own_list
\* takes such a list into the store.
PutsNoRevoked ==
    (pc \in {"put", "publish"} /\ other' = other
        /\ srvList # None /\ srvList' # None /\ srvList' # srvList)
      => (srvList'.keys \ srvList.keys) \cap ownRevoked = {}

\* Neither the stored list nor the server's is taken back: both of the above.
ListsNeverUndone == [][KeepsOwnList /\ PutsNoRevoked]_vars

\* Another device replaced the identity, or left only revoked devices on it:
\* the holder cannot publish.
CannotPublish ==
    srvList # None /\ (srvList.master # master \/ srvList.keys \subseteq ownRevoked)

\* resume_reset "finishes a reset that the user confirmed before a failure or
\* a restart" (e2e_revoke.rs): a confirmed reset ends.
ResetEnds == resetPending ~> ~resetPending

\* "A device that joined by X1 pairing holds no master secret: it has the
\* certificate that the master signed for its key" (e2e_provision.rs): a store
\* never holds a master key beside the certificate of another master.
JoinedHoldsNoMaster == (cert # None /\ master # None) => cert = master

\* "Device keys of the own account that this device revoked. A list that holds
\* one of them is never accepted again." (e2e_state.rs): the list that
\* sync_own_list takes from the server names none of them.
RevokedListNeverAccepted ==
    [][(pc = "adopt" /\ list' # list) => list'.keys \cap ownRevoked = {}]_vars
=============================================================================
