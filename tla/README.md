# A verification of Cordiale

Cordiale is a native desktop client for the Grappa bouncer, written in Rust:
`crates/cordiale-core` holds the logic and `crates/cordiale-ui` the worker and
the Slint views. This folder holds TLA+ modules for the parts of it where
order, failure and concurrency decide correctness, the TLC configurations that
check them on small instances, and theorems that TLAPS proves for every
instance. `PROJECT.json` maps each definition to its source lines and lists the
runs, mutants, findings, hazards and theorems.

## The system

One process, one worker. The UI thread sends commands to a single asynchronous
worker (`main.rs`); the worker holds all state, runs one command, session event
or timer at a time, and awaits REST calls inside it. Beside it run one task
that owns the WebSocket (`session.rs`), short tasks for requests whose answers
come back as commands, and a thread for the radio. Grappa and the other devices
of the account are outside the process.

| Part | State | Operations | Interacts with | Hard because |
|---|---|---|---|---|
| Realtime session (`session.rs`, `backoff.rs`) | socket, joined topics with their join_ref, presence, backoff, command queue, shutdown flag | connect, join, rejoin, heartbeat, visibility, commands, close | worker (queues), Grappa (frames) | the socket may be lost between any two steps; commands wait while there is none; a close races the wait |
| Peer trust (`e2e_trust.rs`, `e2e_peer.rs`, `e2e_device.rs`, `e2e_wire.rs`) | pinned master, newest signed list, certified devices, revocations, marks of comparison | KEYS answer, first message, list message, SAS and key check, replace master, revoke, release | engine (device cache, sessions), sealed store, dialogs | any signed statement may come in any order and again; writes fail; dialogs are stale |
| Own identity (`e2e_provision.rs`, `e2e_revoke.rs`, `e2e_list_migration.rs`, grant of `e2e_pairing_flow.rs`) | account, master, own list and its pending mark, certificate, open revoke, open reset | provision, publish, revoke, reset, forget, pair, sync | sealed store, Grappa, sibling devices | chains of writes and calls that fail, are repeated, or are cut by a restart, while siblings change the server |
| Send path (`e2e_engine.rs`, `e2e_pacing.rs`) | queue, pending texts, send book, memory of sends, Olm sessions, one-time keys, marks of rows | send or queue, emit, flush, expire, NACK, drop event, end of the session, key request | peer trust, history, relay, worker timer | partial failure of requests, lost answers, late and repeated NACKs, deadlines that pass during a flush |
| Receive path (`e2e_engine.rs`, `e2e_store.rs`, `e2e_selfcopy.rs`) | inbox cursor, replay state, history, copies | drain, decrypt, store, ack, copy | trust, sealed state, history | two stores and an ack that are not one transaction |
| Pairing (`e2e_pairing_flow.rs`, `e2e_pairing.rs`, `e2e_sas.rs`) | rendezvous, transcript, code | offer, commit, reveal, confirm, grant | both devices, relay, own identity | two devices, lost and repeated messages, expiry |
| Worker and windows (`main.rs`, `frames.rs`, `queries.rs`, `channels.rs`, `history.rs`, `mentions.rs`) | networks, windows, members, unread counts, joined topics, requests on their way | commands, frames, answers | all of the above | answers come for windows that are gone; frames cross commands |
| Sign-in (`bootstrap.rs`, `credentials.rs`, `ceremony.rs`, `totp.rs`) | remembered bearer, second factor in progress | login, challenge, refresh, forget | keychain, Grappa | retries with a bearer that was revoked |
| Local files (`persistence.rs`, `e2e_state.rs`, `e2e_store.rs`) | settings, sealed state, history | atomic write, migration of folders, append | everything | crash between two files |
| Radio (`player.rs`, `radio.rs`) | tuned station, a network thread and a decoder per stream, the device | tune, stop, read, decode, report | worker, now-playing feed | threads that end late, two bounded channels |
| Uploads (`main.rs`, `upload.rs`, `video_processing.rs`) | jobs, two semaphores, notice of the videos | pick, confirm, shrink, send, cancel | worker, UI, session | tasks that outlive their session |
| Compose line (`slash.rs`, `ban.rs`, `main.rs`) | aliases, pending bans, service console | a line, an alias, /kb, the console | locked windows, server | aliases that turn one command into another, answers for windows that are gone |
| Settings, panels, security, administration (`main.rs`, `frames.rs`, `admin_handlers.rs`, `totp.rs`, `passkeys.rs`) | copies of what the server keeps, open editors, codes on the screen | read, change, refresh, push | server, other clients | late answers, missed pushes, partial writes |
| Media, text formatting, themes, views | little or none | pure functions, single requests | worker | mostly not: conversions and I/O |

What makes each modelled part correct:

- **Peer trust**: nothing is sealed for, or read from, a device that the pinned
  master does not vouch for; a revocation is only undone by the user; a list
  never rolls back; "verified" stands only for the master that was compared.
- **Own identity**: a revoked device does not come back; an unpublished list is
  published later; no reset leaves an identity nobody can sign for; what was
  begun ends.
- **Send path**: a row is sent, waiting or marked; nobody gets a text more often
  than allowed; no step of an Olm session is used twice; no text waits for ever.
- **Receive path**: a text is shown at most once and stays; a text is lost only
  when two first messages cross; the inbox empties.
- **Pairing**: a device is granted only what both users confirmed and the list
  names; an ended rendezvous offers nothing.
- **Session**: client and server mean the same join; topics follow the commands
  of the worker; events are true; waits are paced; a close is final and answered.
- **Windows, transcript, queries, replies**: when every push is read the sidebar
  agrees with the server; no hidden hole between rows; a window that lets the user
  write is live; a page that is shown was asked for.
- **Sign-in, uploads, locked chats, security, administration**: one sign-in does
  not end as another; a link is posted in its own session; an encrypted chat
  starts with the user; what is armed was shown; a deletion was counted first.
- **Files, settings, panels, radio, compose, pacing**: a stop at any write leaves
  the last saved file; a choice is kept until confirmed; a panel shows the server;
  what is heard is what is tuned; locked chat is never sent in the clear; the
  limits hold.

The hazards, each with its line and the properties that would catch it, are in
`PROJECT.json`.

## Modules

### PeerTrust

One trust record (`rec`, the `PeerRecord` in the sealed store), the memory of the
engine that rests on it (`peers`, `otk`, `revokedDids`), the saved `sessions` and
the dialog (`shown`). A KEYS answer is read in steps as `accept_keys` does it:
`KeysStart` copies the record, `KeysEntry` looks at one device, `KeysSaved` and
`KeysSaveFails` end it. `PkMsg`, `PkMsgHalfSaved` and `PkMsgRefused` are the
second door, a first message with a certificate; `PkMsgHalfSaved` is the failure
between the two writes of `save_state`. `ListMessage` is a list inside a message.
`ReplacePeerMaster` is the explicit action of the user, with `ReplaceFails` for
its partial failures, and `ShowMaster` and `Confirm` are the dialogs. With
`OwnAccount` the record is that of the own account and `RevokeDevice` and
`ReleaseMaster` are added. Signatures are unforgeable: `Lists`, `Certs` and
`IdBlock` are the statements that exist, and the network delivers any of them at
any time.

### OwnIdentity

The sealed store, the server and the memory of the runtime for one network, and
`pc`, where the run of the worker stands. Every link of a chain (a store write or
a server call) is an action, so `StepFails`, `AnswerLost`, `Restart` and the
changes of the other devices (`OtherList`, `OtherReset`, `OtherFirst`) may come
between any two. The provisioning steps are those of `provision_device` in their
order; `Revoke` to `RevokeDone`, `ResetConfirmed` to `ResetDone`, `PairSign` to
`PairSave`, `JoinOpen` to `ApplyGrantCert` and `SyncFetch`/`SyncAdopt` are the
other runs. Keys that this device makes are numbered, because a new account never
repeats a key. `Starts` says in which situation the program is first started.

### SendQueue

The path of a text to one nick. The steps of the worker are `stage` (idle, settle,
flush, send, keys) with the flush and the send in progress in `flush` and `job`;
`wire` is what the relay took. `SendOrQueue`, `QueueText`, `Deliver`, the outcomes
of a request (`EmitAccepted`, `EmitRefused`, `EmitLost`, `EmitUnsaved`,
`TooLarge`), `FlushItem`, `FlushEnd`, `Settle` and `TickEngines` follow
`e2e_engine.rs` and `e2e_runtime.rs`; `OnNack`, `SendDropped`, `NoSuchNick`,
`KeysRow`, `PeerMessage` and `EndSession` are events that come between them. An
Olm session is the number of its messages, so that a repeated step is a repeated
number. Time is the distance to each deadline (`Tick`). `known` is the cache of devices,
which a restart empties: a saved session alone does not make a device ready before the
next KEYS answer. `forget_peer_devices` is left to PeerTrust: only the replacement of a
master calls it, which is not a step of the send path.

### Session

`phase` is where `run_session` stands. The branches of its `select!` are actions:
`Heartbeat`, `VisibilityResend`, the frames that change the session, the commands
and the loss of the socket. `Lose` is the tail that all losses share (delay, event,
wait) and `Ends` the return of the task. The worker appends commands and sets the
flag at any time, also while no connection reads them; a new login drops the old
handle without a flag (`DropHandle`). The server holds the socket's joins (`srv`)
and the last report of the window. Delays are quarters of a second, so the jitter
of a quarter is exact.

### Inbox and Delivery

Both ends of a pair of devices, of two people or of one account. `rows` is what
the relay took, `inbox` what an end has not acknowledged; a received row is two
writes (`history`, then the sealed state), with `TornAppend`, failed writes and
`Restart` between and inside them. `drain`, `handle_row`, `stale_or_refuse`, the
replay window, the copies for siblings and the read of the own list are the steps
of `Worker`. **Delivery** is the promise to a reader, with four actions: a text is
sent (`Send`), shown once (`Show`), or deleted with its conversation (`Delete`), and
`Repeat` is its one excuse, a text that the relay gives in a second row while the
state of the first was not written. `DeliversOnce` says that Inbox implements it, with
`shown` mapped to the rows of the history and `excused` to `Excused`.

### Pairing

A holder and a joiner with the state machines of `e2e_pairing_flow.rs`, the
rendezvous of the relay between them (`rdv`), the offer that the server pushes and
what each device stores. A channel has one check code, which the users type right or
wrong; the offer may move the joiner to another network; another holder publishes
in between.

### Windows, Transcript, Queries, Replies, Links

**Windows**: rows, window states and topics of the sidebar against the server, with
REST answers ahead of the pushes that wait. Several joined topics answer each for itself;
the model takes one order, all states before the rosters. **Transcript**: the rows of one channel
as ids, from the head of the sign-in, live rows, catch-ups of a probe and a read,
older pages and the trim, with the read cursor. The catch-up is of the windows that
the loss finds joined: rows of a channel that was left and joined again during the loss
are outside of it, as in the code, so `missed` does not count them. **Queries**: listeners, tails and
the private messages that wait for their window. **Replies**: what the server
answers, the picture of a WHOIS card and the jump from a mention. **Links**: the
fold that makes a tree of the flat reply of /links, for every order of its entries.

### LockedChat, SignIn, Uploads

**LockedChat**: the consent request for an encrypted chat, mirrored by pushes that
are lost without a socket, and the progress row of a first message. **SignIn**: the
connect screen, second factor, guests and remembered bearers, as a job of requests
between which the server revokes. **Uploads**: one task per file with its two
permits, the question before it, shrinking, the notice and the end of a session.

### Security, Admin, Settings, Panels, Files, Radio, Compose, Pacing

**Security**: codes and secrets are the numbers of the server's preparations; a
passkey prompt is a task that stays open. **Admin**: a command is a row of steps
whose requests take time; the page survives a sign-out to another server.
**Settings**: server, worker copy, page and file of each setting, with other clients
between. A setting that is read, changed and written back whole (aliases, vhosts, the map
of the display preferences with its pins) is two steps with an await between them, for
this client and for another Cordiale (`OtherReads`, `OtherWrites`), so each can put back a
map that is older than the server's. A request of this client that arrives after its
crash is not modelled. **Panels**: mirrors that live on pushes. **Files**: the two threads that
save, the temporary file and the rename, the move of the folder, the keyring and the
log. **Radio**: for each tune a network thread, a decoder and a source joined by two
bounded channels. **Compose**: a line is its verb and first word; aliases are walked
with their depth; `GoesOut` is every request that a line makes. **Pacing**: the
limits of key requests and one-time keys under a case mapping that changes.

### MC modules

`MCReceive` is an instance of Inbox and `MCSession` one of Session. `MCPeerTrust`,
`MCOwnIdentity` and `MCSendQueue` check several instances of one module in one run
(`variant`); `MCWindows`, `MCTranscript`, `MCPages` and `MCCompose` check several modules
in one run (`part`): each extends the module of its first part (Windows, Transcript,
Pairing, Compose) and instantiates the others. In both cases the choice is made in the
initial state and never changes, so a behaviour of the run is a behaviour of one
specification; the variables of the other parts stay as they began. The parts share no
variable in the code either, or only through the worker, which runs one handler at a
time.

## Runs

| Run | Checks | Instance |
|---|---|---|
| `trust` | `TypeOK`, `CertifiedAhead`, `OnlyVouched`, `VerifiedWasCompared`, `NothingUndone` | two masters, two devices, seven lists that add, drop and re-add devices, also two contents for one version, four certificates, one ahead of every list; the peer's record, the own account's, and one under the dialogs |
| `identity` | `IdentitySound`, `RevokesHold`, `ListsNeverUndone`, `PendingEnds` | two siblings, two foreign masters, two commands of the user, in four variants: `alone` with four starts, one fault and two changes by others; `faulty` with two faults and one change; `shared`, whose store is copied; `older`, the same from a store of an older version; fair |
| `send` | `SendTypes`, `SendSound`, `SentOnce`, `OlmNotReused`, `QueueEmpties` | two texts and one device with one restart (`queue`), or one text and two devices (`devices`); two sessions, one fault; fair |
| `session` | `SessionSound`, `AgreedRefs`, `ToldTheTruth`, `NoConnectAfterClose`, `SessionEnds` | two topics, two commands, any number of reconnects, base 1 s, cap 4 s, hints of 1.5 s and 10 s under a cap of 6 s; fair |
| `receive` | `InboxSound`, `DeliversOnce`, `InboxEmpties` | three texts between two ends, two sessions, at most two faults, or a fault and a stop; fair |
| `windows` | `SidebarSound`, `LockedChatSound`, `SignInSound`, `UploadsSound`, `PseudoRowKept` | two channels of two networks, three events and a queue of one; two requests and one fault; two accounts, one with a second factor, three bearers; two jobs with one slot |
| `transcript` | `TranscriptSound`, `QueriesSound`, `RepliesSound`, `LinksSound` | four rows, a head and a catch-up of one, older pages of two, a window of two rows, two faults; two nicks; two pushes of replies; four servers in three entries |
| `pages` | `PairingSound`, `RadioSound`, `SecuritySound`, `AdminSound`, `FilesSound` | two rendezvous, two networks, one fault, one restart; two tunes with channels of one; two accounts, three clicks; two servers, two networks; two files, three events |
| `compose` | `ComposeSound`, `SettingsSound`, `PanelsSound`, `PacingSound` | 22 lines, seven alias lists, depth 2, two nicks that the network folds and ASCII does not; settings of two networks, two aliases and two channels; three events, for the settings and for the panels; three nicks under two mappings, four events in three units of time |
| `forgotten_reset_stays` | violation of `ResetEnds` | finding 1 |
| `joined_device_makes_master` | violation of `JoinedHoldsNoMaster` | finding 2 |
| `settings_lost_update` | violation of `SettingKept` | finding 3 |

A property named `...Sound` is the conjunction of the invariants of its module, each
of which has its own comment there; several mutants show that the conjuncts can fail
one by one.

**Bounds.** Every bound is a named constant. Lists go to version 3: a drop, a
return and a conflict need three. Two siblings let one be revoked while the other
signs. Two faults cover a failure and a failure of its repair. `MaxSends`,
`QueueMax`, `SentMax`, the pages and the permits are small so that each limit is
reached; the code's values only move the limit. Two texts show an order in the queue
and one text that fails beside one that goes out; two devices show a split request;
three texts show a crossing and a text behind it. In Session the number of commands
is bounded and the number of losses is not. `MaxDoublings` is 2 instead of 6, so that
the growth and the cap are both met; `BaseDelay` and `MaxDelay` are multiples of four
and the assumption that the last doubling passes the cap is that of the comment in
`backoff.rs`. Two tunes are one switch; two files are one that is damaged beside one
that is not. Three events of Settings hold a read of
another client, a choice here and the other's write; four, checked once on Settings
alone, show nothing else. The overflow of the queue of copies (`JobMax`) is not reached.
Deadlock is not checked where the system may stop: a session that ended, a text that
is settled, and a part whose events are used up.

**Fairness.** OwnIdentity: weak fairness of the run in progress (the worker goes on
with a future it polls) and strong fairness of `Connect` (the session loop retries
for ever). SendQueue: weak fairness of the worker, of its 15 s timer and of time.
Session: weak fairness of the task's own steps; `select!` picks at random, so a
branch that stays ready is taken. A connect is assumed to end, which the code
leaves to the operating system: `PhoenixSocket::connect` has no timeout of its own.
Inbox: weak fairness of each device's worker. No fairness is assumed of the user, the
server, the relay or the other devices.

Each property of a passing run has at least one mutant in `PROJECT.json`: a definition
of the same module that changes one mapped definition the way a plausible bug would,
under which TLC finds the property violated.

## Findings

1. `e2e_runtime.rs:1103`: after `/e2e forget` a confirmed reset that a restart cuts is
   never resumed: the store has no account to open an engine for, and the set that
   would lead to it lives in memory only.
2. `e2e_provision.rs:224`: a joined device that starts after a reset elsewhere makes
   a new master beside the certificate of the old one.
3. `ui_callbacks.rs:23`: the UI thread and the worker load, change and save the same
   settings file without a lock; the later save takes back what the other changed,
   among it a choice that "is sent again at the next sign-in".

**Disagreements that are stated and not in a run.** These definitions say what a
comment of the code says, and TLC refutes each of them under its module's
specification; they are kept beside the properties that do hold.

- `RevokedListNeverAccepted` (OwnIdentity): the sync of the own list takes a list that
  names a key this device revoked (`e2e_engine.rs:2197`, `e2e_state.rs:117`).
- `ListReadBeforeRefusal` (Inbox): a failed acknowledgement ends a read after the try
  of a copy was counted, so the next read refuses it without reading the own list
  (`e2e_engine.rs:2093`).
- `JumpLeavesNoHole` (Replies): the window that `handle_open_mention` rebuilds from an
  older page gets a hole with the next live row or newer mention (`mentions.rs:101`).
- `SecondLossSkipsNothing` (Transcript): a second loss between two catch-ups drops the
  anchors of the windows that still wait (`history.rs:344`).
- `ReopenLoadsTail` (Queries), `RosterSeeded` (Windows): a query opened again and a
  channel that stays subscribed across a refresh are not seeded again
  (`frames.rs:6221`, `frames.rs:3432`).
- `KeptUntilArmed` (Security): a second preparation and a cancel drop the codes that
  "a cancelled prompt" should find again (`main.rs:1860`).
- `FinishedWasPlayed` (Radio): "finished" is reported when the download ends
  (`player.rs:244`).
- `ActionToPeerSealed` (Compose): an alias with `$C` names the peer by the nick of the
  query, and a CTCP ACTION to it leaves a locked window in the clear (`main.rs:4296`).
- `PinsStay` (Settings): the pins of other channels "possibly set from another device,
  stay" (`client.rs:1843`), but the map that was read before the other device wrote is
  put back whole. For the same reason `ChoiceKept` excepts a choice that a write of
  another client changed since this one last read or wrote it: it holds for every
  order of this client's own reads and writes, failures and restarts.
- `TotpStepIsOpen`, `GuestReturns` (SignIn), `OffersAgree` (Panels), `PictureIsOfCard`
  (Replies): the second-factor step, a guest's bearer, held offers and the picture of
  a card after a change on the other side.

## Proofs

Each module ending in `Proofs` holds the theorems of one component, for every value of
its constants, and the invariants that they rest on. An invariant was checked with TLC
on an instance before it was proved.

**PeerTrustProofs** proves all invariants and action properties of PeerTrust for
every set of masters, devices, lists and certificates. `OnlyVouched` (`ReadyVouched` and
`SessionVouched`) is not inductive: a cached device rests on a record that a KEYS answer
is changing in a copy, so the invariant `TrustInv` also says what holds of the copy
(`RecordOK`: the certificates are ahead of the list, the list and the revocations
are apart), that the copy only grows what the record grants (`Grows`), and that
cache and sessions are backed by the record or revoked by it (`Backed`). Lemmas say
what each operation of the record (`Observed`, `WithList`, `WithCurve`, `Released`)
keeps, once, and the steps cite them. The action properties follow from the same
invariant.

**IdentityProofs** proves `IdentitySound` for every set of masters, also when another
device signs with the own master, and for a master that stays on this device that a
revoke is kept (`RevokesAreKept`) and a list is never undone. `RunInv` says what holds at
each point of a run that may be cut there: what is stored, that a pending list is signed
by the own master (`PendingIsSigned`), and what a provisioning, a revoke and a pairing
know at each of their steps. `ListInv` relates the list of the server to the stored one
(`HeldIsBehind`, `ListFollows`, `AheadInv`, `UnmarkedIsPublished`). With the own master on
this device alone, `ForeignInv`, `OwnInv` and `BanInv` say in addition who can have signed
what the server holds. The assumption of those theorems, `Shared \cap OwnKey = {}`, is
their precondition and not one of the module.

**SessionProofs** proves `SessionSound`, `AgreedRefs`, `ToldTheTruth` and
`NoConnectAfterClose` for any set of topics and any number of commands. `AgreedRefs`
speaks of a served connection; its invariant `RefInv` says in addition that a new socket
has no topic, that a socket exists only between the connect and the end of the
connection, and that during the rejoins the server knows only topics that are done.
`ToldInv` adds that the user topic is not joined before the connection is served. `SoundInv`
follows the last wish for each topic through the queue (`LastWish`) and the rejoins
(`RejoinsKnown`). That `2^n` is a natural number needs an induction that the prover cannot
do; it is the assumption `PowersAreNat`.

**SendProofs** proves the four safety properties of SendQueue in three layers. `OlmInv`
numbers sessions and keys: what is sealed is behind the stored step of its session,
because the session is stored before the message goes out, so no step is used twice.
`QueueInv` says that the queue, the waiting texts, the book and the send in progress name
the same sends, each once (`BookInv`, `OutInv`, `Slots`, `FlushIdle`), and which rows are
excused by a stop (`UnsentIsShown`); it gives `TypeOK` and `SendSound`. `TimesInv` says
that a text's waiting sends, the send in progress and the records for a re-send are for
different devices and that each is counted below its `sends` (`WaitsApart`, `JobApart`,
`TimesFit`), and that there is one copy for the own devices, made when the relay took the
text (`CopyInv`); it gives `SentOnce`. `Retained` is defined by the rank of an element, so
that it can be reasoned about without recursion.

**InboxProofs** proves that Inbox implements Delivery (`DeliversOnce`), step by step.
The mapping holds because of `CallInv` (what a call in progress knows), `NoCopies` and
`StoreInv`: rows are of what was sent, a row of the history names its message
(`HistoryNames`), one message has one row in it (`OneMessage`), and what is shown is
known to the replay window or excused (`ShownIsKnown`).

Its second part proves that no text is lost (`InboxSound`). Beside the invariant above,
`LossInv` says that messages are numbered once (`OneMessageEach`), that a session's rows
are those that its end wrote (`WrittenRows`), that the call and its records fit
(`Answered`, `RecordsFit`) and that what was read or handled is kept or crossed
(`ReadIsKept`, `HandledIsKept`); `CountInv` and `TriesInv` bound the tries of a copy.

**PairingProofs** proves consent (no slot outlives its session; the joiner is on a list
only after both users typed the code of one rendezvous; a stored grant is on both lists)
from `Core`, what the two devices and the relay know of one rendezvous at each phase,
and `Rest`, what is stored. That an ended rendezvous offers nothing (`Memory`) needs that
the memory of seen offers holds every rendezvous, `MaxRdv <= SeenMax`: a hypothesis of
`PairingStaysSound` and not of consent.

**TranscriptProofs** proves `TranscriptSound` for any sizes of pages and windows. The
hidden hole is followed along `HoleInv`: a row stored during a loss is newer than all
that is held or on the wire before the event of the loss that still waits (`Unread`), and
once that is read it is held, older than all that is held, or comes with an anchor, a
plan and at last a page (`Known`). `PlanInv` says that the page of a plan reaches so far,
which the probe made sure of unless the socket was lost again. `StartInv` rests on the
marks of paging standing for pages that are held, which each trim and each reload
clears; `CursorInv` says that what was read here is read on the server or on its way.

**WindowsProofs** proves `SidebarSound` and `PseudoRowKept` for any channels, networks and
number of pushes that wait. `SidebarSound` speaks of a settled client only; its invariant
`WindowsInv` says of every other state where the queue leads. A push may wait (`Waits`),
stand with nothing behind it that would undo it (`Stands`), or stand before the signal
that registers the topic of a join (`Leads`). For each network (`NetworkInv`) and each
channel, by what Grappa holds of it (`AskedInv`, `JoinedInv`, `EndedInv`, `OutInv`), either
the row shows it and no push that waits takes it away, or the last push about it brings
it. It must say so in the terms of what Grappa holds now, because a list that is read
between two pushes shows a later state than they do; that a report reaches the queue
before the signal for its list, that a refresh keeps the rows that no list shows, and
that a lost push counts as missed are what make it inductive. Lemmas say what reading
the first push, or adding some, does to the three notions; every handler is then a case
of `ReadOwn`, `ReadOther`, `ReadLists`, `ReadStale` or `ReadNetworks`, every step of Grappa
one of `AsideChannel`, `Reported`, `JoinedGone` or `InviteGone`.

The assumptions are those named `ConstantsAssumption`, `SessionConstants`,
`PowersAreNat`, `InboxConstants`, `PairingConstants`, `SendConstants`, `NoneIsApart`,
`IdentityConstants`, `TranscriptConstants` and `WindowsConstants`: types of the constants,
values that are apart, and limits that are not zero. TLC evaluates them in every run.

Attempts at a proof corrected the models: `PairSign` lacked the guard of `build_grant`, the
history variable `missed` of Transcript counted rows that no catch-up of the code is for,
and the cases of `ServerMoves` (Windows) and `RunSlash` (Compose) overlapped, of which TLC
takes the first and the language any.

**Only model-checked**: the other modules of the desktop (Queries, Replies, Links,
LockedChat, SignIn, Uploads, Security, Admin, Settings, Panels, Files, Radio, Compose,
Pacing), whose queues, trees and lists are computed by folds and filters over sequences, about which the prover needs an
induction over data that it cannot do, and all liveness, which rests on fairness and
ENABLED.

## Not modelled

Cryptography is symbolic. JSON, base64, canonical encodings, dates, layout and
wording are left out. The REST client is stateless and appears as the answers it
gives. Colour themes, text formatting, the classification of media, the views of the
E2E history and the calls of the platform for passkeys are pure functions or I/O. The
reasons for each part are in `PROJECT.json`.

## Plan

Next are `ComposeSound`, then `UploadsSound` and `SignInSound`, whose invariants relate few
sequences; the components that are modelled in part are listed
with what is missing in `PROJECT.json`.
