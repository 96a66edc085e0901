------------------------------- MODULE Files --------------------------------
(***************************************************************************)
(* The files on this device: settings.json and servers.json, their move    *)
(* from the folder of older versions to the standard one, the credentials  *)
(* and the log.  The UI thread and the worker both load a file, change     *)
(* what is theirs and save the whole; the process may crash at any point   *)
(* and the file system may refuse any operation.                           *)
(*                                                                         *)
(* The content of a file is what each thread last put in it, or Bad, text  *)
(* that does not parse.                                                    *)
(***************************************************************************)
EXTENDS Naturals, FiniteSets

CONSTANTS File, None, Bad, MaxEvents, LogMax, LogCheckEvery

Thread == {"ui", "worker"}
Dir == {"old", "new"}
Name == File \X {"live", "corrupt"}
Default == [t \in Thread |-> 0]
Content == [Thread -> 0..MaxEvents] \union {Bad}

VARIABLES
    part,
    disk, oldDir,               \* the files of each folder; whether the old folder exists
    phase, use, legacy,         \* the run: off, copying, removing or up; the folder in use; whether the old one is read too
    left, made, checked,        \* the move: files to copy, copies written, old files whose copy is complete
    th,                         \* the threads in a load, change and save
    keyring, fallback, avail,   \* a bearer in each store; whether the keyring answers
    log, prev, writes,          \* lines of the log and of the one before; lines of this run
    events,
    saved,                      \* history: what each thread saved last
    damaged,                    \* history: files that were damaged by hand
    bearer,                     \* history: the bearer remembered last
    excuse                      \* history: what happened that the properties leave out

config == <<disk, oldDir, phase, use, legacy, left, made, checked, th, saved, damaged>>
secrets == <<keyring, fallback, avail, bearer>>
logs == <<log, prev, writes>>
vars == <<part, config, secrets, logs, events, excuse>>

Idle == [at |-> "idle", file |-> None, copy |-> Default, base |-> None]

Init ==
    /\ part \in {"config", "secrets", "log"}
    /\ disk \in [Dir -> {[n \in Name |-> None], [n \in Name |-> IF n[2] = "live" THEN Default ELSE None]}]
    /\ disk["new"] = [n \in Name |-> None] /\ oldDir = (disk["old"] # disk["new"])
    /\ phase = "off" /\ use = "new" /\ legacy = FALSE
    /\ left = {} /\ made = {} /\ checked = {}
    /\ th = [t \in Thread |-> Idle]
    /\ keyring = None /\ fallback = None /\ avail \in BOOLEAN
    /\ log = 0 /\ prev = 0 /\ writes = 0
    /\ events = 0
    /\ saved = [f \in File |-> Default] /\ damaged = {} /\ bearer = None /\ excuse = {}

TypeOK ==
    /\ disk \in [Dir -> [Name -> Content \union {None}]]
    /\ phase \in {"off", "copying", "removing", "up"} /\ use \in Dir
    /\ made \subseteq Name /\ checked \subseteq Name /\ left \subseteq Name
    /\ \A t \in Thread : th[t].at \in {"idle", "loaded", "writing"}

-----------------------------------------------------------------------------
Event == events < MaxEvents /\ events' = events + 1
Outcome(ok) == IF ok THEN UNCHANGED events ELSE Event
Excused(why) == excuse' = excuse \union why

-----------------------------------------------------------------------------
(* resolve and migrate_legacy: every file is copied and read back before any  *)
(* of the old ones goes.                                                      *)

Start ==
    /\ part = "config" /\ phase = "off"
    /\ IF oldDir THEN phase' = "copying" /\ left' = Name ELSE phase' = "up" /\ left' = {}
    /\ use' = "new" /\ legacy' = FALSE /\ made' = {} /\ checked' = {}
    /\ UNCHANGED <<part, disk, oldDir, th, saved, damaged, secrets, logs, events, excuse>>

\* A mutant: the copies that were made stay.
RolledBackNot == disk["new"]

\* A failure takes back the copies of this run.
RolledBack == [n \in Name |-> IF n \in made THEN None ELSE disk["new"][n]]

\* MIGRATED_FILES: a fixed order.
NextOf(names) == CHOOSE n \in names : TRUE

\* One file of copy_legacy_files.
Copy(n) ==
    /\ phase = "copying" /\ left # {} /\ n = NextOf(left) /\ left' = left \ {n}
    /\ LET from == disk["old"][n]
           to == disk["new"][n]
       IN /\ disk' = (IF from # None /\ to = None THEN [disk EXCEPT !["new"][n] = from] ELSE disk)
          /\ made' = (IF from # None /\ to = None THEN made \union {n} ELSE made)
          /\ checked' = (IF from # None /\ to \in {None, from} THEN checked \union {n} ELSE checked)
    /\ UNCHANGED <<part, oldDir, phase, use, legacy, th, saved, damaged, secrets, logs, events, excuse>>

\* The old folder stays in use.
CopyFails(n) ==
    /\ phase = "copying" /\ left # {} /\ n = NextOf(left) /\ disk["old"][n] # None /\ Event
    /\ disk' = [disk EXCEPT !["new"] = RolledBack]
    /\ phase' = "up" /\ use' = "old" /\ left' = {} /\ made' = {} /\ checked' = {}
    /\ Excused(IF \E m \in Name \ made : disk["new"][m] # None THEN {"moved-back"} ELSE {})
    /\ UNCHANGED <<part, oldDir, legacy, th, saved, damaged, secrets, logs>>

Copied ==
    /\ phase = "copying" /\ left = {} /\ phase' = "removing"
    /\ UNCHANGED <<part, disk, oldDir, use, legacy, left, made, checked, th, saved, damaged, secrets, logs, events, excuse>>

Remove(n, ok) ==
    /\ phase = "removing" /\ checked # {} /\ n = NextOf(checked) /\ checked' = checked \ {n} /\ Outcome(ok)
    /\ disk' = (IF ok THEN [disk EXCEPT !["old"][n] = None] ELSE disk)
    /\ UNCHANGED <<part, oldDir, phase, use, legacy, left, made, th, saved, damaged, secrets, logs, excuse>>

\* The old folder goes when it is empty; in this run it is read either way.
Settle ==
    /\ phase = "removing" /\ checked = {} /\ phase' = "up" /\ legacy' = TRUE
    /\ oldDir' = (\E n \in Name : disk["old"][n] # None)
    /\ UNCHANGED <<part, disk, use, left, made, checked, th, saved, damaged, secrets, logs, events, excuse>>

-----------------------------------------------------------------------------
(* load_json, a change, save_json. *)

\* read_path.
ReadDir(f) == IF legacy /\ disk[use][<<f, "live">>] = None /\ disk["old"][<<f, "live">>] # None THEN "old" ELSE use
Current(f) == disk[ReadDir(f)][<<f, "live">>]
ValueOf(content) == IF content \in {None, Bad} THEN Default ELSE content

\* The copy that a thread holds until it saves or gives up.
Loaded(t, f, copy, base) == th' = [th EXCEPT ![t] = [at |-> "loaded", file |-> f, copy |-> copy, base |-> base]]

Load(t, f) ==
    /\ phase = "up" /\ th[t] = Idle /\ Event /\ Current(f) # Bad
    /\ Loaded(t, f, ValueOf(Current(f)), Current(f))
    /\ UNCHANGED <<part, disk, oldDir, phase, use, legacy, left, made, checked, saved, damaged, secrets, logs, excuse>>

\* A mutant: what does not parse stays where it is.
QuarantinedNot(f, d) == disk

\* quarantine_corrupt.
Quarantined(f, d) == [disk EXCEPT ![d][<<f, "corrupt">>] = disk[d][<<f, "live">>], ![d][<<f, "live">>] = None]

\* Most callers go on with the default; save_passkey_origin_override gives up (strict).
GoesOn(t, f, base, strict) == IF strict THEN UNCHANGED th ELSE Loaded(t, f, Default, base)

\* What does not parse is set aside.
LoadBad(t, f, aside, strict) ==
    /\ phase = "up" /\ th[t] = Idle /\ Event /\ Current(f) = Bad
    /\ disk' = (IF aside THEN Quarantined(f, ReadDir(f)) ELSE disk)
    /\ GoesOn(t, f, IF aside THEN disk'[use][<<f, "live">>] ELSE Bad, strict)
    /\ Excused({"damage"} \union IF aside THEN {} ELSE {"blocked"})
    /\ UNCHANGED <<part, oldDir, phase, use, legacy, left, made, checked, saved, damaged, secrets, logs>>

\* A file that cannot be read is taken for the default too.
LoadFails(t, f) ==
    /\ phase = "up" /\ th[t] = Idle /\ Event /\ Current(f) # None
    /\ Loaded(t, f, Default, Current(f)) /\ Excused({"unreadable"})
    /\ UNCHANGED <<part, disk, oldDir, phase, use, legacy, left, made, checked, saved, damaged, secrets, logs>>

\* Nothing to change, or the request that it depends on failed.
Abandon(t) ==
    /\ th[t].at = "loaded" /\ th' = [th EXCEPT ![t] = Idle]
    /\ UNCHANGED <<part, disk, oldDir, phase, use, legacy, left, made, checked, saved, damaged, secrets, logs, events, excuse>>

\* A mutant: the data goes straight to the file.
WrittenInPlace(f) == [disk EXCEPT ![use][<<f, "live">>] = Bad]

\* write_synced: a file of its own next to the target.
Written(f) == disk

\* A callback puts its own value in the copy, and leaves the rest as it was loaded.
Change(t) == [th[t].copy EXCEPT ![t] = events]

WriteTemp(t) ==
    /\ th[t].at = "loaded" /\ th' = [th EXCEPT ![t].at = "writing", ![t].copy = Change(t)]
    /\ disk' = Written(th[t].file)
    /\ UNCHANGED <<part, oldDir, phase, use, legacy, left, made, checked, saved, damaged, secrets, logs, events, excuse>>

\* write_atomic_with: the rename; a failed save changes nothing and is not told.
Rename(t, ok) ==
    /\ th[t].at = "writing" /\ Outcome(ok)
    /\ LET f == th[t].file
           now == disk[use][<<f, "live">>]
       IN IF ok
          THEN /\ disk' = [disk EXCEPT ![use][<<f, "live">>] = th[t].copy]
               /\ saved' = [saved EXCEPT ![f][t] = th[t].copy[t]]
               /\ Excused(IF now = th[t].base \/ (now = Bad /\ f \notin damaged) \/ (now = None /\ ReadDir(f) # use) THEN {} ELSE {"race"})
          ELSE UNCHANGED <<disk, saved, excuse>>
    /\ th' = [th EXCEPT ![t] = Idle]
    /\ UNCHANGED <<part, oldDir, phase, use, legacy, left, made, checked, damaged, secrets, logs>>

\* The file is edited by hand.
Damage(f) ==
    /\ part = "config" /\ phase \in {"off", "up"} /\ Event /\ Current(f) \notin {None, Bad}
    /\ disk' = [disk EXCEPT ![ReadDir(f)][<<f, "live">>] = Bad]
    /\ damaged' = damaged \union {f} /\ Excused({"damage"})
    /\ UNCHANGED <<part, oldDir, phase, use, legacy, left, made, checked, th, saved, secrets, logs>>

\* A version that knows only the old folder runs.
OlderVersion(f) ==
    /\ part = "config" /\ phase = "off" /\ Event /\ disk["old"][<<f, "live">>] # Bad
    /\ disk' = [disk EXCEPT !["old"][<<f, "live">>] = [t \in Thread |-> events]]
    /\ oldDir' = TRUE /\ Excused({"older"})
    /\ UNCHANGED <<part, phase, use, legacy, left, made, checked, th, saved, damaged, secrets, logs>>

Crash ==
    /\ part = "config" /\ phase # "off" /\ Event
    /\ phase' = "off" /\ left' = {} /\ made' = {} /\ checked' = {} /\ th' = [t \in Thread |-> Idle]
    /\ UNCHANGED <<part, disk, oldDir, use, legacy, saved, damaged, secrets, logs, excuse>>

-----------------------------------------------------------------------------
(* The bearer of a profile.  Every call picks the keyring if it answers, the  *)
(* file otherwise.                                                            *)

\* resolve_credential_store.
Stored == IF avail THEN keyring ELSE fallback
Puts(b) == IF avail THEN keyring' = b /\ UNCHANGED fallback ELSE fallback' = b /\ UNCHANGED keyring

\* set_secret and delete_secret: the callers do not ask whether it worked.
SetSecret(b, ok) ==
    /\ part = "secrets" /\ Event
    /\ IF ok THEN Puts(b) ELSE UNCHANGED <<keyring, fallback>>
    /\ bearer' = b /\ Excused(IF ok THEN {} ELSE {"store-failed"})
    /\ UNCHANGED <<part, avail, config, logs>>

\* The keyring starts, stops or is locked.
KeyringChanges ==
    /\ part = "secrets" /\ Event /\ avail' = ~avail
    /\ Excused(IF fallback = None /\ keyring = None THEN {} ELSE {"other-store"})
    /\ UNCHANGED <<part, keyring, fallback, bearer, config, logs>>

-----------------------------------------------------------------------------
(* The log. *)

\* A mutant: the size is checked on the first write only.
SizeCheckedOnce == writes = 0

\* size_check_due: the first line of a run, then one of LogCheckEvery.
SizeCheckDue == writes % LogCheckEvery = 0

\* log_line_to: the size is checked on some of the writes only.
LogLine ==
    /\ part = "log" /\ Event
    /\ LET rotate == SizeCheckDue /\ log > LogMax IN
       /\ prev' = (IF rotate THEN log ELSE prev)
       /\ log' = (IF rotate THEN 1 ELSE log + 1)
    /\ writes' = writes + 1
    /\ UNCHANGED <<part, config, secrets, excuse>>

NextRun ==
    /\ part = "log" /\ writes > 0 /\ writes' = 0
    /\ UNCHANGED <<part, config, secrets, log, prev, events, excuse>>

-----------------------------------------------------------------------------
Move == Start \/ Copied \/ Settle \/ \E n \in Name : Copy(n) \/ CopyFails(n) \/ \E ok \in BOOLEAN : Remove(n, ok)
Threads ==
    \E t \in Thread :
       \/ Abandon(t) \/ WriteTemp(t) \/ \E ok \in BOOLEAN : Rename(t, ok)
       \/ \E f \in File : Load(t, f) \/ LoadFails(t, f) \/ \E aside, strict \in BOOLEAN : LoadBad(t, f, aside, strict)
Next ==
    \/ Move \/ Threads \/ Crash \/ KeyringChanges \/ LogLine \/ NextRun
    \/ \E f \in File : Damage(f) \/ OlderVersion(f)
    \/ \E b \in {None, "first", "second"}, ok \in BOOLEAN : SetSecret(b, ok)
Spec == Init /\ [][Next]_vars

-----------------------------------------------------------------------------
Resumes(allowed) ==
    phase = "up" /\ excuse \subseteq allowed =>
        \A f \in File : \A t \in Thread : ValueOf(Current(f))[t] = saved[f][t]

(* A move to the standard folder that crashes, fails or is repeated, and a    *)
(* save that crashes, lose nothing: a run that is up reads what was saved     *)
(* last, and no crash leaves half of a file.                                  *)
ResumesLast == Resumes({})

(* "So the default the callers fall back to is not saved over the only copy": *)
(* a file that somebody damaged is still there, in its place or set aside.    *)
DamagedKept ==
    "blocked" \notin excuse /\ "unreadable" \notin excuse /\ "race" \notin excuse =>
        \A f \in damaged : \E d \in Dir, kind \in {"live", "corrupt"} : disk[d][<<f, kind>>] = Bad

(* The bearer that is read is the one remembered last, and a forgotten one is *)
(* gone, while the same store answers.                                        *)
BearerIsLast == excuse = {} => Stored = bearer

(* "The two stay under about twice this": the log passes its limit by no more *)
(* than the lines between two checks, over any number of runs.                *)
LogBounded == log <= LogMax + LogCheckEvery /\ prev <= LogMax + LogCheckEvery

(* A setting that was saved stays saved until its own thread changes it, like *)
(* a Denoise choice that is "sent again at the next sign-in".                 *)
SettingKept == Resumes({"race"})

=============================================================================
