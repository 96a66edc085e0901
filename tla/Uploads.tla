------------------------------ MODULE Uploads ------------------------------
(****************************************************************************)
(* Attachments: the confirmation, the task of every accepted file, the two  *)
(* semaphores, the flag that ends the uploads of a session, and the notice  *)
(* of the videos being shrunk (main.rs, upload.rs, video_processing.rs).    *)
(* Jobs are numbered in the order they are accepted; a job is one tokio     *)
(* task, which runs on another thread than the worker and the UI.           *)
(****************************************************************************)
EXTENDS Naturals, Sequences, FiniteSets, FiniteSetsExt

CONSTANTS
    MaxJobs, MaxSessions,   \* bounds: accepted files, sign-ins
    MaxFiles,               \* bound: files the user picks
    MaxUi,                  \* bound: pushes the UI has not applied yet
    Window,                 \* windows that take a link
    MAX_ACTIVE_UPLOADS, MAX_QUEUED_UPLOADS

VARIABLES
    session,    \* the signed-in session, 0 for none
    sessions,   \* sign-ins so far
    ended,      \* sessions whose CancelFlag is set
    window,     \* current_channel: a Window, "locked", "server" or "none"
    popup,      \* PENDING_UPLOAD
    commands,   \* AttachFile commands the worker has not taken
    picked,     \* files picked so far
    jobs,       \* the tasks, in the order of their start
    slots,      \* free permits of UPLOAD_SLOTS
    queue,      \* free permits of UPLOAD_QUEUE
    reads,      \* jobs whose blocking read runs
    active,     \* ShrinkNoticeTracker::active
    dismissed,  \* ShrinkNoticeTracker::dismissed
    pushes,     \* upgrade_in_event_loop closures not yet run
    status,     \* the status bar
    posted      \* links posted: [job, during]

vars == <<session, sessions, ended, window, popup, commands, picked, jobs, slots, queue, reads,
          active, dismissed, pushes, status, posted>>
uiVars == <<popup, commands, picked>>
noticeVars == <<active, dismissed, pushes, status>>

Job == 1 .. Len(jobs)
Live(j) == jobs[j].at # "ended"
Is_cancelled(j) == jobs[j].of \in ended
At(j, s) == j \in Job /\ jobs[j].at = s
Move(j, s) == jobs' = [jobs EXCEPT ![j].at = s]

-----------------------------------------------------------------------------
(* The notice of the videos being shrunk *)

None == 0
\* The newest job that is not dismissed.
current(a, d) == IF a \ d = {} THEN None ELSE Max(a \ d)
\* Pushed while the tracker's lock is held, so in the order of the changes.
PushNotice(a, d, terminal) == pushes' = Append(pushes, [show |-> current(a, d), terminal |-> terminal])
Text(kind) == [kind |-> kind, id |-> None]
Shrinking(id) == [kind |-> "attach-shrinking", id |-> id]
NewStatusStays(p) ==
    IF p.terminal # "" THEN Text(p.terminal) ELSE IF p.show # None THEN Shrinking(p.show) ELSE status
NewStatus(p) ==
    IF p.terminal # "" THEN Text(p.terminal)
    ELSE IF p.show # None THEN Shrinking(p.show)
    ELSE IF status.kind = "attach-shrinking" THEN Text("") ELSE status
begin_shrink_notice(j) ==
    /\ active' = active \cup {j}
    /\ PushNotice(active', dismissed, "")
    /\ UNCHANGED <<dismissed, status>>
FinishQuiet(j, terminal) ==
    /\ active' = active \ {j} /\ UNCHANGED <<dismissed, status, pushes>>
finish_shrink_notice(j, terminal) ==
    /\ active' = active \ {j} /\ dismissed' = dismissed \ {j}
    /\ PushNotice(active', dismissed', terminal)
    /\ UNCHANGED status

UiRuns ==
    /\ pushes # <<>>
    /\ status' = NewStatus(Head(pushes)) /\ pushes' = Tail(pushes)
    /\ UNCHANGED <<session, sessions, ended, window, uiVars, jobs, slots, queue, reads, active,
                   dismissed, posted>>
\* The user closes the notice that the status bar shows.
Dismiss ==
    /\ status.id # None /\ Len(pushes) < MaxUi
    /\ dismissed' = dismissed \cup ({status.id} \cap active)
    /\ PushNotice(active, dismissed', "")
    /\ UNCHANGED <<session, sessions, ended, window, uiVars, jobs, slots, queue, reads, active,
                   status, posted>>
\* Any other message in the status bar, which the notice does not own.
OtherStatus ==
    /\ status.id # None
    /\ status' = Text("other")
    /\ UNCHANGED <<session, sessions, ended, window, uiVars, jobs, slots, queue, reads, active,
                   dismissed, pushes, posted>>

-----------------------------------------------------------------------------
(* Picking a file *)

\* confirm_and_attach: with the question on, a second file takes the place of
\* the first one in the popup.
confirm_and_attach(ask) ==
    /\ picked < MaxFiles /\ session # 0
    /\ picked' = picked + 1
    /\ IF ask THEN popup' = picked' /\ UNCHANGED commands
              ELSE commands' = Append(commands, picked') /\ UNCHANGED popup
    /\ UNCHANGED <<session, sessions, ended, window, jobs, slots, queue, reads, noticeVars, posted>>
finish_upload_confirm(send) ==
    /\ popup # None
    /\ popup' = None
    /\ commands' = IF send THEN Append(commands, popup) ELSE commands
    /\ UNCHANGED <<session, sessions, ended, window, picked, jobs, slots, queue, reads, noticeVars, posted>>

\* register_attach_callbacks: the file chooser, a dropped file and the popup.
UserPicks(yes) == confirm_and_attach(yes) \/ finish_upload_confirm(yes)

\* handle_attach_file: what the job needs is taken now.
Refused == window \notin Window \/ session = 0 \/ queue = 0
AttachFile(shrink) ==
    /\ commands # <<>>
    /\ commands' = Tail(commands)
    /\ IF Refused THEN UNCHANGED <<jobs, queue, noticeVars>>
       ELSE /\ Len(jobs) < MaxJobs
            /\ jobs' = Append(jobs, [at |-> IF shrink THEN "shrinking" ELSE "staging",
                                     of |-> session, to |-> window])
            /\ queue' = queue - 1
            /\ IF shrink THEN begin_shrink_notice(Len(jobs')) ELSE UNCHANGED noticeVars
    /\ UNCHANGED <<session, sessions, ended, window, popup, picked, slots, reads, posted>>

-----------------------------------------------------------------------------
(* The task of a job *)

TaskOnly == UNCHANGED <<session, sessions, ended, window, uiVars>>
\* Ends the task: its permit of the queue goes back.
EndTask(j) == Move(j, "ended") /\ queue' = queue + 1

\* stage_upload_file runs to its end also when the session has ended.
Staged(j, ok) ==
    /\ At(j, "staging")
    /\ IF ok THEN Move(j, "waiting") /\ UNCHANGED queue ELSE EndTask(j)
    /\ TaskOnly /\ UNCHANGED <<slots, reads, noticeVars, posted>>

\* transcode: between two packets it looks at the flag and reports its percent.
StillEncoding(j) == At(j, "shrinking") /\ ~Is_cancelled(j)
ShrinkProgress(j) ==
    /\ StillEncoding(j) /\ Len(pushes) < MaxUi
    /\ PushNotice(active, dismissed, "")
    /\ TaskOnly /\ UNCHANGED <<jobs, slots, queue, reads, active, dismissed, status, posted>>
\* shrink: a video that did not get smaller, or is over the cap, is an error,
\* and its output directory goes.
ShrinkResult(j, ok) == IF Is_cancelled(j) THEN "cancelled" ELSE IF ok THEN "smaller" ELSE "error"
\* An error is reported and the file is not sent.
Shrunk(j, ok) ==
    /\ At(j, "shrinking")
    /\ finish_shrink_notice(j, IF ShrinkResult(j, ok) = "error" THEN "failed" ELSE "")
    /\ IF ShrinkResult(j, ok) = "smaller" THEN Move(j, "waiting") /\ UNCHANGED queue ELSE EndTask(j)
    /\ TaskOnly /\ UNCHANGED <<slots, reads, posted>>

\* upload_and_post: a slot, then the read on a blocking thread, which owns it.
GetsSlot(j) ==
    /\ At(j, "waiting") /\ ~Is_cancelled(j) /\ slots > 0
    /\ slots' = slots - 1 /\ reads' = reads \cup {j}
    /\ Move(j, "reading")
    /\ TaskOnly /\ UNCHANGED <<queue, noticeVars, posted>>
ReadDone(j, ok) ==
    /\ At(j, "reading") /\ ~Is_cancelled(j)
    /\ reads' = reads \ {j}
    /\ IF ok THEN Move(j, "uploading") /\ UNCHANGED <<slots, queue>>
             ELSE EndTask(j) /\ slots' = slots + 1
    /\ TaskOnly /\ UNCHANGED <<noticeVars, posted>>
\* upload_file: one request, bounded by a timeout, whose answer is a link or an error.
InFlight(j) == At(j, "uploading") /\ ~Is_cancelled(j)
\* An upload that has already expired, or failed, is not announced.
UploadedAnyway(j, ok) ==
    /\ At(j, "uploading")
    /\ IF ok THEN /\ Move(j, "posting") /\ posted' = posted \cup {[job |-> j, during |-> session]}
                  /\ UNCHANGED <<slots, queue>>
             ELSE EndTask(j) /\ slots' = slots + 1 /\ UNCHANGED posted
    /\ TaskOnly /\ UNCHANGED <<reads, noticeVars>>
Uploaded(j, ok) ==
    /\ InFlight(j)
    /\ IF ok THEN /\ Move(j, "posting") /\ posted' = posted \cup {[job |-> j, during |-> session]}
                  /\ UNCHANGED <<slots, queue>>
             ELSE EndTask(j) /\ slots' = slots + 1 /\ UNCHANGED posted
    /\ TaskOnly /\ UNCHANGED <<reads, noticeVars>>
Posted(j) ==
    /\ At(j, "posting") /\ ~Is_cancelled(j)
    /\ EndTask(j) /\ slots' = slots + 1
    /\ TaskOnly /\ UNCHANGED <<reads, noticeVars, posted>>

\* run_unless_cancelled: the flag is looked at first.  A read that runs keeps
\* its slot; the other steps drop theirs with the work.
CancelledFreesSlot(j) ==
    /\ j \in Job /\ jobs[j].at \in {"waiting", "reading", "uploading", "posting"} /\ Is_cancelled(j)
    /\ EndTask(j)
    /\ slots' = IF jobs[j].at = "waiting" THEN slots ELSE slots + 1
    /\ TaskOnly /\ UNCHANGED <<reads, noticeVars, posted>>
Cancelled(j) ==
    /\ j \in Job /\ jobs[j].at \in {"waiting", "reading", "uploading", "posting"} /\ Is_cancelled(j)
    /\ EndTask(j)
    /\ slots' = IF jobs[j].at \in {"uploading", "posting"} THEN slots + 1 ELSE slots
    /\ TaskOnly /\ UNCHANGED <<reads, noticeVars, posted>>
OrphanReadEnds(j) ==
    /\ j \in reads /\ ~Live(j)
    /\ reads' = reads \ {j} /\ slots' = slots + 1
    /\ TaskOnly /\ UNCHANGED <<jobs, queue, noticeVars, posted>>

-----------------------------------------------------------------------------
(* The session *)

CancelShrinksOfNone == UNCHANGED ended
cancel_video_shrinks == ended' = IF session = 0 THEN ended ELSE ended \cup {session}
\* The Disconnect command; the UI clears its status bar at once.
Disconnect ==
    /\ session # 0
    /\ cancel_video_shrinks
    /\ session' = 0 /\ window' = "none" /\ status' = Text("")
    /\ UNCHANGED <<sessions, uiVars, jobs, slots, queue, reads, active, dismissed, pushes, posted>>
\* finish_connect, also over a session that was not signed out.
Connect ==
    /\ sessions < MaxSessions
    /\ cancel_video_shrinks
    /\ sessions' = sessions + 1 /\ session' = sessions'
    /\ window' = "none"
    /\ UNCHANGED <<uiVars, jobs, slots, queue, reads, noticeVars, posted>>
SelectWindow(w) ==
    /\ session # 0 /\ window # w
    /\ window' = w
    /\ UNCHANGED <<session, sessions, ended, uiVars, jobs, slots, queue, reads, noticeVars, posted>>

Init ==
    /\ session = 0 /\ sessions = 0 /\ ended = {} /\ window = "none"
    /\ popup = None /\ commands = <<>> /\ picked = 0
    /\ jobs = <<>> /\ slots = MAX_ACTIVE_UPLOADS /\ queue = MAX_QUEUED_UPLOADS /\ reads = {}
    /\ active = {} /\ dismissed = {} /\ pushes = <<>> /\ status = Text("") /\ posted = {}

TaskStep(j) ==
    \/ \E ok \in BOOLEAN : Staged(j, ok) \/ Shrunk(j, ok) \/ ReadDone(j, ok) \/ Uploaded(j, ok)
    \/ GetsSlot(j) \/ Posted(j) \/ Cancelled(j) \/ OrphanReadEnds(j)
Next ==
    \/ UiRuns \/ Dismiss \/ OtherStatus
    \/ \E b \in BOOLEAN : UserPicks(b) \/ AttachFile(b)
    \/ \E j \in 1 .. MaxJobs : TaskStep(j) \/ ShrinkProgress(j)
    \/ Disconnect \/ Connect \/ \E w \in Window \cup {"locked", "server"} : SelectWindow(w)
Spec == Init /\ [][Next]_vars

-----------------------------------------------------------------------------
Place == {"staging", "shrinking", "waiting", "reading", "uploading", "posting", "ended"}
TypeOK ==
    /\ session \in 0 .. MaxSessions /\ ended \subseteq 1 .. MaxSessions
    /\ window \in Window \cup {"locked", "server", "none"}
    /\ jobs \in Seq([at : Place, of : 1 .. MaxSessions, to : Window])
    /\ slots \in 0 .. MAX_ACTIVE_UPLOADS /\ queue \in 0 .. MAX_QUEUED_UPLOADS
    /\ reads \subseteq Job /\ active \subseteq Job /\ dismissed \subseteq active

(* A link is posted only while the session that accepted its file lasts,     *)
(* whatever the upload was doing when the session ended.                     *)
PostedInItsSession == \A p \in posted : jobs[p.job].of = p.during

(* No more files are read, uploaded and posted at once than there are slots, *)
(* the reads of cancelled uploads included, and no permit is lost.           *)
Busy == {j \in Job : jobs[j].at \in {"uploading", "posting"}} \cup reads
PermitsKept ==
    /\ slots + Cardinality(Busy) = MAX_ACTIVE_UPLOADS
    /\ queue + Cardinality({j \in Job : Live(j)}) = MAX_QUEUED_UPLOADS

(* When the UI has caught up, a shrinking notice is of a video that is still *)
(* being shrunk, that the user did not dismiss, and is the newest of these.  *)
NoticeIsLive == pushes = <<>> /\ status.id # None => status.id = current(active, dismissed)

(* The link, the permits and the notice together.                            *)
UploadsSound == PostedInItsSession /\ PermitsKept /\ NoticeIsLive

============================================================================
