------------------------------- MODULE Radio --------------------------------
(***************************************************************************)
(* The radio: the worker's tuned station, the audio thread that owns the   *)
(* output device, and for each tune a network thread that reads the        *)
(* stream, a decoder thread and the source the device pulls from, joined   *)
(* by two bounded channels.  The now-playing feed is read by a task of the *)
(* worker.  Every tune has a generation, and all reports carry it.         *)
(*                                                                         *)
(* A chunk of bytes decodes to one block of samples.                       *)
(***************************************************************************)
EXTENDS Naturals, Sequences, FiniteSets

CONSTANTS Station, FedStation, Upload, None, BYTE_CHUNKS, SAMPLE_BLOCKS, MaxTunes, MaxReports

VARIABLES
    generation, tuned, poll,    \* RadioState; poll is the generation its task reads for
    nowPlaying,                 \* RADIO_NOW_PLAYING
    commands,                   \* to the audio thread
    device, current,            \* the audio thread
    stream,                     \* the threads of each tune
    inbox,                      \* reports to the worker, in order
    reports                     \* bound: titles and tracks reported

worker == <<generation, tuned, poll, nowPlaying>>
vars == <<worker, commands, device, current, stream, inbox, reports>>

Gen == 1..MaxTunes
Playable == Station \union Upload
NoStream == [key |-> None, net |-> "done", bytes |-> 0, dec |-> "done", samples |-> 0,
             source |-> "none", cancelled |-> TRUE]

Init ==
    /\ generation = 0 /\ tuned = None /\ poll = None /\ nowPlaying = None
    /\ commands = <<>> /\ device \in BOOLEAN /\ current = None
    /\ stream = [g \in Gen |-> NoStream]
    /\ inbox = <<>> /\ reports = 0

TypeOK ==
    /\ generation \in 0..MaxTunes
    /\ tuned # None => tuned.key \in Playable /\ tuned.upload = (tuned.key \in Upload)
    /\ nowPlaying # None => nowPlaying.station \in Station
    /\ current \in Gen \union {None} /\ poll \in Gen \union {None}
    /\ \A g \in Gen :
        /\ stream[g].net \in {"opening", "reading", "waiting", "sending", "done"}
        /\ stream[g].dec \in {"probing", "decoding", "sending", "done"}
        /\ stream[g].bytes \in 0..BYTE_CHUNKS /\ stream[g].samples \in 0..SAMPLE_BLOCKS
        /\ stream[g].source \in {"none", "attached", "dropped"}

-----------------------------------------------------------------------------
(* The worker. *)

\* push_radio_now: an audio file is not what /np tells.
NowOf(t) ==
    IF t = None \/ (t # None /\ t.upload) THEN None
    ELSE [station |-> t.key, hasFeed |-> t.source, track |-> t.track, title |-> t.title]

Tuned(key) ==
    [key |-> key, source |-> key \in FedStation, upload |-> key \in Upload,
     track |-> None, title |-> None, status |-> "connecting"]

Push(t) == tuned' = t /\ nowPlaying' = NowOf(t)

Play(key) ==
    /\ generation < MaxTunes /\ generation' = generation + 1
    /\ commands' = Append(commands, [op |-> "play", key |-> key, gen |-> generation + 1])
    /\ Push(Tuned(key))
    /\ UNCHANGED <<device, current, stream, inbox, reports>>

\* tune_radio: a station with a feed starts the task that reads it.
Tune(key) == key \in Station /\ poll' = (IF key \in FedStation THEN generation + 1 ELSE None) /\ Play(key)

\* play_audio_link
PlayAudioLink(key) == key \in Upload /\ poll' = None /\ Play(key)

\* RadioStop, and signing out.
Stop ==
    /\ tuned # None /\ generation < MaxTunes /\ generation' = generation + 1
    /\ poll' = None
    /\ commands' = Append(commands, [op |-> "stop", key |-> None, gen |-> 0])
    /\ Push(None)
    /\ UNCHANGED <<device, current, stream, inbox, reports>>

\* A mutant: what an old tune reports is taken.
IsCurrentAny(g) == tuned # None

\* The guard of handle_radio_event and of RadioTrack.
IsCurrent(g) == generation = g /\ tuned # None

\* handle_radio_event and RadioTrack.
After(t, event) ==
    CASE event.kind = "playing" -> [t EXCEPT !.status = "playing"]
      [] event.kind = "title" -> [t EXCEPT !.title = event.of]
      [] event.kind = "failed" -> [t EXCEPT !.status = "failed"]
      [] event.kind = "ended" -> [t EXCEPT !.status = IF t.upload THEN "finished" ELSE "ended"]
      [] event.kind = "track" -> [t EXCEPT !.track = event.of]
      [] OTHER -> t

HandleReport ==
    /\ inbox # <<>> /\ inbox' = Tail(inbox)
    /\ IF IsCurrent(Head(inbox).gen)
       THEN Push(After(tuned, Head(inbox))) ELSE UNCHANGED <<tuned, nowPlaying>>
    /\ UNCHANGED <<generation, poll, commands, device, current, stream, reports>>

\* The task: a track, or no usable answer.
Poll ==
    /\ poll # None /\ reports < MaxReports /\ reports' = reports + 1
    /\ \E kind \in {"track", "nothing"} :
        inbox' = Append(inbox, [gen |-> poll, kind |-> kind, of |-> tuned.key])
    /\ UNCHANGED <<worker, commands, device, current, stream>>

-----------------------------------------------------------------------------
(* The audio thread. *)

\* A mutant: the handles of the running stream are dropped, and it goes on.
StopCurrentForgets(s) == s

\* stop_current: the flag for the threads, and the device lets go of the source.
StopCurrent(s) ==
    IF current = None THEN s
    ELSE [s EXCEPT ![current].cancelled = TRUE,
                   ![current].source = IF @ = "attached" THEN "dropped" ELSE @]

Started(key) ==
    [key |-> key, net |-> "opening", bytes |-> 0, dec |-> "probing", samples |-> 0,
     source |-> "none", cancelled |-> FALSE]

DoPlay ==
    /\ commands # <<>> /\ Head(commands).op = "play" /\ commands' = Tail(commands)
    /\ LET c == Head(commands) IN
        IF device
        THEN /\ stream' = [StopCurrent(stream) EXCEPT ![c.gen] = Started(c.key)]
             /\ current' = c.gen
             /\ UNCHANGED inbox
        ELSE /\ stream' = StopCurrent(stream) /\ current' = None
             /\ inbox' = Append(inbox, [gen |-> c.gen, kind |-> "failed", of |-> c.key])
    /\ UNCHANGED <<worker, device, reports>>

DoStop ==
    /\ commands # <<>> /\ Head(commands).op = "stop" /\ commands' = Tail(commands)
    /\ stream' = StopCurrent(stream) /\ current' = None
    /\ UNCHANGED <<worker, device, inbox, reports>>

-----------------------------------------------------------------------------
(* The threads of a stream. *)

Set(g, s) == stream' = [stream EXCEPT ![g] = s] /\ UNCHANGED <<worker, commands, device, current>>
Say(g, kind) == inbox' = Append(inbox, [gen |-> g, kind |-> kind, of |-> stream[g].key])
Report(g, kind) == Say(g, kind) /\ UNCHANGED reports
Quiet == UNCHANGED <<inbox, reports>>

\* RadioStream::open: refused, failed or timed out, or open.
Open(g) ==
    LET s == stream[g] IN
    /\ s.net = "opening"
    /\ \/ Set(g, [s EXCEPT !.net = "reading"]) /\ Quiet
       \/ Set(g, [s EXCEPT !.net = "done"]) /\ Report(g, "failed")

CheckCancelled(g) ==
    LET s == stream[g] IN
    /\ s.net = "reading" /\ Quiet
    /\ Set(g, [s EXCEPT !.net = IF s.cancelled THEN "done" ELSE "waiting"])

\* The server's next chunk: audio, audio and a title, the end or an error.
ServerSends(g) ==
    LET s == stream[g] IN
    /\ s.net = "waiting"
    /\ \/ Set(g, [s EXCEPT !.net = "sending"]) /\ Quiet
       \/ Set(g, [s EXCEPT !.net = "reading"])
          /\ reports < MaxReports /\ reports' = reports + 1 /\ Say(g, "title")
       \/ Set(g, [s EXCEPT !.net = "done"]) /\ Report(g, "ended")
       \/ Set(g, [s EXCEPT !.net = "done"])
          /\ IF s.cancelled THEN Quiet ELSE Report(g, "failed")

\* A mutant: a full channel is tried again, also when nobody reads it.
SendBytesAnyway(g) ==
    LET s == stream[g] IN
    /\ s.net = "sending" /\ s.bytes < BYTE_CHUNKS
    /\ Set(g, [s EXCEPT !.net = "reading", !.bytes = @ + 1]) /\ Quiet

\* bytes.send: waits for room, fails when the decoder is gone.
SendBytes(g) ==
    LET s == stream[g] IN
    /\ s.net = "sending" /\ Quiet
    /\ \/ s.dec = "done" /\ Set(g, [s EXCEPT !.net = "done"])
       \/ s.dec # "done" /\ s.bytes < BYTE_CHUNKS
          /\ Set(g, [s EXCEPT !.net = "reading", !.bytes = @ + 1])

\* DecoderBuilder::build reads the first bytes.
Probe(g) ==
    LET s == stream[g]
        got == s.bytes > 0
    IN  /\ s.dec = "probing" /\ (got \/ s.net = "done")
        /\ \/ got /\ Set(g, [s EXCEPT !.bytes = @ - 1, !.dec = "decoding", !.source = "attached"])
              /\ Report(g, "playing")
           \/ Set(g, [s EXCEPT !.bytes = 0, !.dec = "done"])
              /\ IF s.cancelled THEN Quiet ELSE Report(g, "failed")

\* The next block; the end of the bytes or data it cannot decode ends the decoder.
Decode(g) ==
    LET s == stream[g] IN
    /\ s.dec = "decoding" /\ Quiet
    /\ \/ s.bytes > 0 /\ Set(g, [s EXCEPT !.bytes = @ - 1, !.dec = "sending"])
       \/ s.net = "done" /\ s.bytes = 0 /\ Set(g, [s EXCEPT !.dec = "done"])
       \/ s.bytes > 0 /\ Set(g, [s EXCEPT !.bytes = 0, !.dec = "done"])

\* samples_tx.send: waits for room, fails when the source is gone.
SendSamples(g) ==
    LET s == stream[g] IN
    /\ s.dec = "sending" /\ Quiet
    /\ \/ (s.cancelled \/ s.source = "dropped") /\ Set(g, [s EXCEPT !.bytes = 0, !.dec = "done"])
       \/ ~s.cancelled /\ s.source = "attached" /\ s.samples < SAMPLE_BLOCKS
          /\ Set(g, [s EXCEPT !.samples = @ + 1, !.dec = "decoding"])

\* LiveSource::next: silence while the decoder is behind, the end once it is gone.
Pull(g) ==
    LET s == stream[g] IN
    /\ s.source = "attached" /\ Quiet
    /\ \/ s.samples > 0 /\ Set(g, [s EXCEPT !.samples = @ - 1])
       \/ s.samples = 0 /\ s.dec = "done" /\ Set(g, [s EXCEPT !.source = "dropped"])

\* What the threads of this program do by themselves; the server is not one of them.
ThreadStep(g) == Open(g) \/ CheckCancelled(g) \/ SendBytes(g) \/ Probe(g) \/ Decode(g) \/ SendSamples(g) \/ Pull(g)

Next ==
    \/ \E k \in Station : Tune(k)
    \/ \E k \in Upload : PlayAudioLink(k)
    \/ Stop \/ HandleReport \/ Poll \/ DoPlay \/ DoStop
    \/ \E g \in Gen : ThreadStep(g) \/ ServerSends(g)

Spec == Init /\ [][Next]_vars

-----------------------------------------------------------------------------
(* Properties *)

\* What the bar and /np show is of the station that is on: a report of the
\* station before it, still on its way to the worker at the tune, is dropped
\* (the generation of handle_radio_event and RadioTrack).
TrackOfStation ==
    tuned # None => tuned.track \in {None, tuned.key} /\ tuned.title \in {None, tuned.key}

\* Once the audio thread has done what it was told, nothing is heard but what
\* is tuned: a stream that runs uncancelled is the one of this tune.
HeardIsTuned ==
    commands = <<>> => \A g \in Gen : ~stream[g].cancelled => tuned # None /\ g = generation

\* Tuning another station or stopping winds the threads down: a cancelled
\* stream waits for nothing but its server.  A full channel does not hold a
\* thread whose reader is gone.
WindsDown ==
    \A g \in Gen : stream[g].cancelled /\ (stream[g].net # "done" \/ stream[g].dec # "done")
                    => stream[g].net = "waiting" \/ ENABLED ThreadStep(g)

\* What is heard and shown is of the station that is tuned, and a stream that
\* was left comes to its end; with the types.
RadioSound == TypeOK /\ TrackOfStation /\ HeardIsTuned /\ WindsDown

\* A file that shows as "finished" was played to its end: nothing of it is
\* still on its way to the device (TunedRadio::status).
FinishedWasPlayed ==
    tuned # None /\ tuned.status = "finished" /\ current = generation
        => stream[generation].bytes = 0 /\ stream[generation].samples = 0
=============================================================================
