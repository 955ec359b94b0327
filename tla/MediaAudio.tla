----------------------------- MODULE MediaAudio -----------------------------
(***************************************************************************)
(* The audio of one meeting in the media service B: frames of the people     *)
(* go to recordings and voice activity detection, utterances are             *)
(* transcribed and answered one at a time, the answers of the proxy X are    *)
(* played, and END closes everything into a transcript.                      *)
(*                                                                           *)
(* The event loop runs one step at a time between two awaits.  A turn is the *)
(* task of process_utterance for one utterance.  Times and texts are left    *)
(* out; what an utterance says is its number.                                *)
(***************************************************************************)
EXTENDS Naturals, Sequences, FiniteSets, SequencesExt

CONSTANTS
    Speakers,           \* the people whose tracks B listens to
    ProxyEnabled,       \* whether X answers in this meeting
    Chunks,             \* audio chunks of an answer
    QueueSize,          \* chunks the audio source holds before capture_frame waits
    MaxTurns,           \* bound: utterances
    MaxAudioFaults,     \* bound: provider calls that fail, and crashes
    MaxAudioCrashes     \* bound: crashes of B

ASSUME MediaAudioAssumption ==
    /\ "proxy" \notin Speakers /\ IsFiniteSet(Speakers)
    /\ ProxyEnabled \in BOOLEAN
    /\ Chunks \in Nat \ {0} /\ QueueSize \in Nat \ {0}
    /\ MaxTurns \in Nat /\ MaxAudioFaults \in Nat /\ MaxAudioCrashes \in Nat

VARIABLES
    router,         \* the session of the router: "absent", "open", or how far END is
    detector,       \* voice activity of each speaker: "quiet", "short", "long"
    recorder,       \* recorder of each track: "none", "open", "closed"
    turns,          \* the tasks of process_utterance, in the order they were made
    inflight,       \* the turn whose chunk is on its way to the audio source, or 0
    playing,        \* turns of the chunks the audio source holds
    segments,       \* rows of the transcript: <<speaker, turn>>
    transcript,     \* the transcript artifact: {}, or the one list of segments it holds
    pending,        \* END: the turns it waits for
    unheard,        \* END: speakers without any segment, still to be recovered
    failed,         \* END: whether first_error is set
    ended,          \* outcome of END or STOP: "no", "ok", "error", "cancelled"
    lateChunks,     \* history: for each turn, chunks heard after its barge-in
    uttered,        \* history: utterances each speaker made that are long enough
    wiped,          \* history: tracks whose file was opened over a recording
    audioFaults, audioCrashes       \* history, bounded

turnVars == <<turns, inflight, playing, lateChunks>>
endVars == <<pending, unheard, failed, ended>>
audioVars == <<router, detector, recorder, turnVars, segments, transcript,
               endVars, uttered, wiped, audioFaults, audioCrashes>>

Tracks == Speakers \cup {"proxy"}
Stages == {"asr", "llm", "tts", "told", "done"}

AudioInit ==
    /\ router = "open"
    /\ detector = [s \in Speakers |-> "quiet"]
    /\ recorder = [t \in Tracks |-> "none"]
    /\ turns = <<>> /\ inflight = 0 /\ playing = <<>> /\ lateChunks = <<>>
    /\ segments = <<>> /\ transcript = {}
    /\ pending = {} /\ unheard = {} /\ failed = FALSE /\ ended = "no"
    /\ uttered = [s \in Speakers |-> 0]
    /\ wiped = {} /\ audioFaults = 0 /\ audioCrashes = 0

-----------------------------------------------------------------------------
(* Turns.                                                                    *)

NewTurn(s, ask) == [who |-> s, ask |-> ask, at |-> "asr", left |-> 0,
                    cut |-> FALSE, error |-> FALSE]

(* Mutant: process_utterance without the lock. *)
HasLock_Always(u) == TRUE

\* asyncio.Lock is fair: the turns of a session hold it in the order they were made.
HasLock(u) == \A v \in 1..(u - 1) : turns[v].at = "done"

At(u, stage) == turns[u].at = stage /\ HasLock(u)

MayFail == audioFaults < MaxAudioFaults

(* Mutant: a recorder in a state of its own. *)
Opened_Unnamed(t) ==
    /\ recorder' = [recorder EXCEPT ![t] = "new"]
    /\ wiped' = IF recorder[t] = "closed" THEN wiped \cup {t} ELSE wiped

\* publish_proxy_audio opens the recording of X when the first chunk is out.
Opened(t) ==
    /\ recorder' = [recorder EXCEPT ![t] = "open"]
    /\ wiped' = IF recorder[t] = "closed" THEN wiped \cup {t} ELSE wiped

-----------------------------------------------------------------------------
(* The frames of the people.                                                 *)

(* Mutant: the queue of the source is not cleared. *)
BargeIn_KeepsQueue ==
    LET speaking == {u \in DOMAIN turns : turns[u].at = "tts" /\ ~turns[u].cut}
    IN  IF speaking = {} THEN UNCHANGED <<turns, playing>>
        ELSE /\ turns' = [u \in DOMAIN turns |->
                            [turns[u] EXCEPT !.cut = @ \/ u \in speaking]]
             /\ UNCHANGED playing

\* interrupt: the task that speaks is cancelled, its generation is marked and
\* the queue of the source is cleared, in one step of the event loop.
BargeIn ==
    LET speaking == {u \in DOMAIN turns : turns[u].at = "tts" /\ ~turns[u].cut}
    IN  IF speaking = {} THEN UNCHANGED <<turns, playing>>
        ELSE /\ turns' = [u \in DOMAIN turns |->
                            [turns[u] EXCEPT !.cut = @ \/ u \in speaking]]
             /\ playing' = <<>>

\* The first frame of a track opens its recording, whether or not it is speech.
FirstFrame(s) ==
    /\ router = "open" /\ recorder[s] # "open"
    /\ Opened(s)
    /\ UNCHANGED <<router, detector, turnVars, segments, transcript, endVars, uttered,
                   audioFaults, audioCrashes>>

SpeechStarts(s) ==
    /\ router = "open" /\ recorder[s] = "open" /\ detector[s] = "quiet"
    /\ Len(turns) < MaxTurns
    /\ detector' = [detector EXCEPT ![s] = "short"]
    /\ BargeIn
    /\ UNCHANGED <<router, recorder, inflight, lateChunks, segments, transcript, endVars,
                   uttered, wiped, audioFaults, audioCrashes>>

SpeechGoesOn(s) ==
    /\ router = "open" /\ detector[s] = "short"
    /\ Len(turns) + Cardinality({t \in Speakers : detector[t] = "long"}) < MaxTurns
    /\ detector' = [detector EXCEPT ![s] = "long"]
    /\ uttered' = [uttered EXCEPT ![s] = @ + 1]
    /\ UNCHANGED <<router, recorder, turnVars, segments, transcript, endVars, wiped,
                   audioFaults, audioCrashes>>

\* The silence after it ends an utterance; one that is too short is dropped.
SpeechEnds(s) ==
    /\ router = "open" /\ detector[s] # "quiet"
    /\ IF detector[s] = "long"
       THEN turns' = Append(turns, NewTurn(s, TRUE)) /\ lateChunks' = Append(lateChunks, 0)
       ELSE UNCHANGED <<turns, lateChunks>>
    /\ detector' = [detector EXCEPT ![s] = "quiet"]
    /\ UNCHANGED <<router, recorder, inflight, playing, segments, transcript, endVars,
                   uttered, wiped, audioFaults, audioCrashes>>

-----------------------------------------------------------------------------
(* process_utterance.                                                        *)

Moved(u, stage) == turns' = [turns EXCEPT ![u].at = stage]
Broken(u) ==
    /\ MayFail
    /\ turns' = [turns EXCEPT ![u].at = "done", ![u].error = TRUE]
    /\ audioFaults' = audioFaults + 1

Transcribed(u) ==
    /\ At(u, "asr")
    /\ segments' = Append(segments, <<turns[u].who, u>>)
    /\ Moved(u, IF turns[u].ask /\ ProxyEnabled THEN "llm" ELSE "done")
    /\ UNCHANGED audioFaults

\* No final text: the recogniser found nothing to write down.
NothingSaid(u) ==
    /\ At(u, "asr")
    /\ Moved(u, "done")
    /\ UNCHANGED <<segments, audioFaults>>

\* An answer of the model begins a playback generation and the task stream_tts.
Answered(u) ==
    /\ At(u, "llm")
    /\ turns' = [turns EXCEPT ![u].at = "tts", ![u].left = Chunks]
    /\ UNCHANGED <<segments, audioFaults>>

\* An empty answer, or one that _validate_proxy_authority blocks.
NotAnswered(u) ==
    /\ At(u, "llm")
    /\ Moved(u, "done")
    /\ UNCHANGED <<segments, audioFaults>>

ProviderFails(u) ==
    /\ At(u, "asr") \/ At(u, "llm") \/ (At(u, "tts") /\ ~turns[u].cut /\ inflight = 0)
    /\ Broken(u)
    /\ UNCHANGED segments

\* The generation that ran out its audio becomes a segment of X; the cancelled
\* one is logged as interrupted.
SpokenOut(u) ==
    /\ At(u, "told")
    /\ segments' = Append(segments, <<"proxy", u>>)
    /\ Moved(u, "done")
    /\ UNCHANGED audioFaults
(* Mutant: the cancelled answer falls through to its segment. *)
Interrupted_GoesOn(u) ==
    /\ At(u, "tts") /\ turns[u].cut
    /\ Moved(u, "told")
    /\ UNCHANGED <<segments, audioFaults>>

(* Mutant: the task that speaks swallows its cancellation. *)
Interrupted_Never(u) ==
    /\ FALSE /\ At(u, "tts") /\ turns[u].cut
    /\ Moved(u, "done")
    /\ UNCHANGED <<segments, audioFaults>>

Interrupted(u) ==
    /\ At(u, "tts") /\ turns[u].cut
    /\ Moved(u, "done")
    /\ UNCHANGED <<segments, audioFaults>>

ProcessUtterance ==
    /\ \E u \in DOMAIN turns :
          Transcribed(u) \/ NothingSaid(u) \/ Answered(u) \/ NotAnswered(u)
            \/ ProviderFails(u) \/ SpokenOut(u) \/ Interrupted(u)
    /\ UNCHANGED <<router, detector, recorder, inflight, playing, lateChunks, transcript,
                   endVars, uttered, wiped, audioCrashes>>

-----------------------------------------------------------------------------
(* stream_tts and the audio source.                                          *)

\* publish asks whether the generation is still the active one, then hands the
\* chunk to the source.
Publish(u) ==
    /\ At(u, "tts") /\ ~turns[u].cut /\ turns[u].left > 0
    /\ inflight = 0 /\ Len(playing) < QueueSize
    /\ inflight' = u
    /\ UNCHANGED <<turns, playing, recorder, wiped>>

\* The source has it.  A task that was cancelled meanwhile writes no recording.
Captured(u) ==
    /\ inflight = u /\ inflight' = 0
    /\ playing' = Append(playing, u)
    /\ IF turns[u].at = "tts" /\ ~turns[u].cut
       THEN turns' = [turns EXCEPT ![u].left = @ - 1] /\ Opened("proxy")
       ELSE UNCHANGED <<turns, recorder, wiped>>

\* The request of a cancelled task is dropped, or was cleared with the queue.
Dropped(u) ==
    /\ inflight = u /\ (turns[u].cut \/ turns[u].at = "done")
    /\ inflight' = 0
    /\ UNCHANGED <<turns, playing, recorder, wiped>>

StreamEnds(u) ==
    /\ At(u, "tts") /\ ~turns[u].cut /\ turns[u].left = 0
    /\ Moved(u, "told")
    /\ UNCHANGED <<inflight, playing, recorder, wiped>>

StreamTts ==
    /\ \E u \in DOMAIN turns : Publish(u) \/ Captured(u) \/ Dropped(u) \/ StreamEnds(u)
    /\ UNCHANGED <<router, detector, segments, transcript, endVars, lateChunks, uttered, audioFaults,
                   audioCrashes>>

\* The room hears the next chunk.
Play ==
    /\ playing # <<>>
    /\ playing' = Tail(playing)
    /\ LET u == Head(playing)
       IN  lateChunks' = IF turns[u].cut THEN [lateChunks EXCEPT ![u] = @ + 1] ELSE lateChunks
    /\ UNCHANGED <<router, detector, recorder, turns, inflight, segments, transcript,
                   endVars, uttered, wiped, audioFaults, audioCrashes>>

-----------------------------------------------------------------------------
(* END of the meeting.                                                       *)

(* Mutant: the detectors are dropped as they are. *)
Close_NoFlush ==
    /\ router = "open"
    /\ router' = "gather"
    /\ \E order \in {<<>>} :
          LET made == [i \in DOMAIN order |-> NewTurn(order[i], TRUE)]
          IN  /\ turns' = turns \o made
              /\ lateChunks' = lateChunks \o [i \in DOMAIN order |-> 0]
    /\ pending' = {u \in DOMAIN turns' : turns'[u].at # "done"}
    /\ detector' = [s \in Speakers |-> "quiet"]
    /\ failed' = FALSE
    /\ UNCHANGED <<recorder, inflight, playing, segments, transcript, unheard, ended,
                   uttered, wiped, audioFaults, audioCrashes>>

\* finalize: no more input; what the detectors hold becomes utterances.
Close ==
    /\ router = "open"
    /\ router' = "gather"
    /\ \E order \in SetToSeqs({s \in Speakers : detector[s] = "long"}) :
          LET made == [i \in DOMAIN order |-> NewTurn(order[i], TRUE)]
          IN  /\ turns' = turns \o made
              /\ lateChunks' = lateChunks \o [i \in DOMAIN order |-> 0]
    /\ pending' = {u \in DOMAIN turns' : turns'[u].at # "done"}
    /\ detector' = [s \in Speakers |-> "quiet"]
    /\ failed' = FALSE
    /\ UNCHANGED <<recorder, inflight, playing, segments, transcript, unheard, ended,
                   uttered, wiped, audioFaults, audioCrashes>>

CloseRecorders == recorder' =
    [t \in Tracks |-> IF recorder[t] = "open" THEN "closed" ELSE recorder[t]]

(* Mutant: the results of the tasks are not looked at. *)
Gather_ForgetsErrors ==
    /\ router = "gather"
    /\ \A u \in pending : turns[u].at = "done"
    /\ failed' = FALSE
    /\ CloseRecorders
    /\ unheard' = {s \in Speakers :
                      /\ recorder[s] = "open"
                      /\ ~\E i \in DOMAIN segments : segments[i][1] = s}
    /\ router' = "recover"
    /\ UNCHANGED <<detector, turnVars, segments, transcript, pending, ended, uttered, wiped,
                   audioFaults, audioCrashes>>

(* Mutant: the recordings are closed while tasks still run. *)
Gather_NoWait ==
    /\ router = "gather"
    /\ failed' = (\E u \in pending : turns[u].error)
    /\ CloseRecorders
    /\ unheard' = {s \in Speakers :
                      /\ recorder[s] = "open"
                      /\ ~\E i \in DOMAIN segments : segments[i][1] = s}
    /\ router' = "recover"
    /\ UNCHANGED <<detector, turnVars, segments, transcript, pending, ended, uttered, wiped,
                   audioFaults, audioCrashes>>

\* The tasks are done: errors are remembered, the recordings closed.
Gather ==
    /\ router = "gather"
    /\ \A u \in pending : turns[u].at = "done"
    /\ failed' = (\E u \in pending : turns[u].error)
    /\ CloseRecorders
    /\ unheard' = {s \in Speakers :
                      /\ recorder[s] = "open"
                      /\ ~\E i \in DOMAIN segments : segments[i][1] = s}
    /\ router' = "recover"
    /\ UNCHANGED <<detector, turnVars, segments, transcript, pending, ended, uttered, wiped,
                   audioFaults, audioCrashes>>

\* _recover_missing_human_transcripts: the whole track of a speaker without any
\* segment is transcribed, and never answered.  An error ends the recovery.
Recover(s) ==
    /\ router = "recover" /\ s \in unheard
    /\ \/ /\ \E said \in BOOLEAN :
                segments' = IF said THEN Append(segments, <<s, 0>>) ELSE segments
          /\ unheard' = unheard \ {s}
          /\ UNCHANGED <<failed, audioFaults>>
       \/ /\ MayFail /\ audioFaults' = audioFaults + 1
          /\ failed' = TRUE /\ unheard' = {}
          /\ UNCHANGED segments
    /\ UNCHANGED <<router, detector, recorder, turnVars, transcript, pending, ended,
                   uttered, wiped, audioCrashes>>

\* pipeline.finalize: the session of the pipeline goes and the transcript is
\* written; the same version with another content is refused.
WriteTranscript ==
    /\ router = "recover" /\ unheard = {}
    /\ IF transcript \subseteq {segments}
       THEN transcript' = {segments} /\ UNCHANGED failed
       ELSE failed' = TRUE /\ UNCHANGED transcript
    /\ router' = "summary"
    /\ UNCHANGED <<detector, recorder, turnVars, segments, pending, unheard, ended, uttered, wiped,
                   audioFaults, audioCrashes>>

\* The summary is tried where X was enabled; the manifests are written whatever
\* failed, and the first error is raised when all is cleaned up.
FinishEnd ==
    /\ router = "summary"
    /\ \/ ended' = (IF failed THEN "error" ELSE "ok") /\ UNCHANGED audioFaults
       \/ /\ ProxyEnabled /\ MayFail
          /\ audioFaults' = audioFaults + 1
          /\ ended' = "error"
    /\ router' = "absent"
    /\ UNCHANGED <<detector, recorder, turnVars, segments, transcript, pending, unheard,
                   failed, uttered, wiped, audioCrashes>>

(* Mutant: STOP forgets the tasks without cancelling them. *)
Cancel_LeavesTasks ==
    /\ router = "open"
    /\ router' = "absent" /\ ended' = "cancelled"
    /\ UNCHANGED turns
    /\ detector' = [s \in Speakers |-> "quiet"]
    /\ CloseRecorders
    /\ UNCHANGED <<inflight, playing, lateChunks, segments, transcript, pending, unheard, failed,
                   uttered, wiped, audioFaults, audioCrashes>>

\* STOP_SESSION: cancel.
Cancel ==
    /\ router = "open"
    /\ router' = "absent" /\ ended' = "cancelled"
    /\ turns' = [u \in DOMAIN turns |-> [turns[u] EXCEPT !.at = "done"]]
    /\ detector' = [s \in Speakers |-> "quiet"]
    /\ CloseRecorders
    /\ UNCHANGED <<inflight, playing, lateChunks, segments, transcript, pending, unheard, failed,
                   uttered, wiped, audioFaults, audioCrashes>>

-----------------------------------------------------------------------------
(* B dies and opens the runtime again: the rows and the files are left.      *)

DieAndReopen ==
    /\ audioCrashes < MaxAudioCrashes /\ MayFail
    /\ router # "absent"
    /\ router' = "open"
    /\ detector' = [s \in Speakers |-> "quiet"]
    /\ recorder' = [t \in Tracks |-> IF recorder[t] = "open" THEN "closed" ELSE recorder[t]]
    /\ turns' = [u \in DOMAIN turns |-> [turns[u] EXCEPT !.at = "done"]]
    /\ inflight' = 0 /\ playing' = <<>>
    /\ pending' = {} /\ unheard' = {} /\ failed' = FALSE
    /\ audioFaults' = audioFaults + 1 /\ audioCrashes' = audioCrashes + 1
    /\ UNCHANGED <<lateChunks, segments, transcript, ended, uttered, wiped>>

AudioNext ==
    \/ \E s \in Speakers : FirstFrame(s)
    \/ \E s \in Speakers : SpeechStarts(s)
    \/ \E s \in Speakers : SpeechGoesOn(s)
    \/ \E s \in Speakers : SpeechEnds(s)
    \/ ProcessUtterance
    \/ StreamTts
    \/ Play
    \/ Close
    \/ Gather
    \/ \E s \in Speakers : Recover(s)
    \/ WriteTranscript
    \/ FinishEnd
    \/ Cancel
    \/ DieAndReopen

AudioSpec == AudioInit /\ [][AudioNext]_audioVars

\* The providers answer or fail, the room plays on, and END goes on: each is a
\* call that returns or a task of the event loop.  Nobody has to speak.
AudioFairness ==
    /\ WF_audioVars(ProcessUtterance)
    /\ WF_audioVars(StreamTts)
    /\ WF_audioVars(Play)
    /\ WF_audioVars(Gather)
    /\ WF_audioVars(\E s \in Speakers : Recover(s))
    /\ WF_audioVars(WriteTranscript)
    /\ WF_audioVars(FinishEnd)

-----------------------------------------------------------------------------
(* Properties.                                                               *)

AudioTypeOK ==
    /\ router \in {"absent", "open", "gather", "recover", "summary"}
    /\ detector \in [Speakers -> {"quiet", "short", "long"}]
    /\ recorder \in [Tracks -> {"none", "open", "closed"}]
    /\ turns \in Seq([who : Speakers, ask : BOOLEAN, at : Stages, left : 0..Chunks,
                      cut : BOOLEAN, error : BOOLEAN])
    /\ inflight \in 0..Len(turns)
    /\ Len(playing) <= QueueSize + 1 /\ ToSet(playing) \subseteq DOMAIN turns
    /\ segments \in Seq(Tracks \X (0..Len(turns)))
    /\ Cardinality(transcript) <= 1
    /\ pending \subseteq DOMAIN turns /\ unheard \subseteq Speakers
    /\ failed \in BOOLEAN /\ ended \in {"no", "ok", "error", "cancelled"}
    /\ uttered \in [Speakers -> Nat] /\ Len(lateChunks) = Len(turns)
    /\ wiped \subseteq Tracks
    /\ audioFaults \in 0..MaxAudioFaults /\ audioCrashes \in 0..MaxAudioCrashes

\* After a barge-in the room hears at most one chunk more of the answer: the one
\* that was on its way to the source when the queue was cleared (playback.py:75).
OneLateChunk == \A u \in DOMAIN turns : lateChunks[u] <= 1

\* The transcript keeps the order of the utterances, and an answer stands behind
\* the utterance it answers and before the next one (the lock of pipeline.py:152).
SegmentsInOrder ==
    \A i, j \in DOMAIN segments :
        i < j /\ segments[j][2] # 0 =>
            \/ segments[i][2] < segments[j][2]
            \/ segments[i][2] = segments[j][2] /\ segments[j][1] = "proxy"

\* An answer that was interrupted is not in the transcript as if it had been said
\* to its end (pipeline.py:263).
InterruptedIsNotWritten ==
    \A u \in DOMAIN turns : turns[u].cut => ~Contains(segments, <<"proxy", u>>)

\* END succeeds only with the transcript of all segments there are, and when no
\* task it waited for has failed (audio_router.py:220).
EndOkIsWhole ==
    ended = "ok" =>
        /\ transcript = {segments}
        /\ \A u \in pending : ~turns[u].error

\* When a meeting has ended without a crash of B, every utterance that was long
\* enough went to the recogniser, the one END cut off included (audio_router.py:196).
UtterancesKept ==
    ended \in {"ok", "error"} /\ audioCrashes = 0 =>
        \A s \in Speakers :
            uttered[s] = Cardinality({u \in DOMAIN turns : turns[u].who = s})

\* Without a crash no recording is opened a second time, which would erase it:
\* nothing writes to a track once END or STOP has closed it (audio_router.py:228).
RecordingKept == audioCrashes = 0 => wiped = {}

\* When the router has let the session go, no task of it runs and no recording is
\* open (audio_router.py:309).
QuietWhenGone ==
    router = "absent" =>
        /\ \A u \in DOMAIN turns : turns[u].at = "done"
        /\ \A t \in Tracks : recorder[t] # "open"

\* An END that has begun comes to its end.
FinalizeEnds == []<>(router \in {"absent", "open"})

\* The transcript is what was said: every utterance is heard, in order, an
\* interrupted answer is not in it, and END does not succeed on less.
TranscriptIsFaithful ==
    SegmentsInOrder /\ InterruptedIsNotWritten /\ UtterancesKept /\ EndOkIsWhole

\* What is cut off stays cut off: an interrupted answer, a closed recording,
\* the tasks of a session that is gone.
CutOffStaysOff == AudioTypeOK /\ OneLateChunk /\ RecordingKept /\ QuietWhenGone
=============================================================================
