---------------------------- MODULE MCMediaParts ----------------------------
(***************************************************************************)
(* The parts of the media service that work on their own, checked side by    *)
(* side in one run: the audio of a meeting, the summaries, voice activity    *)
(* detection, and the outbox on a session that goes from the proxy meeting   *)
(* to the handoff and to the synchronous meeting.  A behaviour is one of the *)
(* part it chose at the start and leaves the others at their initial state.  *)
(***************************************************************************)
EXTENDS MediaAudio, SummaryAttempts, VoiceActivity, MediaOutbox

VARIABLE part

TwoSpeakers == {"principal", "teammate_1"}
TwoModels == {"model_1", "model_2"}
TwoTexts == {"text_1", "text_2"}

ProxyToSync == SubSeq(<<"PROXY_MEETING", "HANDOFF", "SYNC_MEETING">>, 1, MaxVersion)

\* The end of a meeting, the summary, and an event of a type A does not know.
EndSummaryAndBargeIn ==
    [m \in {"ended", "summary", "barge_in"} |->
        CASE m = "ended" -> "ended" [] m = "summary" -> "artifact" [] OTHER -> "unknown"]

partsVars == <<audioVars, summaryVars, voiceVars, vars, part>>

PartsInit ==
    /\ part \in {"audio", "summary", "voice", "outbox"}
    /\ AudioInit /\ SummaryInit /\ VoiceInit /\ Init

PartsNext ==
    \/ part = "audio" /\ AudioNext /\ UNCHANGED <<summaryVars, voiceVars, vars, part>>
    \/ part = "summary" /\ SummaryNext /\ UNCHANGED <<audioVars, voiceVars, vars, part>>
    \/ part = "voice" /\ VoiceNext /\ UNCHANGED <<audioVars, summaryVars, vars, part>>
    \/ part = "outbox" /\ Next /\ UNCHANGED <<audioVars, summaryVars, voiceVars, part>>

PartsSpec == PartsInit /\ [][PartsNext]_partsVars /\ AudioFairness /\ Fairness
=============================================================================
