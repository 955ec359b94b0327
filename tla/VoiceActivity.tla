--------------------------- MODULE VoiceActivity ---------------------------
(***************************************************************************)
(* VoiceActivityBuffer cuts the frames of one track into utterances.  Every  *)
(* frame is as long as the others and either active (loud) or not; times     *)
(* count frames.  The buffer is checked against a definition that looks at   *)
(* the whole track at once.                                                  *)
(***************************************************************************)
EXTENDS Naturals, Sequences, FiniteSets

CONSTANTS
    MinSpeech,      \* active frames an utterance needs: min_speech_ms
    EndSilence,     \* inactive frames that end it: end_silence_ms
    MaxFrames       \* bound: frames of the track

ASSUME VoiceActivityAssumption ==
    MinSpeech \in Nat \ {0} /\ EndSilence \in Nat \ {0} /\ MaxFrames \in Nat

VARIABLES
    buffer,         \* [start, speech, silence], start = 0 when nobody speaks
    cuts,           \* utterances handed on: <<first frame, last frame>>
    frames,         \* history: whether each frame was active
    flushed         \* END has flushed the buffer

voiceVars == <<buffer, cuts, frames, flushed>>

Empty == [start |-> 0, speech |-> 0, silence |-> 0]

VoiceInit == buffer = Empty /\ cuts = <<>> /\ frames = <<>> /\ flushed = FALSE

\* What the buffer hands on when it is emptied at frame last.
Handed(b, last) ==
    IF b.start # 0 /\ b.speech >= MinSpeech THEN Append(cuts, <<b.start, last>>) ELSE cuts

(* Mutant: speech does not reset the silence counter. *)
Heard_KeepsSilence(active) ==
    LET now == Len(frames) + 1
        start == IF buffer.start = 0 /\ active THEN now ELSE buffer.start
    IN  IF start = 0 THEN Empty
        ELSE [start |-> start,
              speech |-> buffer.speech + (IF active THEN 1 ELSE 0),
              silence |-> buffer.silence + (IF active THEN 0 ELSE 1)]

Heard(active) ==
    LET now == Len(frames) + 1
        start == IF buffer.start = 0 /\ active THEN now ELSE buffer.start
    IN  IF start = 0 THEN Empty
        ELSE [start |-> start,
              speech |-> buffer.speech + (IF active THEN 1 ELSE 0),
              silence |-> IF active THEN 0 ELSE buffer.silence + 1]

(* Mutant: the pause may be one frame longer. *)
Feed_Longer(active) ==
    /\ ~flushed /\ Len(frames) < MaxFrames
    /\ frames' = Append(frames, active)
    /\ LET b == Heard(active)
       IN  IF b.start = 0 \/ b.silence <= EndSilence
           THEN buffer' = b /\ UNCHANGED cuts
           ELSE buffer' = Empty /\ cuts' = Handed(b, Len(frames'))
    /\ UNCHANGED flushed

Feed(active) ==
    /\ ~flushed /\ Len(frames) < MaxFrames
    /\ frames' = Append(frames, active)
    /\ LET b == Heard(active)
       IN  IF b.start = 0 \/ b.silence < EndSilence
           THEN buffer' = b /\ UNCHANGED cuts
           ELSE buffer' = Empty /\ cuts' = Handed(b, Len(frames'))
    /\ UNCHANGED flushed

Flush ==
    /\ ~flushed /\ flushed' = TRUE
    /\ buffer' = Empty
    /\ cuts' = Handed(buffer, Len(frames))
    /\ UNCHANGED frames

VoiceNext == (\E active \in BOOLEAN : Feed(active)) \/ Flush

VoiceSpec == VoiceInit /\ [][VoiceNext]_voiceVars

-----------------------------------------------------------------------------
(* Properties.                                                               *)

VoiceTypeOK ==
    /\ buffer \in [start : 0..Len(frames), speech : 0..Len(frames), silence : 0..(EndSilence - 1)]
    /\ frames \in Seq(BOOLEAN) /\ flushed \in BOOLEAN
    /\ cuts \in Seq((1..Len(frames)) \X (1..Len(frames)))

Active(i) == frames[i]
Silent(i, j) == \A k \in i..j : ~Active(k)

\* A stretch of speech begins with an active frame that no active frame precedes
\* within EndSilence frames, and lasts until EndSilence inactive ones follow.
Stretch(i, j) ==
    /\ Active(i)
    /\ \A k \in 1..(i - 1) : Active(k) => \E g \in k..(i - EndSilence) :
                                              g > k /\ Silent(g, g + EndSilence - 1)
    /\ \A g \in i..j : g + EndSilence - 1 < j => ~Silent(g, g + EndSilence - 1)
    /\ \/ j - EndSilence >= i /\ Silent(j - EndSilence + 1, j)
       \/ flushed /\ j = Len(frames)

Loud(i, j) == Cardinality({k \in i..j : Active(k)})

\* The utterances are exactly the stretches with enough speech in them, in order
\* and without overlap, whatever the lengths of the pauses: no speech is counted
\* twice and none is lost at the end of the meeting (voice_activity.py:47).
UtterancesAreStretches ==
    /\ {cuts[n] : n \in DOMAIN cuts} =
          {p \in (1..Len(frames)) \X (1..Len(frames)) :
              /\ p[1] <= p[2] /\ Stretch(p[1], p[2]) /\ Loud(p[1], p[2]) >= MinSpeech}
    /\ \A n \in DOMAIN cuts : n > 1 => cuts[n - 1][2] < cuts[n][1]

\* Speech is cut into its stretches, frame by frame.
SpeechIsCut == VoiceTypeOK /\ UtterancesAreStretches
=============================================================================
