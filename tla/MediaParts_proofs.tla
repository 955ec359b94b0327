-------------------------- MODULE MediaParts_proofs --------------------------
(***************************************************************************)
(* Proofs about the parts of the media service that work on their own: the *)
(* audio of a meeting, the summaries, and voice activity detection.        *)
(***************************************************************************)
EXTENDS MediaAudio, SummaryAttempts, VoiceActivity, FiniteSetTheorems, TLAPS

-----------------------------------------------------------------------------
(* MediaAudio, for any speakers, chunks, queue and bounds.                  *)

(* A turn, and the turns of a speaker.                                       *)
Turn == [who : Speakers, ask : BOOLEAN, at : Stages, left : 0 .. Chunks, cut : BOOLEAN, error : BOOLEAN]
TurnsOf(s) == {u \in DOMAIN turns : turns[u].who = s}
AllDone == \A u \in DOMAIN turns : turns[u].at = "done"

(* The chunk on its way has room in the queue and belongs to a turn that     *)
(* speaks or has been stopped.                                               *)
QueueInv ==
    /\ playing \in Seq(Nat) /\ Len(playing) <= QueueSize
    /\ inflight # 0 =>
          /\ Len(playing) < QueueSize
          /\ turns[inflight].at \in {"tts", "done"}
          /\ turns[inflight].at = "tts" /\ ~turns[inflight].cut => turns[inflight].left > 0

(* Of a turn that was cut there is one chunk at most: on its way, in the     *)
(* queue, or heard.                                                          *)
LateInv ==
    /\ lateChunks \in Seq(Nat)
    /\ \A u \in DOMAIN turns : lateChunks[u] \in {0, 1} /\ (~turns[u].cut => lateChunks[u] = 0)
    /\ inflight # 0 /\ turns[inflight].cut => lateChunks[inflight] = 0
    /\ \A i \in DOMAIN playing :
          turns[playing[i]].cut =>
              /\ lateChunks[playing[i]] = 0 /\ inflight # playing[i]
              /\ \A j \in DOMAIN playing : playing[j] = playing[i] => j = i

(* The turns have the lock in their order, and the segments follow them.     *)
OrderInv ==
    /\ \A u, v \in DOMAIN turns : u < v /\ turns[u].at # "done" => turns[v].at = "asr"
    /\ \A u \in DOMAIN turns : turns[u].at = "told" => ~turns[u].cut
    /\ \A i \in DOMAIN segments : segments[i][2] # 0 =>
          /\ turns[segments[i][2]].at # "asr"
          /\ segments[i][1] = "proxy" => turns[segments[i][2]].at = "done" /\ ~turns[segments[i][2]].cut
    /\ SegmentsInOrder

(* How far END is.                                                           *)
EndInv ==
    /\ router # "open" => \A s \in Speakers : detector[s] = "quiet"
    /\ ended # "no" => router = "absent"
    /\ router = "gather" => \A u \in DOMAIN turns : turns[u].at # "done" => u \in pending
    /\ router \in {"recover", "summary", "absent"} => AllDone /\ \A t \in Tracks : recorder[t] # "open"
    /\ router \in {"recover", "summary"} /\ ~failed => \A u \in pending : ~turns[u].error
    /\ router = "summary" /\ ~failed => transcript = {segments}
    /\ audioCrashes = 0 /\ router \in {"open", "gather"} => \A t \in Tracks : recorder[t] # "closed"
    /\ EndOkIsWhole /\ RecordingKept

CountInv ==
    audioCrashes = 0 /\ ended # "cancelled" =>
        \A s \in Speakers :
            uttered[s] = Cardinality(TurnsOf(s)) + (IF detector[s] = "long" THEN 1 ELSE 0)

AudioInv == AudioTypeOK /\ QueueInv /\ LateInv /\ OrderInv /\ EndInv /\ CountInv

LEMMA TurnsFinite ==
    ASSUME AudioTypeOK, NEW s
    PROVE  IsFiniteSet(TurnsOf(s)) /\ Cardinality(TurnsOf(s)) \in Nat
<1>1. DOMAIN turns = 1 .. Len(turns) /\ Len(turns) \in Nat
  BY DEF AudioTypeOK
<1>2. IsFiniteSet(DOMAIN turns)
  BY <1>1, FS_Interval
<1>3. IsFiniteSet(TurnsOf(s))
  BY <1>2, FS_Subset DEF TurnsOf
<1>4. QED
  BY <1>3, FS_CardinalityType

LEMMA AudioSuffices == AudioInv => TranscriptIsFaithful /\ CutOffStaysOff
<1> SUFFICES ASSUME AudioInv PROVE TranscriptIsFaithful /\ CutOffStaysOff
  OBVIOUS
<1>1. AudioTypeOK /\ EndOkIsWhole /\ RecordingKept /\ SegmentsInOrder
  BY DEF AudioInv, EndInv, OrderInv
<1>2. OneLateChunk
  BY DEF AudioInv, LateInv, OneLateChunk
<1>3. QuietWhenGone
  BY DEF AudioInv, EndInv, AllDone, QuietWhenGone
<1>4. InterruptedIsNotWritten
  <2> SUFFICES ASSUME NEW u \in DOMAIN turns, turns[u].cut, Contains(segments, <<"proxy", u>>)
               PROVE  FALSE
    BY DEF InterruptedIsNotWritten
  <2>1. PICK i \in DOMAIN segments : segments[i] = <<"proxy", u>>
    BY SMTT(30), <1>1 DEF Contains, AudioTypeOK
  <2>2. segments[i][1] = "proxy" /\ segments[i][2] = u /\ u # 0
    BY <1>1, <2>1 DEF AudioTypeOK
  <2>3. QED
    BY <2>2 DEF AudioInv, OrderInv
<1>5. UtterancesKept
  <2> SUFFICES ASSUME ended \in {"ok", "error"}, audioCrashes = 0, NEW s \in Speakers
               PROVE  uttered[s] = Cardinality(TurnsOf(s))
    BY DEF UtterancesKept, TurnsOf
  <2>1. router = "absent" /\ detector[s] = "quiet"
    BY DEF AudioInv, EndInv
  <2>2. uttered[s] = Cardinality(TurnsOf(s)) + 0
    BY <2>1 DEF AudioInv, CountInv
  <2>3. QED
    BY <1>1, <2>2, TurnsFinite
<1>6. QED
  BY <1>1, <1>2, <1>3, <1>4, <1>5 DEF TranscriptIsFaithful, CutOffStaysOff

LEMMA AudioBegins == AudioInit => AudioInv
<1> SUFFICES ASSUME AudioInit PROVE AudioInv
  OBVIOUS
<1>1. /\ turns = <<>> /\ segments = <<>> /\ playing = <<>> /\ lateChunks = <<>> /\ inflight = 0
      /\ DOMAIN turns = {} /\ DOMAIN segments = {} /\ DOMAIN playing = {}
      /\ Len(turns) = 0 /\ Len(segments) = 0 /\ Len(playing) = 0 /\ Len(lateChunks) = 0
  BY DEF AudioInit
<1>2. AudioTypeOK
  <2>1. /\ router = "open" /\ detector \in [Speakers -> {"quiet", "short", "long"}]
        /\ recorder \in [Tracks -> {"none", "open", "closed"}]
        /\ pending \subseteq DOMAIN turns /\ unheard \subseteq Speakers
        /\ ended = "no" /\ uttered \in [Speakers -> Nat] /\ wiped \subseteq Tracks
    BY DEF AudioInit
  <2>2. failed \in BOOLEAN
    BY DEF AudioInit
  <2>3. audioFaults \in 0 .. MaxAudioFaults /\ audioCrashes \in 0 .. MaxAudioCrashes
    BY MediaAudioAssumption DEF AudioInit
  <2>4. Cardinality(transcript) <= 1
    BY FS_EmptySet DEF AudioInit
  <2>5. ToSet(playing) \subseteq DOMAIN turns /\ Len(playing) <= QueueSize + 1
    BY <1>1, MediaAudioAssumption DEF ToSet
  <2>6. turns \in Seq([who : Speakers, ask : BOOLEAN, at : Stages, left : 0 .. Chunks,
                       cut : BOOLEAN, error : BOOLEAN])
    BY <1>1
  <2>7. segments \in Seq(Tracks \X (0 .. Len(turns)))
    BY <1>1
  <2>8. QED
    BY <1>1, <2>1, <2>2, <2>3, <2>4, <2>5, <2>6, <2>7 DEF AudioTypeOK
<1>3. QueueInv /\ LateInv
  BY <1>1, MediaAudioAssumption DEF QueueInv, LateInv
<1>4. OrderInv
  BY <1>1 DEF OrderInv, SegmentsInOrder
<1>5. EndInv
  BY <1>1 DEF AudioInit, EndInv, EndOkIsWhole, RecordingKept
<1>6. CountInv
  <2> SUFFICES ASSUME NEW s \in Speakers PROVE uttered[s] = Cardinality(TurnsOf(s)) + 0 /\ detector[s] # "long"
    BY DEF CountInv
  <2>1. TurnsOf(s) = {}
    BY <1>1 DEF TurnsOf
  <2>2. QED
    BY <2>1, FS_EmptySet DEF AudioInit
<1>7. QED
  BY <1>2, <1>3, <1>4, <1>5, <1>6 DEF AudioInv

LEMMA AudioStays == AudioInv /\ UNCHANGED audioVars => AudioInv'
<1> SUFFICES ASSUME AudioInv, UNCHANGED audioVars PROVE AudioInv'
  OBVIOUS
<1> USE DEF audioVars, turnVars, endVars
<1>1. AudioTypeOK'
  BY DEF AudioInv, AudioTypeOK
<1>2. QueueInv' /\ LateInv'
  BY DEF AudioInv, QueueInv, LateInv
<1>3. OrderInv'
  BY DEF AudioInv, OrderInv, SegmentsInOrder
<1>4. EndInv'
  BY DEF AudioInv, EndInv, AllDone, EndOkIsWhole, RecordingKept
<1>5. CountInv'
  BY DEF AudioInv, CountInv, TurnsOf
<1>6. QED
  BY <1>1, <1>2, <1>3, <1>4, <1>5 DEF AudioInv

-----------------------------------------------------------------------------
(* A turn that moves on.                                                     *)
LEMMA TurnReplaced ==
    ASSUME NEW T, NEW s \in Seq(T), NEW u \in DOMAIN s, NEW t \in T
    PROVE  LET r == [s EXCEPT ![u] = t] IN
           /\ r \in Seq(T) /\ Len(r) = Len(s) /\ DOMAIN r = DOMAIN s
           /\ \A v \in DOMAIN s : r[v] = IF v = u THEN t ELSE s[v]
  OBVIOUS

LEMMA SegmentAdded ==
    ASSUME NEW T, NEW s \in Seq(T), NEW t \in T
    PROVE  LET r == Append(s, t) IN
           /\ r \in Seq(T) /\ Len(r) = Len(s) + 1 /\ DOMAIN r = 1 .. (Len(s) + 1)
           /\ r[Len(s) + 1] = t /\ \A i \in DOMAIN s : r[i] = s[i]
  OBVIOUS

(* The segments that a step of a turn leaves behind.                         *)
AudioWritten(u) ==
    \/ segments' = segments
    \/ segments' = Append(segments, <<turns[u].who, u>>) /\ turns[u].at = "asr"
    \/ segments' = Append(segments, <<"proxy", u>>) /\ turns[u].at = "told" /\ turns'[u].at = "done"

LEMMA SegmentsStayInOrder ==
    ASSUME AudioInv, NEW u \in DOMAIN turns, HasLock(u), turns[u].at # "done", AudioWritten(u),
           DOMAIN turns' = DOMAIN turns, Len(turns') = Len(turns),
           \A v \in DOMAIN turns \ {u} : turns'[v] = turns[v],
           turns'[u].cut = turns[u].cut, turns'[u].at # "asr"
    PROVE  /\ segments' \in Seq(Tracks \X (0 .. Len(turns)))
           /\ \A i \in DOMAIN segments' : segments'[i][2] # 0 =>
                 /\ turns'[segments'[i][2]].at # "asr"
                 /\ segments'[i][1] = "proxy" =>
                       turns'[segments'[i][2]].at = "done" /\ ~turns'[segments'[i][2]].cut
           /\ SegmentsInOrder'
<1> DEFINE S == Tracks \X (0 .. Len(turns))
<1> DEFINE n == Len(segments)
<1>1. /\ turns \in Seq(Turn) /\ Len(turns) \in Nat /\ DOMAIN turns = 1 .. Len(turns)
      /\ segments \in Seq(S) /\ n \in Nat /\ DOMAIN segments = 1 .. n
      /\ OrderInv
  BY DEF AudioInv, AudioTypeOK, Turn
<1>2. u \in 1 .. Len(turns) /\ turns[u].who \in Speakers /\ turns[u].who # "proxy"
  <2>1. turns[u] \in Turn
    BY <1>1
  <2>2. QED
    BY <1>1, <2>1, MediaAudioAssumption DEF Turn
<1>3. \A i \in 1 .. n : segments[i][2] \in 0 .. Len(turns)
  BY <1>1
<1> DEFINE Good(g) == g[2] # 0 =>
                        /\ turns'[g[2]].at # "asr"
                        /\ g[1] = "proxy" => turns'[g[2]].at = "done" /\ ~turns'[g[2]].cut
<1>4. \A i \in 1 .. n : Good(segments[i])
  <2> SUFFICES ASSUME NEW i \in 1 .. n, segments[i][2] # 0 PROVE Good(segments[i])
    OBVIOUS
  <2>5. i \in DOMAIN segments
    BY <1>1
  <2>6. segments[i][2] \in DOMAIN turns
    BY <1>1, <1>3
  <2>1. /\ turns[segments[i][2]].at # "asr" /\ segments[i][2] \in DOMAIN turns
        /\ segments[i][1] = "proxy" => turns[segments[i][2]].at = "done" /\ ~turns[segments[i][2]].cut
    BY <1>1, <2>5, <2>6 DEF OrderInv
  <2>2. CASE segments[i][2] = u
    BY <2>1, <2>2
  <2>3. CASE segments[i][2] # u
    BY <2>1, <2>3
  <2>4. QED
    BY <2>2, <2>3
<1>5. \A i \in 1 .. n : /\ segments[i][2] <= u
                        /\ turns[u].at = "asr" => segments[i][2] < u
  <2> SUFFICES ASSUME NEW i \in 1 .. n, segments[i][2] # 0
               PROVE  /\ segments[i][2] <= u
                      /\ turns[u].at = "asr" => segments[i][2] < u
    BY <1>2, <1>3
  <2>4. i \in DOMAIN segments
    BY <1>1
  <2>5. segments[i][2] \in DOMAIN turns
    BY <1>1, <1>3
  <2>1. segments[i][2] \in DOMAIN turns /\ turns[segments[i][2]].at # "asr"
    BY <1>1, <2>4, <2>5 DEF OrderInv
  <2>2. ~(u < segments[i][2])
    BY <1>1, <2>1 DEF OrderInv
  <2>3. QED
    BY <1>1, <1>2, <1>3, <2>1, <2>2
<1>6. CASE segments' = segments
  BY <1>1, <1>4, <1>6 DEF OrderInv, SegmentsInOrder
<1>7. ASSUME NEW g \in S, segments' = Append(segments, g), g[2] = u, Good(g),
             turns[u].at = "asr" \/ g[1] = "proxy"
      PROVE  /\ segments' \in Seq(S) /\ (\A i \in DOMAIN segments' : Good(segments'[i])) /\ SegmentsInOrder'
  <2>1. /\ segments' \in Seq(S) /\ DOMAIN segments' = 1 .. (n + 1)
        /\ segments'[n + 1] = g /\ \A i \in 1 .. n : segments'[i] = segments[i]
    BY <1>1, <1>7, SegmentAdded
  <2> HIDE DEF S, Good
  <2>2. \A i \in DOMAIN segments' : Good(segments'[i])
    BY <1>1, <1>4, <1>7, <2>1
  <2>3. SegmentsInOrder'
    <3> SUFFICES ASSUME NEW i \in 1 .. (n + 1), NEW j \in 1 .. (n + 1), i < j, segments'[j][2] # 0
                 PROVE  \/ segments'[i][2] < segments'[j][2]
                        \/ segments'[i][2] = segments'[j][2] /\ segments'[j][1] = "proxy"
      BY <2>1 DEF SegmentsInOrder
    <3>1. i \in 1 .. n /\ segments'[i] = segments[i]
      BY <1>1, <2>1
    <3>2. CASE j = n + 1
      BY <1>2, <1>3, <1>5, <1>7, <2>1, <3>1, <3>2
    <3>3. CASE j # n + 1
      <4>3. j \in 1 .. n
        BY <1>1, <3>3
      <4>1. j \in 1 .. n /\ segments'[j] = segments[j]
        BY <2>1, <4>3
      <4>2. QED
        BY <1>1, <3>1, <4>1 DEF OrderInv, SegmentsInOrder
    <3>4. QED
      BY <3>2, <3>3
  <2>4. QED
    BY <2>1, <2>2, <2>3
<1>8. CASE segments' = Append(segments, <<turns[u].who, u>>) /\ turns[u].at = "asr"
  <2> DEFINE g == <<turns[u].who, u>>
  <2>1. g \in S /\ g[1] = turns[u].who /\ g[2] = u
    BY <1>2 DEF Tracks
  <2>2. Good(g)
    BY <1>2, <2>1
  <2>3. segments' = Append(segments, g) /\ turns[u].at = "asr"
    BY <1>8
  <2> HIDE DEF S, g, Good
  <2>4. /\ segments' \in Seq(S) /\ (\A i \in DOMAIN segments' : Good(segments'[i])) /\ SegmentsInOrder'
    BY <1>7, <2>1, <2>2, <2>3
  <2>5. QED
    BY <2>4 DEF S, Good
<1>9. CASE segments' = Append(segments, <<"proxy", u>>) /\ turns[u].at = "told" /\ turns'[u].at = "done"
  <2> DEFINE g == <<"proxy", u>>
  <2>1. g \in S /\ g[1] = "proxy" /\ g[2] = u
    BY <1>2 DEF Tracks
  <2>2. ~turns[u].cut
    BY <1>1, <1>9 DEF OrderInv
  <2>3. Good(g)
    BY <1>9, <2>1, <2>2
  <2>4. segments' = Append(segments, g)
    BY <1>9
  <2> HIDE DEF S, g, Good
  <2>5. /\ segments' \in Seq(S) /\ (\A i \in DOMAIN segments' : Good(segments'[i])) /\ SegmentsInOrder'
    BY <1>7, <2>1, <2>3, <2>4
  <2>6. QED
    BY <2>5 DEF S, Good
<1>10. QED
  BY <1>6, <1>8, <1>9 DEF AudioWritten

LEMMA MoveTurn ==
    ASSUME AudioInv, NEW u \in DOMAIN turns, HasLock(u), turns[u].at # "done", NEW t \in Turn,
           turns' = [turns EXCEPT ![u] = t], t.who = turns[u].who, t.cut = turns[u].cut, t.at # "asr",
           t.at = "told" => ~t.cut,
           inflight = u => t.at = "done", AudioWritten(u),
           UNCHANGED <<router, detector, recorder, inflight, playing, lateChunks, transcript, endVars,
                       uttered, wiped, audioCrashes>>,
           audioFaults' \in 0 .. MaxAudioFaults
    PROVE  AudioInv'
<1> USE DEF endVars
<1>1. /\ AudioTypeOK /\ turns \in Seq(Turn) /\ Len(turns) \in Nat /\ DOMAIN turns = 1 .. Len(turns)
  BY SMTT(30) DEF AudioInv, AudioTypeOK, Turn
<1>2. /\ turns' \in Seq(Turn) /\ Len(turns') = Len(turns) /\ DOMAIN turns' = DOMAIN turns
      /\ \A v \in DOMAIN turns : turns'[v] = IF v = u THEN t ELSE turns[v]
  BY <1>1, TurnReplaced
<1>3. turns'[u] = t /\ \A v \in DOMAIN turns \ {u} : turns'[v] = turns[v]
  BY <1>2
<1>4. /\ segments' \in Seq(Tracks \X (0 .. Len(turns)))
      /\ \A i \in DOMAIN segments' : segments'[i][2] # 0 =>
            /\ turns'[segments'[i][2]].at # "asr"
            /\ segments'[i][1] = "proxy" =>
                  turns'[segments'[i][2]].at = "done" /\ ~turns'[segments'[i][2]].cut
      /\ SegmentsInOrder'
  BY <1>2, <1>3, SegmentsStayInOrder
<1>5. \A v \in DOMAIN turns : turns'[v].who = turns[v].who /\ turns'[v].cut = turns[v].cut
  BY <1>2
<1>6. AudioTypeOK'
  BY <1>1, <1>2, <1>4 DEF AudioTypeOK, Turn
<1>7. QueueInv'
  <2>1. CASE inflight = 0
    BY <2>1 DEF AudioInv, QueueInv
  <2>2. CASE inflight # 0
    <3>1. inflight \in DOMAIN turns
      BY <1>1, <2>2 DEF AudioTypeOK
    <3>2. QED
      BY <1>2, <2>2, <3>1 DEF AudioInv, QueueInv
  <2>3. QED
    BY <2>1, <2>2
<1>8. LateInv'
  <2>1. \A v \in DOMAIN turns' : lateChunks'[v] \in {0, 1} /\ (~turns'[v].cut => lateChunks'[v] = 0)
    BY <1>2, <1>5 DEF AudioInv, LateInv
  <2>2. inflight' # 0 /\ turns'[inflight'].cut => lateChunks'[inflight'] = 0
    BY <1>1, <1>5 DEF AudioInv, LateInv, AudioTypeOK
  <2>3. \A i \in DOMAIN playing : turns'[playing[i]].cut = turns[playing[i]].cut
    BY <1>1, <1>5 DEF AudioTypeOK, ToSet
  <2>4. QED
    BY <2>1, <2>2, <2>3 DEF AudioInv, LateInv
<1>9. OrderInv'
  <2>1. ASSUME NEW v \in DOMAIN turns, NEW w \in DOMAIN turns, v < w, turns'[v].at # "done"
        PROVE  turns'[w].at = "asr"
    <3>1. turns[v].at # "done"
      BY <1>3, <2>1
    <3>2. turns[w].at = "asr"
      BY <2>1, <3>1 DEF AudioInv, OrderInv
    <3>3. w # u
      BY <1>1, <2>1, <3>1 DEF HasLock
    <3>4. QED
      BY <1>3, <3>2, <3>3
  <2>2. \A v \in DOMAIN turns' : turns'[v].at = "told" => ~turns'[v].cut
    BY <1>2 DEF AudioInv, OrderInv
  <2>3. QED
    BY <1>2, <1>4, <2>1, <2>2 DEF OrderInv
<1>10. EndInv'
  <2>1. router \in {"open", "gather"}
    BY <1>1 DEF AudioInv, EndInv, AllDone, AudioTypeOK
  <2>2. ended # "ok"
    BY <2>1 DEF AudioInv, EndInv
  <2>3. router' = "gather" => \A v \in DOMAIN turns' : turns'[v].at # "done" => v \in pending'
    BY <1>2 DEF AudioInv, EndInv
  <2>4. QED
    BY <2>1, <2>2, <2>3 DEF AudioInv, EndInv, EndOkIsWhole, RecordingKept
<1>11. CountInv'
  <2>1. \A s : TurnsOf(s)' = TurnsOf(s)
    BY <1>2, <1>5 DEF TurnsOf
  <2>2. QED
    BY <2>1 DEF AudioInv, CountInv
<1>12. QED
  BY <1>6, <1>7, <1>8, <1>9, <1>10, <1>11 DEF AudioInv

(* A turn that is on its way to the source speaks, or was stopped.           *)
LEMMA TurnAlone ==
    ASSUME AudioInv, NEW u \in DOMAIN turns
    PROVE  /\ turns[u] \in Turn /\ u \in Nat
           /\ inflight = u => \/ turns[u].at = "done"
                              \/ turns[u].at = "tts" /\ (turns[u].cut \/ turns[u].left > 0)
<1>1. turns \in Seq(Turn)
  BY DEF AudioInv, AudioTypeOK, Turn
<1>2. turns[u] \in Turn /\ u \in Nat /\ u # 0
  BY <1>1
<1>3. QED
  BY <1>2 DEF AudioInv, QueueInv

LEMMA MovedTo ==
    ASSUME AudioInv, NEW u \in DOMAIN turns, NEW stage \in Stages, Moved(u, stage)
    PROVE  LET t == [turns[u] EXCEPT !.at = stage] IN
           /\ t \in Turn /\ turns' = [turns EXCEPT ![u] = t] /\ turns'[u] = t
           /\ t.at = stage /\ t.who = turns[u].who /\ t.cut = turns[u].cut
<1>1. turns[u] \in Turn /\ turns \in Seq(Turn)
  BY TurnAlone DEF AudioInv, AudioTypeOK, Turn
<1>2. QED
  BY <1>1 DEF Moved, Turn

LEMMA ProcessUtteranceStep == AudioInv /\ ProcessUtterance => AudioInv'
<1> SUFFICES ASSUME AudioInv, ProcessUtterance PROVE AudioInv'
  OBVIOUS
<1> DEFINE Frame == UNCHANGED <<router, detector, recorder, inflight, playing, lateChunks, transcript, endVars,
                                uttered, wiped, audioCrashes>>
<1>1. Frame /\ audioFaults \in 0 .. MaxAudioFaults
  BY DEF ProcessUtterance, AudioInv, AudioTypeOK
<1>2. PICK u \in DOMAIN turns :
          Transcribed(u) \/ NothingSaid(u) \/ Answered(u) \/ NotAnswered(u)
            \/ ProviderFails(u) \/ SpokenOut(u) \/ Interrupted(u)
  BY DEF ProcessUtterance
<1>3. turns[u] \in Turn /\ turns \in Seq(Turn)
  BY TurnAlone DEF AudioInv, AudioTypeOK, Turn
<1>4. inflight = u => \/ turns[u].at = "done"
                      \/ turns[u].at = "tts" /\ (turns[u].cut \/ turns[u].left > 0)
  BY TurnAlone
<1> HIDE DEF Frame
<1>5. ASSUME NEW stage \in {"llm", "done"}, Moved(u, stage), HasLock(u), turns[u].at # "done",
             inflight = u => stage = "done", AudioWritten(u), audioFaults' = audioFaults
      PROVE  AudioInv'
  <2> DEFINE t == [turns[u] EXCEPT !.at = stage]
  <2>1. stage \in Stages
    BY DEF Stages
  <2>2. /\ t \in Turn /\ turns' = [turns EXCEPT ![u] = t]
        /\ t.at = stage /\ t.who = turns[u].who /\ t.cut = turns[u].cut
    BY <1>5, <2>1, MovedTo
  <2> HIDE DEF t
  <2>3. t.at # "asr" /\ t.at # "told" /\ (inflight = u => t.at = "done") /\ audioFaults' \in 0 .. MaxAudioFaults
    BY <1>1, <1>5, <2>2
  <2>4. QED
    BY <1>1, <1>5, <2>2, <2>3, MoveTurn DEF Frame
<1>6. CASE Transcribed(u)
  <2> DEFINE stage == IF turns[u].ask /\ ProxyEnabled THEN "llm" ELSE "done"
  <2>1. stage \in {"llm", "done"} /\ Moved(u, stage) /\ HasLock(u) /\ turns[u].at = "asr" /\ AudioWritten(u)
        /\ audioFaults' = audioFaults
    BY <1>6 DEF Transcribed, At, AudioWritten
  <2> HIDE DEF stage
  <2>2. inflight # u
    BY <1>4, <2>1
  <2>3. QED
    BY <1>5, <2>1, <2>2
<1>7. CASE NothingSaid(u) \/ NotAnswered(u)
  <2>1. Moved(u, "done") /\ HasLock(u) /\ turns[u].at # "done" /\ AudioWritten(u) /\ audioFaults' = audioFaults
    BY <1>7 DEF NothingSaid, NotAnswered, At, AudioWritten
  <2>2. QED
    BY <1>5, <2>1
<1>8. CASE Answered(u)
  <2> DEFINE t == [turns[u] EXCEPT !.at = "tts", !.left = Chunks]
  <2>1. /\ turns[u].at = "llm" /\ HasLock(u) /\ turns' = [turns EXCEPT ![u].at = "tts", ![u].left = Chunks]
        /\ segments' = segments /\ audioFaults' = audioFaults
    BY <1>8 DEF Answered, At
  <2>2. turns' = [turns EXCEPT ![u] = t]
    BY <1>3, <2>1
  <2>3. t \in Turn /\ t.at = "tts" /\ t.who = turns[u].who /\ t.cut = turns[u].cut
    <3>1. Chunks \in 0 .. Chunks /\ "tts" \in Stages
      BY MediaAudioAssumption DEF Stages
    <3> DEFINE m == [turns[u] EXCEPT !.at = "tts"]
    <3>2. m \in Turn /\ m.who = turns[u].who /\ m.cut = turns[u].cut /\ m.at = "tts"
      BY <1>3, <3>1 DEF Turn
    <3>3. t = [m EXCEPT !.left = Chunks]
      BY <1>3 DEF Turn
    <3> HIDE DEF m, t
    <3>4. QED
      BY <3>1, <3>2, <3>3 DEF Turn
  <2> HIDE DEF t
  <2>4. inflight # u /\ AudioWritten(u) /\ audioFaults' \in 0 .. MaxAudioFaults /\ turns[u].at # "done"
    BY <1>1, <1>4, <2>1 DEF AudioWritten
  <2>5. QED
    BY <1>1, <2>1, <2>2, <2>3, <2>4, MoveTurn DEF Frame
<1>9. CASE ProviderFails(u)
  <2> DEFINE t == [turns[u] EXCEPT !.at = "done", !.error = TRUE]
  <2>1. /\ HasLock(u) /\ turns[u].at # "done" /\ turns' = [turns EXCEPT ![u].at = "done", ![u].error = TRUE]
        /\ segments' = segments /\ audioFaults' = audioFaults + 1 /\ audioFaults < MaxAudioFaults
    BY <1>9 DEF ProviderFails, Broken, At, MayFail
  <2>2. turns' = [turns EXCEPT ![u] = t]
    BY <1>3, <2>1
  <2>3. t \in Turn /\ t.at = "done" /\ t.who = turns[u].who /\ t.cut = turns[u].cut
    BY <1>3 DEF Turn, Stages
  <2> HIDE DEF t
  <2>4. AudioWritten(u) /\ audioFaults' \in 0 .. MaxAudioFaults
    BY <1>1, <2>1, MediaAudioAssumption DEF AudioWritten
  <2>5. QED
    BY <1>1, <2>1, <2>2, <2>3, <2>4, MoveTurn DEF Frame
<1>10. CASE SpokenOut(u)
  <2>1. Moved(u, "done") /\ HasLock(u) /\ turns[u].at = "told" /\ audioFaults' = audioFaults
        /\ segments' = Append(segments, <<"proxy", u>>)
    BY <1>10 DEF SpokenOut, At
  <2>2. turns'[u].at = "done"
    BY <1>3, <2>1, MovedTo DEF Stages
  <2>3. AudioWritten(u)
    BY <2>1, <2>2 DEF AudioWritten
  <2>4. QED
    BY <1>5, <2>1, <2>3
<1>11. CASE Interrupted(u)
  <2>1. Moved(u, "done") /\ HasLock(u) /\ turns[u].at # "done" /\ AudioWritten(u) /\ audioFaults' = audioFaults
    BY <1>11 DEF Interrupted, At, AudioWritten
  <2>2. QED
    BY <1>5, <2>1
<1>12. QED
  BY <1>2, <1>6, <1>7, <1>8, <1>9, <1>10, <1>11

LEMMA StreamEndsStep ==
    ASSUME AudioInv, NEW u \in DOMAIN turns, StreamEnds(u),
           UNCHANGED <<router, detector, segments, transcript, endVars, lateChunks, uttered, audioFaults,
                       audioCrashes>>
    PROVE  AudioInv'
<1> DEFINE t == [turns[u] EXCEPT !.at = "told"]
<1>1. /\ HasLock(u) /\ turns[u].at = "tts" /\ ~turns[u].cut /\ turns[u].left = 0 /\ Moved(u, "told")
      /\ UNCHANGED <<inflight, playing, recorder, wiped>>
  BY DEF StreamEnds, At
<1>2. /\ t \in Turn /\ turns' = [turns EXCEPT ![u] = t]
      /\ t.at = "told" /\ t.who = turns[u].who /\ t.cut = turns[u].cut
  BY <1>1, MovedTo DEF Stages
<1>3. inflight # u
  BY <1>1, TurnAlone
<1>4. AudioWritten(u) /\ audioFaults' \in 0 .. MaxAudioFaults
  BY DEF AudioWritten, AudioInv, AudioTypeOK
<1> HIDE DEF t
<1>5. QED
  BY <1>1, <1>2, <1>3, <1>4, MoveTurn

-----------------------------------------------------------------------------
(* What a step leaves alone it keeps.                                        *)
LEMMA QueueKept == QueueInv /\ UNCHANGED <<turns, playing, inflight>> => QueueInv'
  BY DEF QueueInv

LEMMA LateKept == LateInv /\ UNCHANGED <<turns, playing, inflight, lateChunks>> => LateInv'
  BY DEF LateInv

LEMMA OrderKept == OrderInv /\ UNCHANGED <<turns, segments>> => OrderInv'
<1> SUFFICES ASSUME OrderInv, UNCHANGED <<turns, segments>> PROVE OrderInv'
  OBVIOUS
<1>1. turns' = turns /\ segments' = segments
  OBVIOUS
<1>2. QED
  BY <1>1 DEF OrderInv, SegmentsInOrder

LEMMA CountKept ==
    ASSUME CountInv, turns' = turns, uttered' = uttered, audioCrashes' = audioCrashes,
           ended' # "cancelled" => ended # "cancelled",
           \A s \in Speakers : detector'[s] = "long" <=> detector[s] = "long"
    PROVE  CountInv'
<1> SUFFICES ASSUME audioCrashes = 0, ended # "cancelled", NEW s \in Speakers
             PROVE  uttered[s] = Cardinality(TurnsOf(s)) + (IF detector'[s] = "long" THEN 1 ELSE 0)
  BY DEF CountInv, TurnsOf
<1>1. uttered[s] = Cardinality(TurnsOf(s)) + (IF detector[s] = "long" THEN 1 ELSE 0)
  BY DEF CountInv
<1>2. detector'[s] = "long" <=> detector[s] = "long"
  OBVIOUS
<1>3. QED
  BY <1>1, <1>2

LEMMA FirstFrameStep == ASSUME AudioInv, NEW s \in Speakers, FirstFrame(s) PROVE AudioInv'
<1> USE DEF turnVars, endVars
<1>1. /\ router = "open" /\ recorder' = [recorder EXCEPT ![s] = "open"]
      /\ wiped' = IF recorder[s] = "closed" THEN wiped \cup {s} ELSE wiped
      /\ UNCHANGED <<router, detector, turnVars, segments, transcript, endVars, uttered,
                     audioFaults, audioCrashes>>
  BY DEF FirstFrame, Opened
<1>2. s \in Tracks
  BY DEF Tracks
<1>3. AudioTypeOK'
  BY <1>1, <1>2 DEF AudioInv, AudioTypeOK
<1>4. QueueInv' /\ LateInv' /\ OrderInv'
  BY <1>1, QueueKept, LateKept, OrderKept DEF AudioInv
<1>5. EndInv'
  <2>1. ended = "no" /\ (audioCrashes = 0 => wiped = {} /\ \A t \in Tracks : recorder[t] # "closed")
    BY <1>1 DEF AudioInv, EndInv, RecordingKept
  <2>2. audioCrashes = 0 => wiped' = {} /\ \A t \in Tracks : recorder'[t] # "closed"
    BY <1>1, <1>2, <2>1 DEF AudioInv, AudioTypeOK
  <2>3. QED
    BY <1>1, <2>1, <2>2 DEF AudioInv, EndInv, EndOkIsWhole, RecordingKept
<1>6. CountInv'
  BY <1>1, CountKept DEF AudioInv
<1>7. QED
  BY <1>3, <1>4, <1>5, <1>6 DEF AudioInv

LEMMA SpeechGoesOnStep == ASSUME AudioInv, NEW s \in Speakers, SpeechGoesOn(s) PROVE AudioInv'
<1> USE DEF turnVars, endVars
<1>1. /\ router = "open" /\ detector[s] = "short" /\ detector' = [detector EXCEPT ![s] = "long"]
      /\ uttered' = [uttered EXCEPT ![s] = @ + 1]
      /\ UNCHANGED <<router, recorder, turnVars, segments, transcript, endVars, wiped,
                     audioFaults, audioCrashes>>
  BY DEF SpeechGoesOn
<1>2. AudioTypeOK'
  BY SMTT(30), <1>1 DEF AudioInv, AudioTypeOK
<1>3. QueueInv' /\ LateInv' /\ OrderInv'
  BY <1>1, QueueKept, LateKept, OrderKept DEF AudioInv
<1>4. EndInv'
  BY <1>1 DEF AudioInv, EndInv, EndOkIsWhole, RecordingKept
<1>5. CountInv'
  <2> SUFFICES ASSUME audioCrashes = 0, ended # "cancelled", NEW p \in Speakers
               PROVE  uttered'[p] = Cardinality(TurnsOf(p)) + (IF detector'[p] = "long" THEN 1 ELSE 0)
    BY <1>1 DEF CountInv, TurnsOf
  <2>1. uttered[p] = Cardinality(TurnsOf(p)) + (IF detector[p] = "long" THEN 1 ELSE 0)
    BY DEF AudioInv, CountInv
  <2>2. Cardinality(TurnsOf(p)) \in Nat /\ uttered \in [Speakers -> Nat] /\ DOMAIN detector = Speakers
    BY TurnsFinite DEF AudioInv, AudioTypeOK
  <2>3. CASE p = s
    BY <1>1, <2>1, <2>2, <2>3
  <2>4. CASE p # s
    BY <1>1, <2>1, <2>2, <2>4
  <2>5. QED
    BY <2>3, <2>4
<1>6. QED
  BY <1>2, <1>3, <1>4, <1>5 DEF AudioInv

(* The speaker who is cut off: chunks that are queued go, the one on its way *)
(* may still come.                                                           *)
LEMMA SpeechStartsStep == ASSUME AudioInv, NEW s \in Speakers, SpeechStarts(s) PROVE AudioInv'
<1> USE DEF turnVars, endVars
<1> DEFINE speaking == {u \in DOMAIN turns : turns[u].at = "tts" /\ ~turns[u].cut}
<1>1. /\ router = "open" /\ detector[s] = "quiet" /\ detector' = [detector EXCEPT ![s] = "short"]
      /\ UNCHANGED <<router, recorder, inflight, lateChunks, segments, transcript, endVars,
                     uttered, wiped, audioFaults, audioCrashes>>
      /\ IF speaking = {} THEN UNCHANGED <<turns, playing>>
         ELSE /\ turns' = [u \in DOMAIN turns |-> [turns[u] EXCEPT !.cut = @ \/ u \in speaking]]
              /\ playing' = <<>>
  BY DEF SpeechStarts, BargeIn
<1>2. /\ turns \in Seq(Turn) /\ Len(turns) \in Nat /\ DOMAIN turns = 1 .. Len(turns)
      /\ detector \in [Speakers -> {"quiet", "short", "long"}]
  BY DEF AudioInv, AudioTypeOK, Turn
<1>3. CASE speaking = {}
  <2>1. UNCHANGED <<turns, playing>>
    BY <1>1, <1>3
  <2>2. AudioTypeOK'
    BY <1>1, <2>1 DEF AudioInv, AudioTypeOK
  <2>3. QueueInv' /\ LateInv' /\ OrderInv'
    BY <1>1, <2>1, QueueKept, LateKept, OrderKept DEF AudioInv
  <2>4. EndInv'
    BY <1>1, <2>1 DEF AudioInv, EndInv, EndOkIsWhole, RecordingKept
  <2>5. \A p \in Speakers : detector'[p] = "long" <=> detector[p] = "long"
    BY <1>1, <1>2
  <2>6. CountInv'
    BY <1>1, <2>1, <2>5, CountKept DEF AudioInv
  <2>7. QED
    BY <2>2, <2>3, <2>4, <2>6 DEF AudioInv
<1>4. CASE speaking # {}
  <2>1. /\ turns' = [u \in DOMAIN turns |-> [turns[u] EXCEPT !.cut = @ \/ u \in speaking]]
        /\ playing' = <<>>
    BY <1>1, <1>4
  <2>2. \A u \in DOMAIN turns : turns[u] \in Turn
    BY <1>2
  <2>3. \A u \in DOMAIN turns : [turns[u] EXCEPT !.cut = @ \/ u \in speaking] \in Turn
    BY <2>2 DEF Turn
  <2>4. \A u \in DOMAIN turns :
            /\ turns'[u].at = turns[u].at /\ turns'[u].who = turns[u].who /\ turns'[u].left = turns[u].left
            /\ turns'[u].cut <=> turns[u].cut \/ turns[u].at = "tts"
            /\ turns'[u].error = turns[u].error
    <3> SUFFICES ASSUME NEW u \in DOMAIN turns
                 PROVE  /\ turns'[u].at = turns[u].at /\ turns'[u].who = turns[u].who
                        /\ turns'[u].left = turns[u].left
                        /\ turns'[u].cut <=> turns[u].cut \/ turns[u].at = "tts"
                        /\ turns'[u].error = turns[u].error
      OBVIOUS
    <3>1. turns'[u] = [turns[u] EXCEPT !.cut = @ \/ u \in speaking]
      BY <2>1
    <3>2. turns'[u].cut = (turns[u].cut \/ u \in speaking)
      BY <2>2, <3>1 DEF Turn
    <3>3. /\ turns'[u].at = turns[u].at /\ turns'[u].who = turns[u].who
          /\ turns'[u].left = turns[u].left /\ turns'[u].error = turns[u].error
      BY <2>2, <3>1 DEF Turn
    <3>4. u \in speaking <=> turns[u].at = "tts" /\ ~turns[u].cut
      OBVIOUS
    <3> HIDE DEF speaking
    <3>5. turns'[u].cut <=> turns[u].cut \/ turns[u].at = "tts"
      BY <3>2, <3>4
    <3>6. QED
      BY <3>3, <3>5
  <2> HIDE DEF speaking
  <2>5. turns' \in Seq(Turn) /\ Len(turns') = Len(turns) /\ DOMAIN turns' = DOMAIN turns
    <3>1. turns' \in [1 .. Len(turns) -> Turn]
      BY <1>2, <2>1, <2>3
    <3>2. QED
      BY <1>2, <3>1
  <2>6. Len(playing') = 0 /\ DOMAIN playing' = {} /\ ToSet(playing') = {}
    BY <2>1 DEF ToSet
  <2>7. AudioTypeOK'
    <3>1. ToSet(playing') \subseteq DOMAIN turns' /\ Len(playing') <= QueueSize + 1
      BY <2>6, MediaAudioAssumption
    <3>2. QED
      BY <1>1, <2>5, <3>1 DEF AudioInv, AudioTypeOK, Turn
  <2>8. inflight # 0 => inflight \in DOMAIN turns
    BY <1>2 DEF AudioInv, AudioTypeOK
  <2>15. playing' \in Seq(Nat)
    BY <2>1
  <2>9. QueueInv'
    BY <1>1, <2>15, <2>4, <2>6, <2>8, MediaAudioAssumption DEF AudioInv, QueueInv
  <2>10. LateInv'
    BY <1>1, <2>4, <2>5, <2>6, <2>8 DEF AudioInv, LateInv
  <2>11. OrderInv'
    <3>1. \A i \in DOMAIN segments : segments[i][2] # 0 => segments[i][2] \in DOMAIN turns
      BY DEF AudioInv, AudioTypeOK
    <3>2. \A u, v \in DOMAIN turns' : u < v /\ turns'[u].at # "done" => turns'[v].at = "asr"
      BY <2>4, <2>5 DEF AudioInv, OrderInv
    <3>3. \A u \in DOMAIN turns' : turns'[u].at = "told" => ~turns'[u].cut
      BY <2>4, <2>5 DEF AudioInv, OrderInv
    <3>4. \A i \in DOMAIN segments' : segments'[i][2] # 0 =>
              /\ turns'[segments'[i][2]].at # "asr"
              /\ segments'[i][1] = "proxy" => turns'[segments'[i][2]].at = "done" /\ ~turns'[segments'[i][2]].cut
      BY <1>1, <2>4, <3>1 DEF AudioInv, OrderInv
    <3>5. SegmentsInOrder'
      BY <1>1 DEF AudioInv, OrderInv, SegmentsInOrder
    <3>6. QED
      BY <3>2, <3>3, <3>4, <3>5 DEF OrderInv
  <2>12. EndInv'
    BY <1>1 DEF AudioInv, EndInv, EndOkIsWhole, RecordingKept
  <2>13. CountInv'
    <3>1. \A p : TurnsOf(p)' = TurnsOf(p)
      BY <2>4, <2>5 DEF TurnsOf
    <3>2. \A p \in Speakers : detector'[p] = "long" <=> detector[p] = "long"
      BY <1>1, <1>2
    <3>3. QED
      BY <1>1, <3>1, <3>2 DEF AudioInv, CountInv
  <2>14. QED
    BY <2>7, <2>9, <2>10, <2>11, <2>12, <2>13 DEF AudioInv
<1>5. QED
  BY <1>3, <1>4

(* The chunks of the turn that speaks.                                       *)
LEMMA StreamTtsStep == AudioInv /\ StreamTts => AudioInv'
<1> SUFFICES ASSUME AudioInv, StreamTts PROVE AudioInv'
  OBVIOUS
<1> USE DEF endVars
<1>1. UNCHANGED <<router, detector, segments, transcript, endVars, lateChunks, uttered, audioFaults,
                  audioCrashes>>
  BY DEF StreamTts
<1>2. PICK u \in DOMAIN turns : Publish(u) \/ Captured(u) \/ Dropped(u) \/ StreamEnds(u)
  BY DEF StreamTts
<1>3. /\ turns \in Seq(Turn) /\ Len(turns) \in Nat /\ DOMAIN turns = 1 .. Len(turns) /\ u \in 1 .. Len(turns)
      /\ DOMAIN playing = 1 .. Len(playing) /\ Len(playing) \in Nat /\ \A i \in DOMAIN playing : playing[i] \in DOMAIN turns
      /\ QueueSize \in Nat \ {0} /\ playing \in Seq(Nat) /\ lateChunks \in Seq(Nat)
  BY SMTT(30), MediaAudioAssumption, <1>2 DEF AudioInv, AudioTypeOK, QueueInv, LateInv, Turn, ToSet
<1>4. CASE Publish(u)
  <2>1. /\ turns[u].at = "tts" /\ ~turns[u].cut /\ turns[u].left > 0 /\ Len(playing) < QueueSize
        /\ inflight' = u /\ UNCHANGED <<turns, playing, recorder, wiped>>
    BY <1>4 DEF Publish, At
  <2>2. AudioTypeOK'
    <3>1. inflight' \in 0 .. Len(turns)
      BY <1>3, <2>1
    <3>2. QED
      BY <1>1, <2>1, <3>1 DEF AudioInv, AudioTypeOK
  <2>3. QueueInv'
    BY <2>1 DEF AudioInv, QueueInv
  <2>4. LateInv'
    <3>1. \A i \in DOMAIN playing : turns[playing[i]].cut => playing[i] # u
      BY <2>1
    <3>2. QED
      BY <1>1, <2>1, <3>1 DEF AudioInv, LateInv
  <2>5. OrderInv' /\ CountInv'
    BY <1>1, <2>1, OrderKept, CountKept DEF AudioInv
  <2>6. EndInv'
    BY <1>1, <2>1 DEF AudioInv, EndInv, AllDone, EndOkIsWhole, RecordingKept
  <2>7. QED
    BY <2>2, <2>3, <2>4, <2>5, <2>6 DEF AudioInv
<1>5. CASE Dropped(u)
  <2>1. inflight' = 0 /\ UNCHANGED <<turns, playing, recorder, wiped>>
    BY <1>5 DEF Dropped
  <2>2. AudioTypeOK'
    <3>1. inflight' \in 0 .. Len(turns)
      BY <1>3, <2>1
    <3>2. QED
      BY <1>1, <2>1, <3>1 DEF AudioInv, AudioTypeOK
  <2>3. QueueInv'
    BY <2>1 DEF AudioInv, QueueInv
  <2>4. LateInv'
    <3>1. \A i \in DOMAIN playing : playing[i] # 0
      BY <1>3
    <3>2. QED
      BY <1>1, <2>1, <3>1 DEF AudioInv, LateInv
  <2>5. OrderInv' /\ CountInv'
    BY <1>1, <2>1, OrderKept, CountKept DEF AudioInv
  <2>6. EndInv'
    BY <1>1, <2>1 DEF AudioInv, EndInv, AllDone, EndOkIsWhole, RecordingKept
  <2>7. QED
    BY <2>2, <2>3, <2>4, <2>5, <2>6 DEF AudioInv
<1>6. CASE Captured(u)
  <2> DEFINE n == Len(playing)
  <2>1. /\ inflight = u /\ inflight' = 0 /\ playing' = Append(playing, u)
        /\ IF turns[u].at = "tts" /\ ~turns[u].cut
           THEN turns' = [turns EXCEPT ![u].left = @ - 1] /\ Opened("proxy")
           ELSE UNCHANGED <<turns, recorder, wiped>>
    BY <1>6 DEF Captured
  <2>2. /\ n < QueueSize /\ n + 1 <= QueueSize
        /\ turns[u].at = "tts" /\ ~turns[u].cut => turns[u].left > 0
    BY <1>3, <2>1 DEF AudioInv, QueueInv
  <2>3. /\ playing' \in Seq(Nat) /\ Len(playing') = n + 1 /\ DOMAIN playing' = 1 .. (n + 1) /\ playing'[n + 1] = u
        /\ \A i \in 1 .. n : playing'[i] = playing[i]
    BY <1>3, <2>1
  <2>4. /\ turns' \in Seq(Turn) /\ Len(turns') = Len(turns) /\ DOMAIN turns' = DOMAIN turns
        /\ \A v \in DOMAIN turns : /\ turns'[v].at = turns[v].at /\ turns'[v].who = turns[v].who
                                   /\ turns'[v].cut = turns[v].cut /\ turns'[v].error = turns[v].error
    <3>1. CASE turns[u].at = "tts" /\ ~turns[u].cut
      <4> DEFINE t == [turns[u] EXCEPT !.left = @ - 1]
      <4>1. turns[u] \in Turn /\ turns[u].left \in 0 .. Chunks /\ turns[u].left > 0
        <5>1. turns[u] \in Turn
          BY <1>3
        <5>2. turns[u].left \in 0 .. Chunks
          BY <5>1 DEF Turn
        <5>3. QED
          BY <2>2, <3>1, <5>1, <5>2
      <4>2. turns[u].left - 1 \in 0 .. Chunks
        BY <4>1, MediaAudioAssumption
      <4>3. /\ t \in Turn /\ t.at = turns[u].at /\ t.who = turns[u].who /\ t.cut = turns[u].cut
            /\ t.error = turns[u].error
        BY <4>1, <4>2 DEF Turn
      <4>4. turns' = [turns EXCEPT ![u] = t]
        BY <2>1, <3>1
      <4> HIDE DEF t
      <4>5. /\ turns' \in Seq(Turn) /\ Len(turns') = Len(turns) /\ DOMAIN turns' = DOMAIN turns
            /\ \A v \in DOMAIN turns : turns'[v] = IF v = u THEN t ELSE turns[v]
        BY <1>3, <4>3, <4>4, TurnReplaced
      <4>6. QED
        BY <4>3, <4>5
    <3>2. CASE ~(turns[u].at = "tts" /\ ~turns[u].cut)
      BY <1>3, <2>1, <3>2
    <3>3. QED
      BY <3>1, <3>2
  <2>5. \/ UNCHANGED <<recorder, wiped>>
        \/ /\ turns[u].at = "tts" /\ recorder' = [recorder EXCEPT !["proxy"] = "open"]
           /\ wiped' = IF recorder["proxy"] = "closed" THEN wiped \cup {"proxy"} ELSE wiped
    BY <2>1 DEF Opened
  <2>6. "proxy" \in Tracks
    BY DEF Tracks
  <2>15. \A i \in 1 .. (n + 1) : i \in 1 .. n \/ i = n + 1
    BY <1>3
  <2>7. \A i \in DOMAIN playing' : playing'[i] \in DOMAIN turns
    BY <1>2, <1>3, <2>3, <2>15
  <2>8. AudioTypeOK'
    <3>1. inflight' \in 0 .. Len(turns') /\ ToSet(playing') \subseteq DOMAIN turns' /\ Len(playing') <= QueueSize + 1
      BY <1>3, <2>1, <2>2, <2>3, <2>4, <2>7 DEF ToSet
    <3>2. recorder' \in [Tracks -> {"none", "open", "closed"}] /\ wiped' \subseteq Tracks
      BY <2>5, <2>6 DEF AudioInv, AudioTypeOK
    <3>3. QED
      BY <1>1, <2>4, <3>1, <3>2 DEF AudioInv, AudioTypeOK, Turn
  <2>9. QueueInv'
    BY <2>1, <2>2, <2>3 DEF QueueInv
  <2>10. LateInv'
    <3>1. \A v \in DOMAIN turns' : lateChunks'[v] \in {0, 1} /\ (~turns'[v].cut => lateChunks'[v] = 0)
      BY <1>1, <2>4 DEF AudioInv, LateInv
    <3>2. ASSUME NEW i \in 1 .. (n + 1), turns'[playing'[i]].cut
          PROVE  /\ lateChunks[playing'[i]] = 0 /\ 0 # playing'[i]
                 /\ \A j \in 1 .. (n + 1) : playing'[j] = playing'[i] => j = i
      <4>1. CASE i = n + 1
        <5>1. playing'[i] = u /\ turns[u].cut /\ u # 0
          BY <1>3, <2>3, <2>4, <3>2, <4>1
        <5>2. lateChunks[u] = 0
          BY <2>1, <5>1 DEF AudioInv, LateInv
        <5>3. ASSUME NEW j \in 1 .. n PROVE playing[j] # u
          BY <1>3, <2>1, <5>1 DEF AudioInv, LateInv
        <5>4. \A j \in 1 .. (n + 1) : playing'[j] = u => j = n + 1
          BY <2>3, <2>15, <5>3
        <5>5. QED
          BY <4>1, <5>1, <5>2, <5>4
      <4>2. CASE i # n + 1
        <5>6. i \in 1 .. n /\ playing'[i] = playing[i]
          BY <2>3, <2>15, <4>2
        <5>7. playing[i] \in DOMAIN turns
          BY <1>3, <5>6
        <5>1. i \in 1 .. n /\ playing'[i] = playing[i] /\ playing[i] \in DOMAIN turns /\ turns[playing[i]].cut
          BY <2>4, <3>2, <5>6, <5>7
        <5>2. /\ lateChunks[playing[i]] = 0 /\ u # playing[i]
              /\ \A j \in 1 .. n : playing[j] = playing[i] => j = i
          BY <1>3, <2>1, <5>1 DEF AudioInv, LateInv
        <5>4. playing[i] # 0
          BY <1>3, <5>1
        <5>5. QED
          BY <2>3, <2>15, <5>1, <5>2, <5>4
      <4>3. QED
        BY <4>1, <4>2
    <3>3. lateChunks' \in Seq(Nat) /\ inflight' = 0
      BY <1>1, <1>3, <2>1
    <3>4. QED
      BY <1>1, <2>3, <3>1, <3>2, <3>3 DEF LateInv
  <2>11. OrderInv'
    <3>1. \A i \in DOMAIN segments : segments[i][2] # 0 => segments[i][2] \in DOMAIN turns
      BY SMTT(30) DEF AudioInv, AudioTypeOK
    <3>2. \A v, w \in DOMAIN turns' : v < w /\ turns'[v].at # "done" => turns'[w].at = "asr"
      BY <2>4 DEF AudioInv, OrderInv
    <3>3. \A v \in DOMAIN turns' : turns'[v].at = "told" => ~turns'[v].cut
      BY <2>4 DEF AudioInv, OrderInv
    <3>4. \A i \in DOMAIN segments' : segments'[i][2] # 0 =>
              /\ turns'[segments'[i][2]].at # "asr"
              /\ segments'[i][1] = "proxy" => turns'[segments'[i][2]].at = "done" /\ ~turns'[segments'[i][2]].cut
      BY <1>1, <2>4, <3>1 DEF AudioInv, OrderInv
    <3>5. SegmentsInOrder'
      BY <1>1 DEF AudioInv, OrderInv, SegmentsInOrder
    <3>6. QED
      BY <3>2, <3>3, <3>4, <3>5 DEF OrderInv
  <2>12. EndInv'
    <3>1. AllDone' <=> AllDone
      BY <2>4 DEF AllDone
    <3>2. CASE UNCHANGED <<recorder, wiped>>
      <4>1. \A v \in pending : turns'[v].error = turns[v].error /\ v \in DOMAIN turns
        BY <2>4 DEF AudioInv, AudioTypeOK
      <4>2. \A v \in DOMAIN turns' : turns'[v].at = turns[v].at /\ v \in DOMAIN turns
        BY <2>4
      <4>3. QED
        BY <1>1, <3>1, <3>2, <4>1, <4>2 DEF AudioInv, EndInv, EndOkIsWhole, RecordingKept
    <3>3. CASE ~UNCHANGED <<recorder, wiped>>
      <4>1. /\ recorder' = [recorder EXCEPT !["proxy"] = "open"]
            /\ wiped' = IF recorder["proxy"] = "closed" THEN wiped \cup {"proxy"} ELSE wiped
            /\ ~AllDone
        BY <2>5, <3>3 DEF AllDone
      <4>2. router \in {"open", "gather"} /\ ended # "ok"
        BY <4>1 DEF AudioInv, EndInv, AudioTypeOK
      <4>3. audioCrashes = 0 => wiped' = {} /\ \A t \in Tracks : recorder'[t] # "closed"
        BY <2>6, <4>1, <4>2 DEF AudioInv, EndInv, AudioTypeOK, RecordingKept
      <4>4. \A v \in DOMAIN turns' : turns'[v].at = turns[v].at /\ v \in DOMAIN turns
        BY <2>4
      <4>5. QED
        BY <1>1, <4>2, <4>3, <4>4 DEF AudioInv, EndInv, EndOkIsWhole, RecordingKept
    <3>4. QED
      BY <3>2, <3>3
  <2>13. CountInv'
    <3>1. \A p : TurnsOf(p)' = TurnsOf(p)
      BY <2>4 DEF TurnsOf
    <3>2. QED
      BY <1>1, <3>1 DEF AudioInv, CountInv
  <2>14. QED
    BY <2>8, <2>9, <2>10, <2>11, <2>12, <2>13 DEF AudioInv
<1>7. CASE StreamEnds(u)
  BY <1>1, <1>7, StreamEndsStep
<1>8. QED
  BY <1>2, <1>4, <1>5, <1>6, <1>7

(* The room hears the next chunk.                                            *)
LEMMA PlayStep == AudioInv /\ Play => AudioInv'
<1> SUFFICES ASSUME AudioInv, Play PROVE AudioInv'
  OBVIOUS
<1> USE DEF endVars
<1> DEFINE u == playing[1]
<1> DEFINE n == Len(playing)
<1>1. /\ UNCHANGED <<router, detector, recorder, turns, inflight, segments, transcript,
                     endVars, uttered, wiped, audioFaults, audioCrashes>>
      /\ playing # <<>> /\ playing' = Tail(playing)
      /\ lateChunks' = IF turns[u].cut THEN [lateChunks EXCEPT ![u] = @ + 1] ELSE lateChunks
  BY DEF Play
<1>2. /\ DOMAIN playing = 1 .. n /\ n \in Nat /\ \A i \in 1 .. n : playing[i] \in DOMAIN turns
      /\ DOMAIN lateChunks = DOMAIN turns /\ Len(lateChunks') = Len(lateChunks)
      /\ playing \in Seq(Nat) /\ lateChunks \in Seq(Nat)
  <2>1. playing \in Seq(Nat) /\ lateChunks \in Seq(Nat) /\ turns \in Seq(Turn) /\ Len(lateChunks) = Len(turns)
    BY DEF AudioInv, AudioTypeOK, QueueInv, LateInv, Turn
  <2>2. \A i \in DOMAIN playing : playing[i] \in DOMAIN turns
    BY DEF AudioInv, AudioTypeOK, ToSet
  <2>3. DOMAIN playing = 1 .. n /\ n \in Nat /\ DOMAIN lateChunks = DOMAIN turns
    BY <2>1
  <2>4. Len(lateChunks') = Len(lateChunks)
    BY <1>1, <2>1
  <2>5. QED
    BY <2>1, <2>2, <2>3, <2>4
<1>3. /\ n > 0 /\ playing' \in Seq(Nat) /\ Len(playing') = n - 1 /\ DOMAIN playing' = 1 .. (n - 1)
      /\ \A i \in 1 .. (n - 1) : playing'[i] = playing[i + 1] /\ i + 1 \in 1 .. n
  BY <1>1, <1>2
<1>4. u \in DOMAIN turns /\ 1 \in DOMAIN playing
  BY <1>2, <1>3
<1>5. AudioTypeOK'
  <2>3. Len(playing') <= QueueSize + 1
    BY <1>2, <1>3, MediaAudioAssumption DEF AudioInv, AudioTypeOK
  <2>4. \A i \in DOMAIN playing' : playing'[i] \in DOMAIN turns
    BY <1>2, <1>3
  <2>1. ToSet(playing') \subseteq DOMAIN turns' /\ Len(playing') <= QueueSize + 1
    BY <1>1, <2>3, <2>4 DEF ToSet
  <2>2. QED
    BY <1>1, <1>2, <2>1 DEF AudioInv, AudioTypeOK
<1>6. QueueInv'
  BY <1>1, <1>2, <1>3, MediaAudioAssumption DEF AudioInv, QueueInv
<1>7. LateInv'
  <2>1. CASE ~turns[u].cut
    <3>1. lateChunks' = lateChunks
      BY <1>1, <2>1
    <3>2. ASSUME NEW i \in 1 .. (n - 1), turns[playing'[i]].cut
          PROVE  /\ lateChunks[playing'[i]] = 0 /\ inflight # playing'[i]
                 /\ \A j \in 1 .. (n - 1) : playing'[j] = playing'[i] => j = i
      <4>1. /\ lateChunks[playing[i + 1]] = 0 /\ inflight # playing[i + 1]
            /\ \A j \in 1 .. n : playing[j] = playing[i + 1] => j = i + 1
        BY <1>2, <1>3, <3>2 DEF AudioInv, LateInv
      <4>2. ASSUME NEW j \in 1 .. (n - 1), playing'[j] = playing'[i] PROVE j = i
        <5>1. j + 1 = i + 1
          BY <1>3, <4>1, <4>2
        <5>2. QED
          BY <5>1
      <4>3. QED
        BY <1>3, <4>1, <4>2
    <3>3. QED
      BY <1>1, <1>3, <3>1, <3>2 DEF AudioInv, LateInv
  <2>2. CASE turns[u].cut
    <3>1. /\ lateChunks[u] = 0 /\ inflight # u
          /\ \A j \in 1 .. n : playing[j] = u => j = 1
      BY <1>2, <1>4, <2>2 DEF AudioInv, LateInv
    <3>2. \A v \in DOMAIN turns : lateChunks'[v] = IF v = u THEN 1 ELSE lateChunks[v]
      BY <1>1, <1>2, <2>2, <3>1
    <3>3. \A v \in DOMAIN turns' : lateChunks'[v] \in {0, 1} /\ (~turns'[v].cut => lateChunks'[v] = 0)
      BY <1>1, <2>2, <3>2 DEF AudioInv, LateInv
    <3>4. inflight # 0 => inflight \in DOMAIN turns
      BY DEF AudioInv, AudioTypeOK
    <3>5. inflight' # 0 /\ turns'[inflight'].cut => lateChunks'[inflight'] = 0
      BY <1>1, <3>1, <3>2, <3>4 DEF AudioInv, LateInv
    <3>6. ASSUME NEW i \in 1 .. (n - 1), turns[playing'[i]].cut
          PROVE  /\ lateChunks'[playing'[i]] = 0 /\ inflight # playing'[i]
                 /\ \A j \in 1 .. (n - 1) : playing'[j] = playing'[i] => j = i
      <4>1. /\ lateChunks[playing[i + 1]] = 0 /\ inflight # playing[i + 1]
            /\ \A j \in 1 .. n : playing[j] = playing[i + 1] => j = i + 1
        BY <1>2, <1>3, <3>6 DEF AudioInv, LateInv
      <4>2. ASSUME NEW j \in 1 .. (n - 1), playing'[j] = playing'[i] PROVE j = i
        <5>1. j + 1 = i + 1
          BY <1>3, <4>1, <4>2
        <5>2. QED
          BY <5>1
      <4>3. i + 1 # 1 /\ playing[i + 1] \in DOMAIN turns
        BY <1>2, <1>3
      <4>4. playing[i + 1] # u
        BY <1>3, <3>1, <4>3
      <4>5. QED
        BY <1>3, <3>2, <4>1, <4>2, <4>3, <4>4
    <3>7. lateChunks' \in Seq(Nat)
      BY <1>1, <1>2, <1>4
    <3>8. QED
      BY <1>1, <1>3, <3>3, <3>5, <3>6, <3>7 DEF LateInv
  <2>3. QED
    BY <2>1, <2>2
<1>8. OrderInv' /\ CountInv'
  BY <1>1, OrderKept, CountKept DEF AudioInv
<1>9. EndInv'
  BY <1>1 DEF AudioInv, EndInv, AllDone, EndOkIsWhole, RecordingKept
<1>10. QED
  BY <1>5, <1>6, <1>7, <1>8, <1>9 DEF AudioInv

-----------------------------------------------------------------------------
(* Utterances become turns behind those that are there.                      *)
LEMMA TurnsAdded ==
    ASSUME AudioInv, NEW n \in Nat, turns' \in Seq(Turn), Len(turns') = Len(turns) + n,
           \A v \in DOMAIN turns : turns'[v] = turns[v],
           \A v \in DOMAIN turns' : v \notin DOMAIN turns =>
               turns'[v].at = "asr" /\ ~turns'[v].cut /\ ~turns'[v].error,
           lateChunks' \in Seq(Nat), Len(lateChunks') = Len(turns'), \A v \in DOMAIN turns : lateChunks'[v] = lateChunks[v],
           \A v \in DOMAIN turns' : v \notin DOMAIN turns => lateChunks'[v] = 0,
           UNCHANGED <<recorder, inflight, playing, segments, transcript, unheard, ended,
                       wiped, audioFaults, audioCrashes>>,
           router' \in {"open", "gather"}, failed' \in BOOLEAN, uttered' = uttered,
           detector' \in [Speakers -> {"quiet", "short", "long"}], pending' \subseteq DOMAIN turns'
    PROVE  AudioTypeOK' /\ QueueInv' /\ LateInv' /\ OrderInv'
<1>1. /\ turns \in Seq(Turn) /\ Len(turns) \in Nat /\ DOMAIN turns = 1 .. Len(turns)
      /\ \A i \in DOMAIN playing : playing[i] \in DOMAIN turns
      /\ inflight # 0 => inflight \in DOMAIN turns
      /\ segments \in Seq(Tracks \X (0 .. Len(turns)))
      /\ \A i \in DOMAIN segments : segments[i][2] # 0 => segments[i][2] \in DOMAIN turns
  <2>1. turns \in Seq(Turn) /\ segments \in Seq(Tracks \X (0 .. Len(turns)))
    BY DEF AudioInv, AudioTypeOK, Turn
  <2>2. /\ Len(turns) \in Nat /\ DOMAIN turns = 1 .. Len(turns)
        /\ \A i \in DOMAIN segments : segments[i] \in Tracks \X (0 .. Len(turns))
    BY <2>1
  <2>6. \A i \in DOMAIN playing : playing[i] \in DOMAIN turns
    BY DEF AudioInv, AudioTypeOK, ToSet
  <2>7. inflight \in 0 .. Len(turns)
    BY DEF AudioInv, AudioTypeOK
  <2>3. (\A i \in DOMAIN playing : playing[i] \in DOMAIN turns) /\ (inflight # 0 => inflight \in DOMAIN turns)
    BY <2>2, <2>6, <2>7
  <2>4. \A i \in DOMAIN segments : segments[i][2] # 0 => segments[i][2] \in DOMAIN turns
    BY <2>2
  <2>5. QED
    BY <2>1, <2>2, <2>3, <2>4
<1>2. /\ DOMAIN turns' = 1 .. (Len(turns) + n) /\ DOMAIN turns \subseteq DOMAIN turns'
      /\ 0 .. Len(turns) \subseteq 0 .. Len(turns')
  BY <1>1
<1>3. AudioTypeOK'
  <2>1. segments' \in Seq(Tracks \X (0 .. Len(turns')))
    <3>1. Tracks \X (0 .. Len(turns)) \subseteq Tracks \X (0 .. Len(turns'))
      BY <1>2
    <3>2. QED
      BY <1>1, <3>1
  <2>2. inflight' \in 0 .. Len(turns') /\ ToSet(playing') \subseteq DOMAIN turns' /\ Len(playing') <= QueueSize + 1
    BY <1>2 DEF AudioInv, AudioTypeOK, ToSet
  <2>3. /\ router' \in {"absent", "open", "gather", "recover", "summary"}
        /\ recorder' \in [Tracks -> {"none", "open", "closed"}]
        /\ Cardinality(transcript') <= 1 /\ unheard' \subseteq Speakers
        /\ ended' \in {"no", "ok", "error", "cancelled"} /\ uttered' \in [Speakers -> Nat]
        /\ wiped' \subseteq Tracks /\ audioFaults' \in 0 .. MaxAudioFaults
        /\ audioCrashes' \in 0 .. MaxAudioCrashes
    BY DEF AudioInv, AudioTypeOK
  <2>4. QED
    BY <2>1, <2>2, <2>3 DEF AudioTypeOK, Turn
<1>4. QueueInv'
  BY <1>1 DEF AudioInv, QueueInv
<1>5. LateInv'
  <2>1. \A v \in DOMAIN turns' : lateChunks'[v] \in {0, 1} /\ (~turns'[v].cut => lateChunks'[v] = 0)
    BY <1>2 DEF AudioInv, LateInv
  <2>2. inflight' # 0 /\ turns'[inflight'].cut => lateChunks'[inflight'] = 0
    BY <1>1 DEF AudioInv, LateInv
  <2>3. \A i \in DOMAIN playing' :
            turns'[playing'[i]].cut =>
                /\ lateChunks'[playing'[i]] = 0 /\ inflight' # playing'[i]
                /\ \A j \in DOMAIN playing' : playing'[j] = playing'[i] => j = i
    <3> SUFFICES ASSUME NEW i \in DOMAIN playing, turns'[playing[i]].cut
                 PROVE  /\ lateChunks'[playing[i]] = 0 /\ inflight # playing[i]
                        /\ \A j \in DOMAIN playing : playing[j] = playing[i] => j = i
      OBVIOUS
    <3>1. playing[i] \in DOMAIN turns /\ turns[playing[i]].cut
      BY <1>1
    <3>2. lateChunks'[playing[i]] = lateChunks[playing[i]]
      BY <3>1
    <3>3. QED
      BY <3>1, <3>2 DEF AudioInv, LateInv
  <2>4. QED
    BY <2>1, <2>2, <2>3 DEF LateInv
<1>6. OrderInv'
  <2>1. ASSUME NEW v \in DOMAIN turns', NEW w \in DOMAIN turns', v < w, turns'[v].at # "done"
        PROVE  turns'[w].at = "asr"
    <3>1. CASE w \in DOMAIN turns
      <4>1. v \in DOMAIN turns
        BY <1>1, <1>2, <2>1, <3>1
      <4>2. QED
        BY <2>1, <3>1, <4>1 DEF AudioInv, OrderInv
    <3>2. CASE w \notin DOMAIN turns
      BY <3>2
    <3>3. QED
      BY <3>1, <3>2
  <2>2. \A v \in DOMAIN turns' : turns'[v].at = "told" => ~turns'[v].cut
    BY DEF AudioInv, OrderInv
  <2>3. \A i \in DOMAIN segments' : segments'[i][2] # 0 =>
            /\ turns'[segments'[i][2]].at # "asr"
            /\ segments'[i][1] = "proxy" => turns'[segments'[i][2]].at = "done" /\ ~turns'[segments'[i][2]].cut
    BY <1>1 DEF AudioInv, OrderInv
  <2>4. SegmentsInOrder'
    BY DEF AudioInv, OrderInv, SegmentsInOrder
  <2>5. QED
    BY <2>1, <2>2, <2>3, <2>4 DEF OrderInv
<1>7. QED
  BY <1>3, <1>4, <1>5, <1>6

LEMMA Concatenated ==
    ASSUME NEW T, NEW s \in Seq(T), NEW t \in Seq(T), NEW r, r = s \o t
    PROVE  /\ r \in Seq(T) /\ Len(r) = Len(s) + Len(t)
           /\ \A i \in 1 .. Len(s) : r[i] = s[i]
           /\ \A i \in 1 .. Len(t) : r[Len(s) + i] = t[i]
<1>1. r \in Seq(T) /\ Len(r) = Len(s) + Len(t) /\ Len(s) \in Nat /\ Len(t) \in Nat
  OBVIOUS
<1>2. \A i \in 1 .. Len(s) : r[i] = s[i]
  OBVIOUS
<1>3. ASSUME NEW i \in 1 .. Len(t) PROVE r[Len(s) + i] = t[i]
  <2>1. Len(s) + i \in 1 .. (Len(s) + Len(t)) /\ ~(Len(s) + i <= Len(s)) /\ Len(s) + i - Len(s) = i
    BY <1>1
  <2>2. QED
    BY <1>1, <2>1
<1>4. QED
  BY <1>1, <1>2, <1>3

LEMMA NewTurnFacts ==
    ASSUME NEW s \in Speakers
    PROVE  LET t == NewTurn(s, TRUE) IN
           t \in Turn /\ t.who = s /\ t.at = "asr" /\ ~t.cut /\ ~t.error
  BY MediaAudioAssumption DEF NewTurn, Turn, Stages

LEMMA SpeechEndsStep == ASSUME AudioInv, NEW s \in Speakers, SpeechEnds(s) PROVE AudioInv'
<1> USE DEF endVars
<1> DEFINE n == Len(turns)
<1>1. /\ router = "open" /\ detector[s] # "quiet" /\ detector' = [detector EXCEPT ![s] = "quiet"]
      /\ IF detector[s] = "long"
         THEN turns' = Append(turns, NewTurn(s, TRUE)) /\ lateChunks' = Append(lateChunks, 0)
         ELSE UNCHANGED <<turns, lateChunks>>
      /\ UNCHANGED <<router, recorder, inflight, playing, segments, transcript, endVars,
                     uttered, wiped, audioFaults, audioCrashes>>
  BY DEF SpeechEnds
<1>2. /\ turns \in Seq(Turn) /\ n \in Nat /\ DOMAIN turns = 1 .. n
      /\ detector \in [Speakers -> {"quiet", "short", "long"}]
      /\ lateChunks \in Seq(Nat) /\ DOMAIN lateChunks = 1 .. n /\ Len(lateChunks) = n /\ pending \subseteq 1 .. n
  BY DEF AudioInv, AudioTypeOK, LateInv, Turn
<1>3. \A p \in Speakers : detector'[p] = IF p = s THEN "quiet" ELSE detector[p]
  BY <1>1, <1>2
<1>4. CASE detector[s] # "long"
  <2>1. UNCHANGED <<turns, lateChunks>>
    BY <1>1, <1>4
  <2>2. AudioTypeOK'
    BY <1>1, <2>1 DEF AudioInv, AudioTypeOK
  <2>3. QueueInv' /\ LateInv' /\ OrderInv'
    BY <1>1, <2>1, QueueKept, LateKept, OrderKept DEF AudioInv
  <2>4. EndInv'
    BY <1>1, <2>1 DEF AudioInv, EndInv, EndOkIsWhole, RecordingKept
  <2>5. \A p \in Speakers : detector'[p] = "long" <=> detector[p] = "long"
    BY <1>3, <1>4
  <2>6. CountInv'
    BY <1>1, <2>1, <2>5, CountKept DEF AudioInv
  <2>7. QED
    BY <2>2, <2>3, <2>4, <2>6 DEF AudioInv
<1>5. CASE detector[s] = "long"
  <2> DEFINE t == NewTurn(s, TRUE)
  <2>1. turns' = Append(turns, t) /\ lateChunks' = Append(lateChunks, 0)
    BY <1>1, <1>5
  <2>2. t \in Turn /\ t.who = s /\ t.at = "asr" /\ ~t.cut /\ ~t.error
    BY NewTurnFacts
  <2> HIDE DEF t
  <2>3. /\ turns' \in Seq(Turn) /\ Len(turns') = n + 1 /\ DOMAIN turns' = 1 .. (n + 1)
        /\ turns'[n + 1] = t /\ \A v \in DOMAIN turns : turns'[v] = turns[v]
    BY <1>2, <2>1, <2>2, SegmentAdded
  <2>4. /\ lateChunks' \in Seq(Nat) /\ Len(lateChunks') = n + 1 /\ lateChunks'[n + 1] = 0
        /\ \A v \in 1 .. n : lateChunks'[v] = lateChunks[v]
    BY <1>2, <2>1
  <2>5. \A v \in DOMAIN turns' : v \notin DOMAIN turns => v = n + 1
    BY <1>2, <2>3
  <2>6. /\ detector' \in [Speakers -> {"quiet", "short", "long"}] /\ pending' \subseteq DOMAIN turns'
        /\ failed' \in BOOLEAN
    BY <1>1, <1>2, <2>3 DEF AudioInv, AudioTypeOK
  <2>7. AudioTypeOK' /\ QueueInv' /\ LateInv' /\ OrderInv'
    <3>1. \A v \in DOMAIN turns' : v \notin DOMAIN turns =>
              turns'[v].at = "asr" /\ ~turns'[v].cut /\ ~turns'[v].error /\ lateChunks'[v] = 0
      BY <2>2, <2>3, <2>4, <2>5
    <3>2. /\ lateChunks' \in Seq(Nat) /\ Len(turns') = Len(turns) + 1 /\ Len(lateChunks') = Len(turns')
          /\ \A v \in DOMAIN turns : lateChunks'[v] = lateChunks[v]
      BY <1>2, <2>3, <2>4
    <3>3. QED
      BY <1>1, <2>3, <2>6, <3>1, <3>2, TurnsAdded
  <2>8. EndInv'
    BY <1>1 DEF AudioInv, EndInv, EndOkIsWhole, RecordingKept
  <2>9. CountInv'
    <3> SUFFICES ASSUME audioCrashes = 0, ended # "cancelled", NEW p \in Speakers
                 PROVE  uttered[p] = Cardinality(TurnsOf(p)') + (IF detector'[p] = "long" THEN 1 ELSE 0)
      BY <1>1 DEF CountInv
    <3>1. /\ uttered[p] = Cardinality(TurnsOf(p)) + (IF detector[p] = "long" THEN 1 ELSE 0)
          /\ IsFiniteSet(TurnsOf(p)) /\ Cardinality(TurnsOf(p)) \in Nat
      BY TurnsFinite DEF AudioInv, CountInv
    <3>2. n + 1 \notin TurnsOf(p)
      BY <1>2 DEF TurnsOf
    <3>3. CASE p = s
      <4>1. TurnsOf(p)' = TurnsOf(p) \cup {n + 1}
        BY <1>2, <2>2, <2>3, <3>3 DEF TurnsOf
      <4>2. Cardinality(TurnsOf(p) \cup {n + 1}) = Cardinality(TurnsOf(p)) + 1
        BY <3>1, <3>2, FS_AddElement
      <4>3. QED
        BY <1>3, <1>5, <3>1, <3>3, <4>1, <4>2
    <3>4. CASE p # s
      <4>1. TurnsOf(p)' = TurnsOf(p)
        BY <1>2, <2>2, <2>3, <3>4 DEF TurnsOf
      <4>2. QED
        BY <1>3, <3>1, <3>4, <4>1
    <3>5. QED
      BY <3>3, <3>4
  <2>10. QED
    BY <2>7, <2>8, <2>9 DEF AudioInv
<1>6. QED
  BY <1>4, <1>5

(* END: each of the speakers who still speak gives one turn.                 *)
LEMMA CloseStep == AudioInv /\ Close => AudioInv'
<1> SUFFICES ASSUME AudioInv, Close PROVE AudioInv'
  OBVIOUS
<1> DEFINE n == Len(turns)
<1> DEFINE L == {s \in Speakers : detector[s] = "long"}
<1> DEFINE k == Cardinality(L)
<1>1. /\ router = "open" /\ router' = "gather"
      /\ pending' = {u \in DOMAIN turns' : turns'[u].at # "done"}
      /\ detector' = [s \in Speakers |-> "quiet"] /\ failed' = FALSE
      /\ UNCHANGED <<recorder, inflight, playing, segments, transcript, unheard, ended,
                     uttered, wiped, audioFaults, audioCrashes>>
  BY DEF Close
<1>2. PICK order \in SetToSeqs(L) :
          /\ turns' = turns \o [i \in DOMAIN order |-> NewTurn(order[i], TRUE)]
          /\ lateChunks' = lateChunks \o [i \in DOMAIN order |-> 0]
  BY DEF Close
<1>3. IsFiniteSet(L) /\ k \in Nat
  <2>1. IsFiniteSet(L)
    BY FS_Subset, MediaAudioAssumption
  <2>2. QED
    BY <2>1, FS_CardinalityType
<1>4. order \in [1 .. k -> L] /\ \A i, j \in 1 .. k : i # j => order[i] # order[j]
  BY DEF SetToSeqs
<1>5. \A s \in L : \E i \in 1 .. k : order[i] = s
  <2>1. order \in Injection(1 .. k, L)
    BY <1>4 DEF Injection, IsInjective
  <2>2. Cardinality(1 .. k) = k
    BY <1>3, FS_Interval
  <2>3. order \in Surjection(1 .. k, L)
    BY <1>3, <2>1, <2>2, FS_Injection
  <2>4. QED
    BY <2>3 DEF Surjection
<1> HIDE DEF k
<1>6. /\ turns \in Seq(Turn) /\ n \in Nat /\ DOMAIN turns = 1 .. n /\ DOMAIN lateChunks = 1 .. n
      /\ Len(lateChunks) = n /\ lateChunks \in Seq(Nat)
  BY DEF AudioInv, AudioTypeOK, LateInv, Turn
<1> DEFINE made == [i \in 1 .. k |-> NewTurn(order[i], TRUE)]
<1> DEFINE none == [i \in 1 .. k |-> 0]
<1>7. turns' = turns \o made /\ lateChunks' = lateChunks \o none
  BY <1>2, <1>4
<1>8. /\ made \in [1 .. k -> Turn] /\ Len(made) = k /\ made \in Seq(Turn)
      /\ \A i \in 1 .. k : /\ made[i].who = order[i] /\ made[i].at = "asr"
                           /\ ~made[i].cut /\ ~made[i].error
  <2>1. \A i \in 1 .. k : LET t == NewTurn(order[i], TRUE) IN
            t \in Turn /\ t.who = order[i] /\ t.at = "asr" /\ ~t.cut /\ ~t.error
    BY <1>4, NewTurnFacts
  <2>2. made \in [1 .. k -> Turn]
    BY <2>1
  <2> HIDE DEF made
  <2>3. Len(made) = k /\ made \in Seq(Turn)
    BY <1>3, <2>2
  <2>4. \A i \in 1 .. k : made[i] = NewTurn(order[i], TRUE)
    BY DEF made
  <2>5. QED
    BY <2>1, <2>2, <2>3, <2>4
<1>9. none \in Seq(Nat) /\ Len(none) = k /\ \A i \in 1 .. k : none[i] = 0
  <2>1. none \in [1 .. k -> Nat]
    OBVIOUS
  <2>2. QED
    BY <1>3, <2>1
<1> HIDE DEF made, none, n, L
<1>10. /\ turns' \in Seq(Turn) /\ Len(turns') = n + k /\ DOMAIN turns' = 1 .. (n + k)
       /\ \A v \in 1 .. n : turns'[v] = turns[v]
       /\ \A i \in 1 .. k : turns'[n + i] = made[i]
  <2>1. turns \in Seq(Turn) /\ made \in Seq(Turn) /\ Len(made) = k /\ Len(turns) = n
    BY <1>6, <1>8 DEF n
  <2>2. /\ turns' \in Seq(Turn) /\ Len(turns') = Len(turns) + Len(made)
        /\ \A v \in 1 .. Len(turns) : turns'[v] = turns[v]
        /\ \A i \in 1 .. Len(made) : turns'[Len(turns) + i] = made[i]
    <3>1. turns \in Seq(Turn) /\ made \in Seq(Turn) /\ turns' = turns \o made
      BY <1>7, <2>1
    <3>2. QED
      BY <3>1, Concatenated
  <2>3. DOMAIN turns' = 1 .. (n + k)
    BY <2>1, <2>2
  <2>4. QED
    BY <2>1, <2>2, <2>3
<1>11. /\ lateChunks' \in Seq(Nat) /\ Len(lateChunks') = n + k /\ \A v \in 1 .. n : lateChunks'[v] = lateChunks[v]
       /\ \A i \in 1 .. k : lateChunks'[n + i] = 0
  <2>1. /\ lateChunks' \in Seq(Nat) /\ Len(lateChunks') = Len(lateChunks) + Len(none)
        /\ \A v \in 1 .. Len(lateChunks) : lateChunks'[v] = lateChunks[v]
        /\ \A i \in 1 .. Len(none) : lateChunks'[Len(lateChunks) + i] = none[i]
    <3>1. lateChunks \in Seq(Nat) /\ none \in Seq(Nat) /\ lateChunks' = lateChunks \o none
      BY <1>6, <1>7, <1>9
    <3>2. QED
      BY <3>1, Concatenated
  <2>2. QED
    BY <1>6, <1>9, <2>1
<1>12. \A v \in 1 .. (n + k) : v \notin 1 .. n => \E i \in 1 .. k : v = n + i
  <2> SUFFICES ASSUME NEW v \in 1 .. (n + k), v \notin 1 .. n PROVE \E i \in 1 .. k : v = n + i
    OBVIOUS
  <2>1. v - n \in 1 .. k /\ v = n + (v - n)
    BY <1>3, <1>6
  <2>2. QED
    BY <2>1
<1>13. AudioTypeOK' /\ QueueInv' /\ LateInv' /\ OrderInv'
  <2>1. \A v \in DOMAIN turns' : v \notin DOMAIN turns =>
            turns'[v].at = "asr" /\ ~turns'[v].cut /\ ~turns'[v].error /\ lateChunks'[v] = 0
    BY <1>6, <1>8, <1>10, <1>11, <1>12
  <2>2. /\ Len(turns') = Len(turns) + k /\ lateChunks' \in Seq(Nat) /\ Len(lateChunks') = Len(turns')
        /\ \A v \in DOMAIN turns : turns'[v] = turns[v] /\ lateChunks'[v] = lateChunks[v]
    BY <1>6, <1>10, <1>11 DEF n
  <2>3. /\ detector' \in [Speakers -> {"quiet", "short", "long"}] /\ pending' \subseteq DOMAIN turns'
        /\ failed' \in BOOLEAN /\ router' \in {"open", "gather"}
    BY <1>1
  <2>4. QED
    BY <1>1, <1>3, <1>10, <2>1, <2>2, <2>3, TurnsAdded
<1>14. EndInv'
  BY <1>1 DEF AudioInv, EndInv, EndOkIsWhole, RecordingKept
<1>15. CountInv'
  <2> SUFFICES ASSUME audioCrashes = 0, ended # "cancelled", NEW p \in Speakers
               PROVE  uttered[p] = Cardinality(TurnsOf(p)') + 0
    BY <1>1 DEF CountInv
  <2>1. /\ uttered[p] = Cardinality(TurnsOf(p)) + (IF detector[p] = "long" THEN 1 ELSE 0)
        /\ IsFiniteSet(TurnsOf(p)) /\ Cardinality(TurnsOf(p)) \in Nat
    BY TurnsFinite DEF AudioInv, CountInv
  <2>2. CASE detector[p] = "long"
    <3>1. p \in L
      BY <2>2 DEF L
    <3>2. PICK i \in 1 .. k : order[i] = p
      BY <1>5, <3>1
    <3>3. n + i \in 1 .. (n + k) /\ n + i \notin 1 .. n
      BY <1>3, <1>6
    <3>4. \A v \in 1 .. (n + k) : v \notin 1 .. n /\ turns'[v].who = p => v = n + i
      BY <1>4, <1>8, <1>10, <1>12, <3>2
    <3>5. turns'[n + i].who = p
      BY <1>8, <1>10, <3>2
    <3>6. TurnsOf(p)' = TurnsOf(p) \cup {n + i}
      <4>1. \A v : v \in TurnsOf(p)' <=> v \in 1 .. (n + k) /\ turns'[v].who = p
        BY <1>10 DEF TurnsOf
      <4>2. \A v : v \in TurnsOf(p) <=> v \in 1 .. n /\ turns[v].who = p
        BY <1>6 DEF TurnsOf
      <4>3. 1 .. n \subseteq 1 .. (n + k)
        BY <1>3, <1>6
      <4>4. \A v : v \in TurnsOf(p)' <=> v \in TurnsOf(p) \/ v = n + i
        BY <1>10, <3>3, <3>4, <3>5, <4>1, <4>2, <4>3
      <4>5. QED
        BY <4>4
    <3>7. n + i \notin TurnsOf(p)
      BY <1>6, <3>3 DEF TurnsOf
    <3>8. Cardinality(TurnsOf(p) \cup {n + i}) = Cardinality(TurnsOf(p)) + 1
      BY <2>1, <3>7, FS_AddElement
    <3>9. QED
      BY <2>1, <2>2, <3>6, <3>8
  <2>3. CASE detector[p] # "long"
    <3>1. \A i \in 1 .. k : order[i] # p
      BY <1>4, <2>3 DEF L
    <3>2. TurnsOf(p)' = TurnsOf(p)
      <4>1. \A v : v \in TurnsOf(p)' <=> v \in 1 .. (n + k) /\ turns'[v].who = p
        BY <1>10 DEF TurnsOf
      <4>2. \A v : v \in TurnsOf(p) <=> v \in 1 .. n /\ turns[v].who = p
        BY <1>6 DEF TurnsOf
      <4>3. 1 .. n \subseteq 1 .. (n + k)
        BY <1>3, <1>6
      <4>4. \A v \in 1 .. (n + k) : v \notin 1 .. n => turns'[v].who # p
        BY <1>8, <1>10, <1>12, <3>1
      <4>5. \A v : v \in TurnsOf(p)' <=> v \in TurnsOf(p)
        BY <1>10, <4>1, <4>2, <4>3, <4>4
      <4>6. QED
        BY <4>5
    <3>3. QED
      BY <2>1, <2>3, <3>2
  <2>4. QED
    BY <2>2, <2>3
<1>16. QED
  BY <1>13, <1>14, <1>15 DEF AudioInv

-----------------------------------------------------------------------------
(* END goes on.                                                              *)
LEMMA GatherStep == AudioInv /\ Gather => AudioInv'
<1> SUFFICES ASSUME AudioInv, Gather PROVE AudioInv'
  OBVIOUS
<1> USE DEF turnVars
<1>1. /\ router = "gather" /\ router' = "recover" /\ \A u \in pending : turns[u].at = "done"
      /\ failed' = (\E u \in pending : turns[u].error)
      /\ recorder' = [t \in Tracks |-> IF recorder[t] = "open" THEN "closed" ELSE recorder[t]]
      /\ unheard' \subseteq Speakers
      /\ UNCHANGED <<detector, turnVars, segments, transcript, pending, ended, uttered, wiped,
                     audioFaults, audioCrashes>>
  BY DEF Gather, CloseRecorders
<1>2. AudioTypeOK'
  <2>1. failed' \in BOOLEAN
    BY <1>1
  <2>2. recorder' \in [Tracks -> {"none", "open", "closed"}]
    BY <1>1 DEF AudioInv, AudioTypeOK
  <2>3. QED
    BY <1>1, <2>1, <2>2 DEF AudioInv, AudioTypeOK
<1>3. QueueInv' /\ LateInv' /\ OrderInv' /\ CountInv'
  BY <1>1, QueueKept, LateKept, OrderKept, CountKept DEF AudioInv
<1>4. EndInv'
  <2>1. AllDone'
    <3>1. \A u \in DOMAIN turns : turns[u].at # "done" => u \in pending
      BY <1>1 DEF AudioInv, EndInv
    <3>2. AllDone
      BY <1>1, <3>1 DEF AllDone
    <3>3. QED
      BY <1>1, <3>2 DEF AllDone
  <2>2. \A t \in Tracks : recorder'[t] # "open"
    BY <1>1
  <2>3. ~failed' => \A u \in pending' : ~turns'[u].error
    BY <1>1
  <2>4. ended # "ok"
    BY <1>1 DEF AudioInv, EndInv
  <2>5. QED
    BY <1>1, <2>1, <2>2, <2>3, <2>4 DEF AudioInv, EndInv, EndOkIsWhole, RecordingKept
<1>5. QED
  BY <1>2, <1>3, <1>4 DEF AudioInv

(* The whole track of a speaker is said behind everything else.              *)
LEMMA RecoverStep == ASSUME AudioInv, NEW s \in Speakers, Recover(s) PROVE AudioInv'
<1> USE DEF turnVars
<1> DEFINE g == <<s, 0>>
<1>1. /\ router = "recover" /\ s \in unheard
      /\ \/ /\ \/ segments' = Append(segments, g)
               \/ segments' = segments
            /\ unheard' = unheard \ {s} /\ UNCHANGED <<failed, audioFaults>>
         \/ /\ MayFail /\ audioFaults' = audioFaults + 1 /\ failed' = TRUE /\ unheard' = {}
            /\ UNCHANGED segments
      /\ UNCHANGED <<router, detector, recorder, turnVars, transcript, pending, ended,
                     uttered, wiped, audioCrashes>>
  BY DEF Recover
<1> DEFINE S == Tracks \X (0 .. Len(turns))
<1> DEFINE n == Len(segments)
<1>2. /\ segments \in Seq(S) /\ n \in Nat /\ DOMAIN segments = 1 .. n /\ Len(turns) \in Nat
  BY DEF AudioInv, AudioTypeOK
<1>3. g \in S /\ g[2] = 0
  BY <1>2 DEF Tracks
<1> HIDE DEF S, g
<1>4. /\ segments' \in Seq(S)
      /\ \A i \in DOMAIN segments' : \/ i \in DOMAIN segments /\ segments'[i] = segments[i]
                                     \/ segments'[i][2] = 0
  <2>1. CASE segments' = segments
    BY <1>2, <2>1
  <2>2. CASE segments' = Append(segments, g)
    <3>1. /\ segments' \in Seq(S) /\ DOMAIN segments' = 1 .. (n + 1)
          /\ segments'[n + 1] = g /\ \A i \in DOMAIN segments : segments'[i] = segments[i]
      BY <1>2, <1>3, <2>2, SegmentAdded
    <3>2. \A i \in 1 .. (n + 1) : i \in DOMAIN segments \/ i = n + 1
      BY <1>2
    <3>3. QED
      BY <1>3, <3>1, <3>2
  <2>3. QED
    BY <1>1, <2>1, <2>2
<1>5. AudioTypeOK'
  <2>1. failed' \in BOOLEAN /\ unheard' \subseteq Speakers
    BY <1>1 DEF AudioInv, AudioTypeOK
  <2>2. audioFaults' \in 0 .. MaxAudioFaults
    BY <1>1, MediaAudioAssumption DEF AudioInv, AudioTypeOK, MayFail
  <2>3. QED
    BY <1>1, <1>4, <2>1, <2>2 DEF AudioInv, AudioTypeOK, S
<1>6. QueueInv' /\ LateInv' /\ CountInv'
  BY <1>1, QueueKept, LateKept, CountKept DEF AudioInv
<1>7. OrderInv'
  <2>1. SegmentsInOrder'
    <3> SUFFICES ASSUME NEW i \in DOMAIN segments', NEW j \in DOMAIN segments', i < j, segments'[j][2] # 0
                 PROVE  \/ segments'[i][2] < segments'[j][2]
                        \/ segments'[i][2] = segments'[j][2] /\ segments'[j][1] = "proxy"
      BY DEF SegmentsInOrder
    <3>1. j \in DOMAIN segments /\ segments'[j] = segments[j]
      BY <1>4
    <3>2. CASE i \in DOMAIN segments /\ segments'[i] = segments[i]
      BY <3>1, <3>2 DEF AudioInv, OrderInv, SegmentsInOrder
    <3>3. CASE segments'[i][2] = 0
      <4>1. segments[j] \in Tracks \X (0 .. Len(turns))
        BY <1>2, <3>1 DEF S
      <4>2. QED
        BY <1>2, <3>1, <3>3, <4>1
    <3>4. QED
      BY <1>4, <3>2, <3>3
  <2>2. \A i \in DOMAIN segments' : segments'[i][2] # 0 =>
            /\ turns'[segments'[i][2]].at # "asr"
            /\ segments'[i][1] = "proxy" => turns'[segments'[i][2]].at = "done" /\ ~turns'[segments'[i][2]].cut
    BY <1>1, <1>4 DEF AudioInv, OrderInv
  <2>3. QED
    BY <1>1, <2>1, <2>2 DEF AudioInv, OrderInv
<1>8. EndInv'
  <2>1. ended # "ok" /\ (failed' \/ failed' = failed)
    BY <1>1 DEF AudioInv, EndInv
  <2>2. AllDone' <=> AllDone
    BY <1>1 DEF AllDone
  <2>3. QED
    BY <1>1, <2>1, <2>2 DEF AudioInv, EndInv, EndOkIsWhole, RecordingKept
<1>9. QED
  BY <1>5, <1>6, <1>7, <1>8 DEF AudioInv

LEMMA WriteTranscriptStep == AudioInv /\ WriteTranscript => AudioInv'
<1> SUFFICES ASSUME AudioInv, WriteTranscript PROVE AudioInv'
  OBVIOUS
<1> USE DEF turnVars
<1>1. /\ router = "recover" /\ router' = "summary"
      /\ \/ transcript' = {segments} /\ UNCHANGED failed
         \/ failed' = TRUE /\ UNCHANGED transcript
      /\ UNCHANGED <<detector, recorder, turnVars, segments, pending, unheard, ended, uttered, wiped,
                     audioFaults, audioCrashes>>
  BY DEF WriteTranscript
<1>2. AudioTypeOK'
  <2>1. failed' \in BOOLEAN
    BY <1>1 DEF AudioInv, AudioTypeOK
  <2>2. Cardinality(transcript') <= 1
    <3>1. Cardinality({segments}) = 1
      BY FS_Singleton
    <3>2. CASE transcript' = {segments}
      BY <3>1, <3>2
    <3>3. CASE transcript' = transcript
      BY <3>3 DEF AudioInv, AudioTypeOK
    <3>4. QED
      BY <1>1, <3>2, <3>3
  <2>3. QED
    BY <1>1, <2>1, <2>2 DEF AudioInv, AudioTypeOK
<1>3. QueueInv' /\ LateInv' /\ OrderInv' /\ CountInv'
  BY <1>1, QueueKept, LateKept, OrderKept, CountKept DEF AudioInv
<1>4. EndInv'
  <2>1. ended # "ok"
    BY <1>1 DEF AudioInv, EndInv
  <2>2. AllDone' <=> AllDone
    BY <1>1 DEF AllDone
  <2>3. QED
    BY <1>1, <2>1, <2>2 DEF AudioInv, EndInv, EndOkIsWhole, RecordingKept
<1>5. QED
  BY <1>2, <1>3, <1>4 DEF AudioInv

LEMMA FinishEndStep == AudioInv /\ FinishEnd => AudioInv'
<1> SUFFICES ASSUME AudioInv, FinishEnd PROVE AudioInv'
  OBVIOUS
<1> USE DEF turnVars
<1>1. /\ router = "summary" /\ router' = "absent"
      /\ \/ ended' = (IF failed THEN "error" ELSE "ok") /\ UNCHANGED audioFaults
         \/ MayFail /\ audioFaults' = audioFaults + 1 /\ ended' = "error"
      /\ UNCHANGED <<detector, recorder, turnVars, segments, transcript, pending, unheard,
                     failed, uttered, wiped, audioCrashes>>
  BY DEF FinishEnd
<1>2. ended = "no" /\ ended' \in {"ok", "error"} /\ (ended' = "ok" => ~failed)
  BY <1>1 DEF AudioInv, AudioTypeOK, EndInv
<1>3. AudioTypeOK'
  <2>1. audioFaults' \in 0 .. MaxAudioFaults
    BY <1>1, MediaAudioAssumption DEF AudioInv, AudioTypeOK, MayFail
  <2>2. QED
    BY <1>1, <1>2, <2>1 DEF AudioInv, AudioTypeOK
<1>4. QueueInv' /\ LateInv' /\ OrderInv' /\ CountInv'
  BY <1>1, <1>2, QueueKept, LateKept, OrderKept, CountKept DEF AudioInv
<1>5. EndInv'
  <2>1. ended' = "ok" => transcript' = {segments'} /\ \A u \in pending' : ~turns'[u].error
    BY <1>1, <1>2 DEF AudioInv, EndInv
  <2>2. AllDone' <=> AllDone
    BY <1>1 DEF AllDone
  <2>3. QED
    BY <1>1, <1>2, <2>1, <2>2 DEF AudioInv, EndInv, EndOkIsWhole, RecordingKept
<1>6. QED
  BY <1>3, <1>4, <1>5 DEF AudioInv

(* STOP and a crash leave every turn done and every recording closed.        *)
LEMMA AllEnd ==
    ASSUME AudioInv, turns' = [u \in DOMAIN turns |-> [turns[u] EXCEPT !.at = "done"]],
           UNCHANGED <<lateChunks, segments>>,
           \/ UNCHANGED <<inflight, playing>>
           \/ inflight' = 0 /\ playing' = <<>>
    PROVE  /\ turns' \in Seq(Turn) /\ Len(turns') = Len(turns) /\ DOMAIN turns' = DOMAIN turns
           /\ inflight' \in 0 .. Len(turns') /\ Len(playing') <= QueueSize + 1
           /\ ToSet(playing') \subseteq DOMAIN turns'
           /\ AllDone' /\ (\A u \in DOMAIN turns : turns'[u].who = turns[u].who)
           /\ QueueInv' /\ LateInv' /\ OrderInv'
<1>1. /\ turns \in Seq(Turn) /\ Len(turns) \in Nat /\ DOMAIN turns = 1 .. Len(turns)
  BY DEF AudioInv, AudioTypeOK, Turn
<1>2. \A u \in DOMAIN turns : turns[u] \in Turn
  BY <1>1
<1>3. \A u \in DOMAIN turns : [turns[u] EXCEPT !.at = "done"] \in Turn
  BY <1>2 DEF Turn, Stages
<1>4. turns' \in Seq(Turn) /\ Len(turns') = Len(turns) /\ DOMAIN turns' = DOMAIN turns
  <2>1. turns' \in [1 .. Len(turns) -> Turn]
    BY <1>1, <1>3
  <2>2. QED
    BY <1>1, <2>1
<1>5. \A u \in DOMAIN turns : turns'[u].at = "done" /\ turns'[u].who = turns[u].who /\ turns'[u].cut = turns[u].cut
  BY <1>2 DEF Turn
<1>6. /\ inflight' \in 0 .. Len(turns') /\ playing' \in Seq(Nat)
      /\ Len(playing') <= QueueSize /\ (inflight' # 0 => Len(playing') < QueueSize)
  <2>1. CASE UNCHANGED <<inflight, playing>>
    BY <1>4, <2>1 DEF AudioInv, AudioTypeOK, QueueInv
  <2>2. CASE inflight' = 0 /\ playing' = <<>>
    BY <1>1, <1>4, <2>2, MediaAudioAssumption
  <2>3. QED
    BY <2>1, <2>2
<1>7. inflight' # 0 => inflight' = inflight /\ inflight \in DOMAIN turns
  BY <1>1, <1>4, <1>6
<1>8. \A i \in DOMAIN playing' : playing' = playing /\ inflight' = inflight /\ playing[i] \in DOMAIN turns
  <2>1. \A i \in DOMAIN playing : playing[i] \in DOMAIN turns
    BY DEF AudioInv, AudioTypeOK, ToSet
  <2>2. QED
    BY <2>1
<1>9. ToSet(playing') \subseteq DOMAIN turns' /\ Len(playing') <= QueueSize + 1
  <2>1. \A i \in DOMAIN playing' : playing'[i] \in DOMAIN turns'
    BY <1>4, <1>8
  <2>2. Len(playing') \in Nat
    BY <1>6
  <2>3. QED
    BY <1>6, <2>1, <2>2, MediaAudioAssumption DEF ToSet
<1>10. QueueInv'
  BY <1>5, <1>6, <1>7 DEF QueueInv
<1>11. LateInv'
  <2>1. \A u \in DOMAIN turns' : lateChunks'[u] \in {0, 1} /\ (~turns'[u].cut => lateChunks'[u] = 0)
    BY <1>4, <1>5 DEF AudioInv, LateInv
  <2>2. inflight' # 0 /\ turns'[inflight'].cut => lateChunks'[inflight'] = 0
    BY <1>5, <1>7 DEF AudioInv, LateInv
  <2>3. ASSUME NEW i \in DOMAIN playing', turns'[playing'[i]].cut
        PROVE  /\ lateChunks'[playing'[i]] = 0 /\ inflight' # playing'[i]
               /\ \A j \in DOMAIN playing' : playing'[j] = playing'[i] => j = i
    <3>1. playing' = playing /\ inflight' = inflight /\ playing[i] \in DOMAIN turns
      BY <1>8
    <3>2. turns[playing[i]].cut
      BY <1>5, <2>3, <3>1
    <3>3. QED
      BY <3>1, <3>2 DEF AudioInv, LateInv
  <2>4. lateChunks' \in Seq(Nat)
    BY DEF AudioInv, LateInv
  <2>5. QED
    BY <2>1, <2>2, <2>3, <2>4 DEF LateInv
<1>12. OrderInv'
  <2>1. \A i \in DOMAIN segments : segments[i][2] # 0 => segments[i][2] \in DOMAIN turns
    BY DEF AudioInv, AudioTypeOK
  <2>2. \A u \in DOMAIN turns' : turns'[u].at = "done"
    BY <1>4, <1>5
  <2>3. \A i \in DOMAIN segments' : segments'[i][2] # 0 =>
            /\ turns'[segments'[i][2]].at # "asr"
            /\ segments'[i][1] = "proxy" => turns'[segments'[i][2]].at = "done" /\ ~turns'[segments'[i][2]].cut
    BY <1>5, <2>1 DEF AudioInv, OrderInv
  <2>4. SegmentsInOrder'
    BY DEF AudioInv, OrderInv, SegmentsInOrder
  <2>5. QED
    BY <2>2, <2>3, <2>4 DEF OrderInv
<1>13. QED
  BY <1>4, <1>5, <1>6, <1>9, <1>10, <1>11, <1>12 DEF AllDone

LEMMA CancelStep == AudioInv /\ Cancel => AudioInv'
<1> SUFFICES ASSUME AudioInv, Cancel PROVE AudioInv'
  OBVIOUS
<1>1. /\ router = "open" /\ router' = "absent" /\ ended' = "cancelled"
      /\ turns' = [u \in DOMAIN turns |-> [turns[u] EXCEPT !.at = "done"]]
      /\ detector' = [s \in Speakers |-> "quiet"]
      /\ recorder' = [t \in Tracks |-> IF recorder[t] = "open" THEN "closed" ELSE recorder[t]]
      /\ UNCHANGED <<inflight, playing, lateChunks, segments, transcript, pending, unheard, failed,
                     uttered, wiped, audioFaults, audioCrashes>>
  BY DEF Cancel, CloseRecorders
<1>2. /\ turns' \in Seq(Turn) /\ Len(turns') = Len(turns) /\ DOMAIN turns' = DOMAIN turns
      /\ inflight' \in 0 .. Len(turns') /\ Len(playing') <= QueueSize + 1
      /\ ToSet(playing') \subseteq DOMAIN turns'
      /\ AllDone' /\ QueueInv' /\ LateInv' /\ OrderInv'
  BY <1>1, AllEnd
<1>3. AudioTypeOK'
  <2>1. /\ recorder' \in [Tracks -> {"none", "open", "closed"}]
        /\ detector' \in [Speakers -> {"quiet", "short", "long"}]
    BY <1>1 DEF AudioInv, AudioTypeOK
  <2>2. QED
    BY <1>1, <1>2, <2>1 DEF AudioInv, AudioTypeOK, Turn
<1>4. EndInv'
  BY <1>1, <1>2 DEF AudioInv, EndInv, EndOkIsWhole, RecordingKept
<1>5. CountInv'
  BY <1>1 DEF CountInv
<1>6. QED
  BY <1>2, <1>3, <1>4, <1>5 DEF AudioInv

LEMMA DieAndReopenStep == AudioInv /\ DieAndReopen => AudioInv'
<1> SUFFICES ASSUME AudioInv, DieAndReopen PROVE AudioInv'
  OBVIOUS
<1>1. /\ router # "absent" /\ router' = "open"
      /\ audioCrashes < MaxAudioCrashes /\ MayFail
      /\ turns' = [u \in DOMAIN turns |-> [turns[u] EXCEPT !.at = "done"]]
      /\ detector' = [s \in Speakers |-> "quiet"]
      /\ recorder' = [t \in Tracks |-> IF recorder[t] = "open" THEN "closed" ELSE recorder[t]]
      /\ inflight' = 0 /\ playing' = <<>>
      /\ pending' = {} /\ unheard' = {} /\ failed' = FALSE
      /\ audioFaults' = audioFaults + 1 /\ audioCrashes' = audioCrashes + 1
      /\ UNCHANGED <<lateChunks, segments, transcript, ended, uttered, wiped>>
  BY DEF DieAndReopen
<1>2. /\ turns' \in Seq(Turn) /\ Len(turns') = Len(turns) /\ DOMAIN turns' = DOMAIN turns
      /\ inflight' \in 0 .. Len(turns') /\ Len(playing') <= QueueSize + 1
      /\ ToSet(playing') \subseteq DOMAIN turns'
      /\ AllDone' /\ QueueInv' /\ LateInv' /\ OrderInv'
  BY <1>1, AllEnd
<1>3. /\ audioFaults' \in 0 .. MaxAudioFaults /\ audioCrashes' \in 0 .. MaxAudioCrashes /\ audioCrashes' # 0
  BY <1>1, MediaAudioAssumption DEF AudioInv, AudioTypeOK, MayFail
<1>4. AudioTypeOK'
  <2>1. /\ recorder' \in [Tracks -> {"none", "open", "closed"}]
        /\ detector' \in [Speakers -> {"quiet", "short", "long"}]
        /\ pending' \subseteq DOMAIN turns' /\ unheard' \subseteq Speakers /\ failed' \in BOOLEAN
        /\ router' = "open"
    BY <1>1 DEF AudioInv, AudioTypeOK
  <2>2. QED
    BY <1>1, <1>2, <1>3, <2>1 DEF AudioInv, AudioTypeOK, Turn
<1>5. EndInv'
  <2>1. ended = "no"
    BY <1>1 DEF AudioInv, EndInv
  <2>2. QED
    BY <1>1, <1>3, <2>1 DEF EndInv, EndOkIsWhole, RecordingKept
<1>6. CountInv'
  BY <1>3 DEF CountInv
<1>7. QED
  BY <1>2, <1>4, <1>5, <1>6 DEF AudioInv

-----------------------------------------------------------------------------
LEMMA AudioStep == AudioInv /\ [AudioNext]_audioVars => AudioInv'
<1> SUFFICES ASSUME AudioInv, AudioNext PROVE AudioInv'
  BY AudioStays
<1>1. CASE \E s \in Speakers : FirstFrame(s) \/ SpeechStarts(s) \/ SpeechGoesOn(s) \/ SpeechEnds(s) \/ Recover(s)
  BY <1>1, FirstFrameStep, SpeechStartsStep, SpeechGoesOnStep, SpeechEndsStep, RecoverStep
<1>2. CASE ProcessUtterance \/ StreamTts \/ Play
  BY <1>2, ProcessUtteranceStep, StreamTtsStep, PlayStep
<1>3. CASE Close \/ Gather \/ WriteTranscript \/ FinishEnd
  BY <1>3, CloseStep, GatherStep, WriteTranscriptStep, FinishEndStep
<1>4. CASE Cancel \/ DieAndReopen
  BY <1>4, CancelStep, DieAndReopenStep
<1>5. QED
  BY <1>1, <1>2, <1>3, <1>4 DEF AudioNext

(* In every meeting the transcript has the utterances in their order and the *)
(* answers behind them, never an answer that was interrupted; when END       *)
(* succeeds it is whole, and without a crash every utterance that was long   *)
(* enough was heard, the one END cut off included (audio_router.py:196,      *)
(* pipeline.py:152).                                                         *)
THEOREM TranscriptFaithful == AudioSpec => []TranscriptIsFaithful
<1>1. AudioSpec => []AudioInv
  BY AudioBegins, AudioStep, PTL DEF AudioSpec
<1>2. QED
  BY <1>1, AudioSuffices, PTL

(* After a barge-in the room hears at most the one chunk that was already on *)
(* its way, no closed recording is opened again, and nothing of a session    *)
(* that is gone still runs (playback.py:75, audio_router.py:228).            *)
THEOREM CutOffStays == AudioSpec => []CutOffStaysOff
<1>1. AudioSpec => []AudioInv
  BY AudioBegins, AudioStep, PTL DEF AudioSpec
<1>2. QED
  BY <1>1, AudioSuffices, PTL

-----------------------------------------------------------------------------
(* SummaryAttempts, for any models, texts and bounds.                       *)

Attempt == [parent : 0..MaxTries, input : 0..MaxSaid, config : Models,
            ran : Models, status : {"started", "failed", "succeeded"},
            text : SUBSET Texts]
Summary == [attempt : 1..MaxTries, text : Texts, source : 0..MaxSaid]

Latest == attempts[Len(attempts)]

(* Two attempts that may stand for one another: same input, same model.      *)
Alike(a, b) == a.input = b.input /\ a.config = b.config

(* The attempt under way has not ended.  The one of END comes before any     *)
(* summary, and a regeneration is like the attempt of the first summary.     *)
WorkIsLatest ==
    \/ work = Idle
    \/ /\ Len(attempts) > 0 /\ Latest.status = "started"
       /\ work.source \in 0..MaxSaid /\ work.for \in {"end", "regenerate"}
       /\ work.version \in Versions
       /\ work.for = "end" => work.version = 1 /\ \A v \in Versions : ~Written(v)
       /\ work.for = "regenerate" =>
            /\ Latest.parent # 0 /\ Written(1)
            /\ \A first \in summaries[1] : Alike(Latest, attempts[first.attempt])

(* A summary is of an attempt that succeeded, like the one of the first.     *)
SummariesAreEarned ==
    \A v \in Versions : \A row \in summaries[v] :
        /\ row.attempt \in 1..Len(attempts)
        /\ attempts[row.attempt].status = "succeeded"
        /\ row.text \in attempts[row.attempt].text
        /\ \A first \in summaries[1] : Alike(attempts[row.attempt], attempts[first.attempt])

FirstComesFirst == \A v \in Versions : Written(v) => Written(1)

NothingBeforeEnd == sumTranscripts = {} => work = Idle /\ \A v \in Versions : ~Written(v)

IInv ==
    /\ SummaryTypeOK /\ Len(attempts) <= MaxTries
    /\ WorkIsLatest /\ SummariesAreEarned /\ FirstComesFirst /\ NothingBeforeEnd

-----------------------------------------------------------------------------
LEMMA Types ==
    ASSUME SummaryTypeOK
    PROVE  /\ said \in 0..MaxSaid /\ sumTranscripts \subseteq 0..MaxSaid /\ model \in Models
           /\ attempts \in Seq(Attempt) /\ Len(attempts) \in Nat
           /\ \A i \in 1..Len(attempts) : attempts[i] \in Attempt
           /\ summaries \in [Versions -> SUBSET Summary]
           /\ failures \in Seq({"end", "regenerate"})
<1>1. attempts \in Seq(Attempt)
  BY DEF SummaryTypeOK, Attempt
<1>2. Len(attempts) \in Nat /\ \A i \in 1..Len(attempts) : attempts[i] \in Attempt
  BY <1>1
<1>3. QED
  BY <1>1, <1>2 DEF SummaryTypeOK, Summary

LEMMA Typed ==
    ASSUME said \in 0..MaxSaid, sumTranscripts \subseteq 0..MaxSaid, model \in Models,
           attempts \in Seq(Attempt), summaries \in [Versions -> SUBSET Summary],
           failures \in Seq({"end", "regenerate"})
    PROVE  SummaryTypeOK
BY DEF SummaryTypeOK, Attempt, Summary

LEMMA InitInvariant == SummaryInit => IInv
<1> SUFFICES ASSUME SummaryInit PROVE IInv
  OBVIOUS
<1>1. model \in Models /\ MaxSaid \in Nat /\ MaxTries \in Nat
  BY SummaryAttemptsAssumption DEF SummaryInit
<1>2. attempts \in Seq(Attempt) /\ failures \in Seq({"end", "regenerate"}) /\ Len(attempts) = 0
  BY DEF SummaryInit
<1>3. said \in 0..MaxSaid /\ sumTranscripts \subseteq 0..MaxSaid
  BY <1>1 DEF SummaryInit
<1>4. summaries \in [Versions -> SUBSET Summary] /\ \A v \in Versions : summaries[v] = {}
  BY DEF SummaryInit
<1>5. SummaryTypeOK
  BY <1>1, <1>2, <1>3, <1>4, Typed
<1>6. WorkIsLatest /\ SummariesAreEarned /\ FirstComesFirst /\ NothingBeforeEnd
  BY <1>4 DEF SummaryInit, WorkIsLatest, SummariesAreEarned, FirstComesFirst, NothingBeforeEnd, Written
<1>7. QED
  BY <1>1, <1>2, <1>5, <1>6 DEF IInv

(* A new row at the end of the attempts, and none: what the summaries say of *)
(* the earlier ones stays true.                                              *)
LEMMA Begun ==
    ASSUME IInv, UNCHANGED summaries, Len(attempts) < MaxTries,
           NEW a \in Attempt, attempts' = Append(attempts, a)
    PROVE  /\ attempts' \in Seq(Attempt) /\ Len(attempts') = Len(attempts) + 1
           /\ Len(attempts') <= MaxTries /\ Latest' = a
           /\ \A i \in 1..Len(attempts) : attempts'[i] = attempts[i]
           /\ SummariesAreEarned' /\ FirstComesFirst'
<1>1. attempts \in Seq(Attempt) /\ Len(attempts) \in Nat
  BY Types DEF IInv
<1>2. /\ attempts' \in Seq(Attempt) /\ Len(attempts') = Len(attempts) + 1
      /\ attempts'[Len(attempts) + 1] = a
      /\ \A i \in 1..Len(attempts) : attempts'[i] = attempts[i]
  BY <1>1
<1>3. Len(attempts') <= MaxTries /\ Latest' = a
  BY <1>1, <1>2, SummaryAttemptsAssumption DEF Latest
<1>4. 1 \in Versions
  BY SummaryAttemptsAssumption DEF Versions
<1>5. SummariesAreEarned'
  BY <1>1, <1>2, <1>4 DEF IInv, SummariesAreEarned
<1>6. FirstComesFirst'
  BY DEF IInv, FirstComesFirst, Written
<1>7. QED
  BY <1>2, <1>3, <1>5, <1>6

LEMMA EndProxyStep == ASSUME IInv, EndProxy PROVE IInv'
<1>1. PICK a : /\ a = [parent |-> 0, input |-> said, config |-> model, ran |-> model,
                       status |-> "started", text |-> {}]
               /\ attempts' = Append(attempts, a)
  BY DEF EndProxy, Begin
<1>2. /\ work = Idle /\ sumTranscripts = {} /\ sumTranscripts' = {said}
      /\ Len(attempts) < MaxTries
      /\ work' = [for |-> "end", version |-> 1, source |-> said]
      /\ UNCHANGED <<said, model, summaries, failures>>
  BY DEF EndProxy, Begin
<1>3. /\ said \in 0..MaxSaid /\ model \in Models /\ summaries \in [Versions -> SUBSET Summary]
      /\ failures \in Seq({"end", "regenerate"}) /\ Len(attempts) \in Nat
  BY Types DEF IInv
<1>4. a \in Attempt /\ a.status = "started"
  BY <1>1, <1>3, SummaryAttemptsAssumption DEF Attempt
<1>5. /\ attempts' \in Seq(Attempt) /\ Len(attempts') = Len(attempts) + 1
      /\ Len(attempts') <= MaxTries /\ Latest' = a
      /\ SummariesAreEarned' /\ FirstComesFirst'
  BY <1>1, <1>2, <1>4, Begun
<1>6. SummaryTypeOK'
  BY <1>2, <1>3, <1>5 DEF SummaryTypeOK, Attempt, Summary
<1>7. \A v \in Versions : ~Written(v)'
  BY <1>2 DEF IInv, NothingBeforeEnd, Written
<1>8. WorkIsLatest'
  <2>1. 1 \in Versions
    BY SummaryAttemptsAssumption DEF Versions
  <2>2. work'.for = "end" /\ work'.version = 1 /\ work'.source = said
    BY <1>2
  <2>3. QED
    BY <1>3, <1>4, <1>5, <1>7, <2>1, <2>2 DEF WorkIsLatest
<1>9. NothingBeforeEnd'
  BY <1>2 DEF NothingBeforeEnd
<1>10. QED
  BY <1>5, <1>6, <1>8, <1>9 DEF IInv

(* Steps that begin or end no attempt and write no summary.                  *)
LEMMA QuietStep ==
    ASSUME IInv, UNCHANGED <<attempts, work, summaries>>,
           said' \in 0..MaxSaid, model' \in Models,
           sumTranscripts' \subseteq 0..MaxSaid, sumTranscripts' = {} => sumTranscripts = {},
           failures' \in Seq({"end", "regenerate"})
    PROVE  IInv'
<1>1. SummaryTypeOK'
  BY Types DEF IInv, SummaryTypeOK, Attempt, Summary
<1>2. WorkIsLatest'
  BY DEF IInv, WorkIsLatest, Latest, Written
<1>3. SummariesAreEarned' /\ FirstComesFirst'
  BY DEF IInv, SummariesAreEarned, FirstComesFirst, Written
<1>4. NothingBeforeEnd'
  BY DEF IInv, NothingBeforeEnd, Written
<1>5. QED
  BY <1>1, <1>2, <1>3, <1>4 DEF IInv

LEMMA Failed ==
    ASSUME NEW why \in {"end", "regenerate"}, failures \in Seq({"end", "regenerate"}),
           failures' = Append(failures, why)
    PROVE  failures' \in Seq({"end", "regenerate"})
OBVIOUS

LEMMA SpeakStep == ASSUME IInv, Speak PROVE IInv'
<1>1. /\ said' = said + 1 /\ said < MaxSaid
      /\ UNCHANGED <<sumTranscripts, model, attempts, work, summaries, failures>>
  BY DEF Speak
<1>2. said' \in 0..MaxSaid
  BY <1>1, Types, SummaryAttemptsAssumption DEF IInv
<1>3. QED
  BY <1>1, <1>2, Types, QuietStep DEF IInv

LEMMA EndSyncStep == ASSUME IInv, EndSync PROVE IInv'
<1>1. /\ sumTranscripts' = sumTranscripts \cup {said}
      /\ UNCHANGED <<said, model, attempts, work, summaries, failures>>
  BY DEF EndSync
<1>2. QED
  BY <1>1, Types, QuietStep DEF IInv

LEMMA RegenerateStep ==
    ASSUME IInv, NEW source \in 0..MaxSaid, NEW version \in 1..(MaxSummaries - 1),
           Regenerate(source, version)
    PROVE  IInv'
<1>1. work = Idle /\ UNCHANGED <<said, sumTranscripts, model, summaries>>
  BY DEF Regenerate
<1>2. CASE source \in sumTranscripts /\ Written(version)
  <2>1. PICK row \in summaries[version] :
          /\ Len(attempts) < MaxTries
          /\ attempts' = Append(attempts,
                [parent |-> row.attempt, input |-> attempts[row.attempt].input,
                 config |-> attempts[row.attempt].config, ran |-> model,
                 status |-> "started", text |-> {}])
          /\ work' = [for |-> "regenerate", version |-> version + 1, source |-> source]
    BY <1>2 DEF Regenerate, Begin
  <2>2. failures' = failures
    BY <1>2 DEF Regenerate
  <2>3. PICK old : old = attempts[row.attempt]
    OBVIOUS
  <2>4. PICK a : a = [parent |-> row.attempt, input |-> old.input, config |-> old.config,
                      ran |-> model, status |-> "started", text |-> {}]
    OBVIOUS
  <2>5. version \in Versions /\ version + 1 \in Versions /\ 1 \in Versions
    BY SummaryAttemptsAssumption DEF Versions
  <2>6. /\ row.attempt \in 1..Len(attempts)
        /\ \A first \in summaries[1] : Alike(old, attempts[first.attempt])
    BY <2>3, <2>5 DEF IInv, SummariesAreEarned
  <2>7. old \in Attempt /\ model \in Models /\ Len(attempts) \in Nat
    BY <2>3, <2>6, Types DEF IInv
  <2>8. a \in Attempt
    <3>1. old.input \in 0..MaxSaid /\ old.config \in Models
      BY <2>7 DEF Attempt
    <3>2. row.attempt \in 0..MaxTries
      BY <2>6, <2>7, SummaryAttemptsAssumption DEF IInv
    <3>3. QED
      BY <2>4, <2>7, <3>1, <3>2 DEF Attempt
  <2>9. a.status = "started" /\ a.parent # 0 /\ Alike(a, old)
    BY <2>4, <2>6, <2>7 DEF Alike
  <2>10. /\ attempts' \in Seq(Attempt) /\ Len(attempts') = Len(attempts) + 1
         /\ Len(attempts') <= MaxTries /\ Latest' = a
         /\ \A i \in 1..Len(attempts) : attempts'[i] = attempts[i]
         /\ SummariesAreEarned' /\ FirstComesFirst'
    BY <1>1, <2>1, <2>3, <2>4, <2>8, Begun
  <2>11. SummaryTypeOK'
    BY <1>1, <2>2, <2>10, Types DEF IInv, SummaryTypeOK, Attempt, Summary
  <2>12. WorkIsLatest'
    <3>1. work'.for = "regenerate" /\ work'.version = version + 1 /\ work'.source = source
      BY <2>1
    <3>2. Written(1)'
      BY <1>1, <1>2, <2>5 DEF IInv, FirstComesFirst, Written
    <3>3. \A first \in summaries'[1] : Alike(a, attempts'[first.attempt])
      <4>1. TAKE first \in summaries'[1]
      <4>2. first.attempt \in 1..Len(attempts) /\ Alike(old, attempts[first.attempt])
        BY <1>1, <2>5, <2>6 DEF IInv, SummariesAreEarned
      <4>3. QED
        BY <2>9, <2>10, <4>2 DEF Alike
    <3>4. QED
      BY <2>5, <2>7, <2>9, <2>10, <3>1, <3>2, <3>3 DEF WorkIsLatest
  <2>13. NothingBeforeEnd'
    BY <1>1, <1>2 DEF NothingBeforeEnd
  <2>14. QED
    BY <2>10, <2>11, <2>12, <2>13 DEF IInv
<1>3. CASE ~(source \in sumTranscripts /\ Written(version))
  <2>1. failures' = Append(failures, "regenerate") /\ UNCHANGED <<attempts, work>>
    BY <1>3 DEF Regenerate
  <2>2. failures' \in Seq({"end", "regenerate"})
    BY <2>1, Types, Failed DEF IInv
  <2>3. QED
    BY <1>1, <2>1, <2>2, Types, QuietStep DEF IInv
<1>4. QED
  BY <1>2, <1>3

(* An attempt that ends is still like what it was, and no summary is of it   *)
(* before.                                                                   *)
LEMMA Finished ==
    ASSUME IInv, work # Idle, NEW status \in {"failed", "succeeded"}, NEW text \in SUBSET Texts,
           Finish(status, text)
    PROVE  /\ attempts' \in Seq(Attempt) /\ Len(attempts') = Len(attempts)
           /\ Len(attempts) \in 1..Len(attempts)
           /\ Latest'.status = status /\ Latest'.text = text /\ Alike(Latest', Latest)
           /\ \A i \in 1..Len(attempts) : i # Len(attempts) => attempts'[i] = attempts[i]
           /\ \A v \in Versions : \A row \in summaries[v] :
                row.attempt \in 1..Len(attempts) /\ row.attempt # Len(attempts)
<1> DEFINE n == Len(attempts)
<1>1. attempts \in Seq(Attempt) /\ n \in Nat /\ n > 0 /\ Latest.status = "started"
  BY Types DEF IInv, WorkIsLatest
<1>2. n \in 1..n /\ Latest \in Attempt
  BY <1>1, Types DEF IInv, Latest
<1>3. PICK a : a = [[Latest EXCEPT !.status = status] EXCEPT !.text = text]
  OBVIOUS
<1>4. a \in Attempt /\ a.status = status /\ a.text = text /\ Alike(a, Latest)
  BY <1>2, <1>3 DEF Attempt, Alike
<1>5. attempts' = [attempts EXCEPT ![n] = a]
  BY <1>1, <1>2, <1>3 DEF Finish, Latest
<1>6. /\ attempts' \in Seq(Attempt) /\ Len(attempts') = n /\ attempts'[n] = a
      /\ \A i \in 1..n : i # n => attempts'[i] = attempts[i]
  BY <1>1, <1>2, <1>4, <1>5
<1>7. Latest' = a
  BY <1>6 DEF Latest
<1>8. ASSUME NEW v \in Versions, NEW row \in summaries[v]
      PROVE  row.attempt \in 1..n /\ row.attempt # n
  BY <1>1, <1>8 DEF IInv, SummariesAreEarned, Latest
<1>9. QED
  BY <1>2, <1>4, <1>6, <1>7, <1>8

LEMMA AttemptFailsStep == ASSUME IInv, AttemptFails PROVE IInv'
<1>1. /\ work # Idle /\ work' = Idle /\ Finish("failed", {})
      /\ failures' = Append(failures, work.for)
      /\ UNCHANGED <<said, sumTranscripts, model, summaries>>
  BY DEF AttemptFails
<1>2. /\ attempts' \in Seq(Attempt) /\ Len(attempts') = Len(attempts)
      /\ \A i \in 1..Len(attempts) : i # Len(attempts) => attempts'[i] = attempts[i]
      /\ \A v \in Versions : \A row \in summaries[v] :
            row.attempt \in 1..Len(attempts) /\ row.attempt # Len(attempts)
  BY <1>1, Finished
<1>3. SummaryTypeOK'
  <2>1. work.for \in {"end", "regenerate"}
    BY <1>1 DEF IInv, WorkIsLatest
  <2>2. failures' \in Seq({"end", "regenerate"})
    BY <1>1, <2>1, Types, Failed DEF IInv
  <2>3. QED
    BY <1>1, <1>2, <2>2, Types DEF IInv, SummaryTypeOK, Attempt, Summary
<1>4. SummariesAreEarned'
  <2>1. 1 \in Versions
    BY SummaryAttemptsAssumption DEF Versions
  <2>2. QED
    BY <1>1, <1>2, <2>1 DEF IInv, SummariesAreEarned
<1>5. FirstComesFirst' /\ WorkIsLatest' /\ NothingBeforeEnd'
  BY <1>1 DEF IInv, FirstComesFirst, WorkIsLatest, NothingBeforeEnd, Written
<1>6. QED
  BY <1>2, <1>3, <1>4, <1>5 DEF IInv

(* The first text of a version is written; a later one never is.             *)
LEMMA AttemptSucceedsStep ==
    ASSUME IInv, NEW text \in Texts, AttemptSucceeds(text)
    PROVE  IInv'
<1> DEFINE n == Len(attempts)
           new == [attempt |-> n, text |-> text, source |-> work.source]
<1>1. /\ work # Idle /\ work' = Idle /\ Finish("succeeded", {text}) /\ WriteSummary(text)
      /\ UNCHANGED <<said, sumTranscripts, model>>
  BY DEF AttemptSucceeds
<1>2. /\ attempts' \in Seq(Attempt) /\ Len(attempts') = n /\ n \in 1..n
      /\ Latest'.status = "succeeded" /\ Latest'.text = {text} /\ Alike(Latest', Latest)
      /\ \A i \in 1..n : i # n => attempts'[i] = attempts[i]
      /\ \A v \in Versions : \A row \in summaries[v] :
            row.attempt \in 1..n /\ row.attempt # n
  BY <1>1, Finished
<1>3. /\ work.source \in 0..MaxSaid /\ work.for \in {"end", "regenerate"}
      /\ work.version \in Versions
      /\ work.for = "end" => work.version = 1 /\ \A v \in Versions : ~Written(v)
      /\ work.for = "regenerate" =>
            /\ Written(1)
            /\ \A first \in summaries[1] : Alike(Latest, attempts[first.attempt])
  BY <1>1 DEF IInv, WorkIsLatest
<1>4. attempts'[n] = Latest'
  BY <1>2 DEF Latest
<1>5. 1 \in Versions /\ n \in 1..MaxTries
  BY <1>2, Types, SummaryAttemptsAssumption DEF IInv, Versions
<1>6. new \in Summary
  BY <1>3, <1>5 DEF Summary
<1>7. failures' \in Seq({"end", "regenerate"})
  BY <1>1, <1>3, Types, Failed DEF IInv, WriteSummary
<1>8. CASE summaries[work.version] = {}
  <2>1. summaries' = [summaries EXCEPT ![work.version] = {new}]
    BY <1>1, <1>8 DEF WriteSummary
  <2>2. summaries \in [Versions -> SUBSET Summary]
    BY Types DEF IInv
  <2>3. /\ summaries' \in [Versions -> SUBSET Summary]
        /\ summaries'[work.version] = {new}
        /\ \A v \in Versions : v # work.version => summaries'[v] = summaries[v]
    BY <1>3, <1>6, <2>1, <2>2
  <2>4. SummaryTypeOK'
    BY <1>1, <1>2, <1>7, <2>3, Types DEF IInv, SummaryTypeOK, Attempt, Summary
  <2>5. new.attempt = n /\ new.text = text
    OBVIOUS
  <2>6. FirstComesFirst'
    BY <1>3, <1>5, <2>3 DEF IInv, FirstComesFirst, Written
  <2>7. \A first \in summaries'[1] : Alike(attempts'[n], attempts'[first.attempt])
    <3>1. TAKE first \in summaries'[1]
    <3>2. CASE work.version = 1
      BY <2>3, <2>5, <3>2 DEF Alike
    <3>3. CASE work.version # 1
      <4>1. first \in summaries[1] /\ Alike(Latest, attempts[first.attempt])
        BY <1>3, <1>5, <2>3, <3>3
      <4>2. attempts'[first.attempt] = attempts[first.attempt]
        BY <1>2, <1>5, <4>1
      <4>3. QED
        BY <1>2, <1>4, <4>1, <4>2 DEF Alike
    <3>4. QED
      BY <3>2, <3>3
  <2>8. SummariesAreEarned'
    <3> SUFFICES ASSUME NEW v \in Versions, NEW row \in summaries'[v]
                 PROVE  /\ row.attempt \in 1..Len(attempts')
                        /\ attempts'[row.attempt].status = "succeeded"
                        /\ row.text \in attempts'[row.attempt].text
                        /\ \A first \in summaries'[1] :
                              Alike(attempts'[row.attempt], attempts'[first.attempt])
      BY DEF SummariesAreEarned
    <3>1. CASE v = work.version
      BY <1>2, <1>4, <2>3, <2>5, <2>7, <3>1
    <3>2. CASE v # work.version
      <4>1. row \in summaries[v] /\ attempts'[row.attempt] = attempts[row.attempt]
        BY <1>2, <2>3, <3>2
      <4>2. /\ row.attempt \in 1..Len(attempts')
            /\ attempts'[row.attempt].status = "succeeded"
            /\ row.text \in attempts'[row.attempt].text
        BY <1>2, <4>1 DEF IInv, SummariesAreEarned
      <4>3. work.version # 1 /\ summaries'[1] = summaries[1]
        BY <1>3, <1>5, <1>8, <2>3, <4>1 DEF IInv, FirstComesFirst, Written
      <4>4. \A first \in summaries[1] : attempts'[first.attempt] = attempts[first.attempt]
        BY <1>2, <1>5
      <4>5. QED
        BY <4>1, <4>2, <4>3, <4>4 DEF IInv, SummariesAreEarned
    <3>3. QED
      BY <3>1, <3>2
  <2>9. NothingBeforeEnd'
    BY <1>1 DEF IInv, NothingBeforeEnd
  <2>10. QED
    BY <1>1, <1>2, <2>4, <2>6, <2>8, <2>9 DEF IInv, WorkIsLatest
<1>9. CASE summaries[work.version] # {}
  <2>1. summaries' = summaries
    BY <1>1, <1>9 DEF WriteSummary
  <2>2. SummaryTypeOK'
    BY <1>1, <1>2, <1>7, <2>1, Types DEF IInv, SummaryTypeOK, Attempt, Summary
  <2>3. SummariesAreEarned'
    BY <1>2, <1>5, <2>1 DEF IInv, SummariesAreEarned
  <2>4. FirstComesFirst' /\ WorkIsLatest' /\ NothingBeforeEnd'
    BY <1>1, <2>1 DEF IInv, FirstComesFirst, WorkIsLatest, NothingBeforeEnd, Written
  <2>5. QED
    BY <1>2, <2>2, <2>3, <2>4 DEF IInv
<1>10. QED
  BY <1>8, <1>9

LEMMA RestartStep == ASSUME IInv, NEW m \in Models, RestartWith(m) PROVE IInv'
<1>1. model' = m /\ UNCHANGED <<sumTranscripts, summaries>>
  BY DEF RestartWith
<1>2. CASE work = Idle
  <2>1. UNCHANGED <<said, work, attempts, failures>>
    BY <1>2 DEF RestartWith
  <2>2. QED
    BY <1>1, <2>1, Types, QuietStep DEF IInv
<1>3. CASE work # Idle
  <2>1. /\ Len(attempts) > 0 /\ Latest.status = "started"
        /\ work.for = "regenerate" =>
              Latest.parent # 0 /\ \A first \in summaries[1] : Alike(Latest, attempts[first.attempt])
    BY <1>3 DEF IInv, WorkIsLatest
  <2>2. Latest \in Attempt /\ Len(attempts) \in Nat
    BY <2>1, Types DEF IInv, Latest
  <2>3. PICK a : a = [Latest EXCEPT !.ran = m, !.config = IF Latest.parent = 0 THEN m ELSE Latest.config]
    OBVIOUS
  <2>4. /\ a \in Attempt /\ a.status = "started" /\ a.parent = Latest.parent
        /\ Latest.parent # 0 => Alike(a, Latest)
    BY <2>1, <2>2, <2>3 DEF Attempt, Alike
  <2>5. /\ Len(attempts) < MaxTries
        /\ \/ attempts' = Append(attempts, a) /\ UNCHANGED <<said, work, failures>>
           \/ /\ work.for = "end" /\ said < MaxSaid /\ said' = said + 1
              /\ failures' = Append(failures, "end") /\ work' = Idle
              /\ UNCHANGED attempts
    BY <1>3, <2>3 DEF RestartWith, Latest
  <2>6. CASE attempts' = Append(attempts, a) /\ UNCHANGED <<said, work, failures>>
    <3>1. /\ attempts' \in Seq(Attempt) /\ Len(attempts') = Len(attempts) + 1
          /\ Len(attempts') <= MaxTries /\ Latest' = a
          /\ \A i \in 1..Len(attempts) : attempts'[i] = attempts[i]
          /\ SummariesAreEarned' /\ FirstComesFirst'
      BY <1>1, <2>4, <2>5, <2>6, Begun
    <3>2. SummaryTypeOK'
      BY <1>1, <2>6, <3>1, Types DEF IInv, SummaryTypeOK, Attempt, Summary
    <3>3. WorkIsLatest'
      <4>1. ASSUME work.for = "regenerate", NEW first \in summaries[1]
            PROVE  Alike(a, attempts'[first.attempt])
        <5>1. first.attempt \in 1..Len(attempts) /\ Alike(Latest, attempts[first.attempt])
          BY <2>1, <4>1, SummaryAttemptsAssumption DEF IInv, SummariesAreEarned, Versions
        <5>2. QED
          BY <2>1, <2>4, <3>1, <4>1, <5>1 DEF Alike
      <4>2. /\ work.source \in 0..MaxSaid /\ work.for \in {"end", "regenerate"}
            /\ work.version \in Versions
            /\ work.for = "end" => work.version = 1 /\ \A v \in Versions : ~Written(v)
            /\ work.for = "regenerate" => Written(1)
        BY <1>3 DEF IInv, WorkIsLatest
      <4>3. work' = work /\ summaries' = summaries
        BY <1>1, <2>6
      <4>4. Len(attempts') > 0 /\ Latest'.status = "started"
            /\ (work.for = "regenerate" => Latest'.parent # 0)
        BY <2>1, <2>2, <2>4, <3>1
      <4>5. work.for = "regenerate" =>
              \A first \in summaries[1] : Alike(Latest', attempts'[first.attempt])
        BY <3>1, <4>1
      <4>6. QED
        BY <4>2, <4>3, <4>4, <4>5 DEF WorkIsLatest, Written, Alike
    <3>4. NothingBeforeEnd'
      BY <1>1, <2>6 DEF IInv, NothingBeforeEnd, Written
    <3>5. QED
      BY <3>1, <3>2, <3>3, <3>4 DEF IInv
  <2>7. CASE /\ work.for = "end" /\ said < MaxSaid /\ said' = said + 1
             /\ failures' = Append(failures, "end") /\ work' = Idle
             /\ UNCHANGED attempts
    <3>1. failures' \in Seq({"end", "regenerate"})
      BY <2>7, Types, Failed DEF IInv
    <3>2. said' \in 0..MaxSaid
      BY <2>7, Types, SummaryAttemptsAssumption DEF IInv
    <3>3. SummaryTypeOK'
      BY <1>1, <2>7, <3>1, <3>2, Types DEF IInv, SummaryTypeOK, Attempt, Summary
    <3>4. SummariesAreEarned' /\ FirstComesFirst' /\ WorkIsLatest' /\ NothingBeforeEnd'
      BY <1>1, <2>7 DEF IInv, SummariesAreEarned, FirstComesFirst, WorkIsLatest,
                        NothingBeforeEnd, Written
    <3>5. QED
      BY <2>7, <3>3, <3>4 DEF IInv
  <2>8. QED
    BY <2>5, <2>6, <2>7
<1>4. QED
  BY <1>2, <1>3

LEMMA NextInvariant == IInv /\ [SummaryNext]_summaryVars => IInv'
<1> SUFFICES ASSUME IInv, [SummaryNext]_summaryVars PROVE IInv'
  OBVIOUS
<1>1. CASE Speak
  BY <1>1, SpeakStep
<1>2. CASE EndProxy
  BY <1>2, EndProxyStep
<1>3. CASE EndSync
  BY <1>3, EndSyncStep
<1>4. CASE \E source \in 0..MaxSaid, version \in 1..(MaxSummaries - 1) :
              Regenerate(source, version)
  BY <1>4, RegenerateStep
<1>5. CASE AttemptFails
  BY <1>5, AttemptFailsStep
<1>6. CASE \E text \in Texts : AttemptSucceeds(text)
  BY <1>6, AttemptSucceedsStep
<1>7. CASE \E m \in Models : RestartWith(m)
  BY <1>7, RestartStep
<1>8. CASE UNCHANGED summaryVars
  BY <1>8, Types, QuietStep DEF IInv, summaryVars
<1>9. QED
  BY <1>1, <1>2, <1>3, <1>4, <1>5, <1>6, <1>7, <1>8 DEF SummaryNext

LEMMA InvariantSuffices == IInv => SummariesAreSound
<1> SUFFICES ASSUME IInv PROVE SummariesAreSound
  OBVIOUS
<1>1. 1 \in Versions
  BY SummaryAttemptsAssumption DEF Versions
<1>2. SummariesOfProxyMeeting
  BY <1>1 DEF IInv, SummariesAreEarned, SummariesOfProxyMeeting, Alike
<1>3. ConfigurationIsKept
  BY <1>1 DEF IInv, SummariesAreEarned, ConfigurationIsKept, Alike
<1>4. QED
  BY <1>2, <1>3 DEF IInv, SummariesAreSound

LEMMA Invariant == SummarySpec => []IInv
BY InitInvariant, NextInvariant, PTL DEF SummarySpec

(* Every published summary is the text of an attempt that succeeded, about   *)
(* the proxy meeting and with the configuration of the first one, through    *)
(* any number of regenerations, failures and restarts with another model     *)
(* (summary_attempts.py:113).                                                *)
THEOREM SummariesSound == SummarySpec => []SummariesAreSound
BY Invariant, InvariantSuffices, PTL

(* A published version is never replaced (repository.py:301).                *)
THEOREM SummariesFrozen == SummarySpec => SummariesAreFrozen
<1>1. ASSUME IInv, [SummaryNext]_summaryVars
      PROVE  [\A v \in Versions : Written(v) => summaries'[v] = summaries[v]]_summaryVars
  <2> SUFFICES ASSUME NEW v \in Versions, Written(v)
               PROVE  summaries'[v] = summaries[v]
    OBVIOUS
  <2>1. CASE summaries' = summaries
    BY <2>1
  <2>2. CASE \E text \in Texts : AttemptSucceeds(text)
    <3>1. PICK text \in Texts : AttemptSucceeds(text)
      BY <2>2
    <3>2. summaries \in [Versions -> SUBSET Summary]
      BY Types, <1>1 DEF IInv
    <3>3. CASE summaries[work.version] = {}
      <4>1. work.version # v
        BY <3>3 DEF Written
      <4>2. PICK row : summaries' = [summaries EXCEPT ![work.version] = {row}]
        BY <3>1, <3>3 DEF AttemptSucceeds, WriteSummary
      <4>3. QED
        BY <3>2, <4>1, <4>2
    <3>4. CASE summaries[work.version] # {}
      BY <3>1, <3>4 DEF AttemptSucceeds, WriteSummary
    <3>5. QED
      BY <3>3, <3>4
  <2>3. QED
    BY <1>1, <2>1, <2>2 DEF SummaryNext, summaryVars, Speak, EndProxy, EndSync, Regenerate,
                            AttemptFails, RestartWith
<1>2. QED
  BY <1>1, Invariant, PTL DEF SummarySpec, SummariesAreFrozen

-----------------------------------------------------------------------------
(* VoiceActivity, for a track of any length and any thresholds.             *)

(* The track as the set of its active frames.  Between 1 and the length of   *)
(* the track these say what Silent, Stretch and Loud say of the frames.      *)
Track == {k \in 1 .. Len(frames) : frames[k]}
Pause(A, i, j) == \A k \in i .. j : k \notin A
Begins(A, i) == i \in A /\ \A k \in A : k < i => k + EndSilence < i
Whole(A, i, j) == \A g \in i .. j : g + EndSilence - 1 < j => ~Pause(A, g, g + EndSilence - 1)
Ends(A, i, j) == j - EndSilence >= i /\ Pause(A, j - EndSilence + 1, j)
Frames(A, i, j) == {k \in i .. j : k \in A}

(* What the buffer knows of the track while the meeting goes on.             *)
Quiescent == buffer.start = 0 => buffer = Empty /\ \A k \in Track : k + EndSilence <= Len(frames)
Speaking ==
    buffer.start # 0 =>
        /\ buffer.start \in 1 .. Len(frames) /\ Begins(Track, buffer.start)
        /\ buffer.start + buffer.silence <= Len(frames) /\ Len(frames) - buffer.silence \in Track
        /\ \A k \in Track : k <= Len(frames) - buffer.silence
        /\ \A g \in buffer.start .. Len(frames) :
               g + EndSilence - 1 <= Len(frames) => ~Pause(Track, g, g + EndSilence - 1)
        /\ buffer.speech = Cardinality(Frames(Track, buffer.start, Len(frames)))
        /\ \A n \in DOMAIN cuts : cuts[n][2] < buffer.start

(* The stretches that are over: by a pause, or as the meeting ends at final. *)
Over(A, n, final) ==
    {p \in (1 .. n) \X (1 .. n) :
        /\ p[1] <= p[2]
        /\ Begins(A, p[1]) /\ Whole(A, p[1], p[2])
        /\ Ends(A, p[1], p[2]) \/ p[2] = final
        /\ Cardinality(Frames(A, p[1], p[2])) >= MinSpeech}
Final == IF flushed THEN Len(frames) ELSE 0

(* The utterances are the stretches that are over, in their order.           *)
Elements(c) == {c[n] : n \in DOMAIN c}
Ordered(c) == \A n \in DOMAIN c : n > 1 => c[n - 1][2] < c[n][1]
CutsAreOver == Elements(cuts) = Over(Track, Len(frames), Final)

VoiceInv ==
    /\ VoiceTypeOK /\ CutsAreOver /\ Ordered(cuts)
    /\ ~flushed => Quiescent /\ Speaking

LEMMA TrackFacts ==
    ASSUME VoiceTypeOK
    PROVE  /\ Len(frames) \in Nat /\ Track \subseteq 1 .. Len(frames)
           /\ \A k \in 1 .. Len(frames) : Active(k) <=> k \in Track
  BY DEF VoiceTypeOK, Track, Active

(* Before a frame that begins a stretch there is a pause.                    *)
LEMMA PauseBefore ==
    ASSUME NEW A \in SUBSET Nat, NEW i \in Nat, Begins(A, i)
    PROVE  Pause(A, i - EndSilence, i - 1)
  BY VoiceActivityAssumption DEF Begins, Pause

LEMMA StretchOfTrack ==
    ASSUME VoiceTypeOK, NEW i \in 1 .. Len(frames), NEW j \in 1 .. Len(frames), i <= j
    PROVE  /\ Stretch(i, j) <=> /\ Begins(Track, i) /\ Whole(Track, i, j)
                                /\ Ends(Track, i, j) \/ (flushed /\ j = Len(frames))
           /\ Loud(i, j) = Cardinality(Frames(Track, i, j))
<1> DEFINE n == Len(frames)
<1>1. /\ n \in Nat /\ Track \subseteq 1 .. n /\ EndSilence \in Nat \ {0}
      /\ \A k \in 1 .. n : Active(k) <=> k \in Track
  BY TrackFacts, VoiceActivityAssumption
<1>2. \A g, h \in Int : g >= 1 /\ h <= n => (Silent(g, h) <=> Pause(Track, g, h))
  BY <1>1 DEF Silent, Pause
<1>3. Active(i) <=> i \in Track
  BY <1>1
<1>4. Begins(Track, i) <=>
         /\ Active(i)
         /\ \A k \in 1 .. (i - 1) : Active(k) => \E g \in k .. (i - EndSilence) :
                                                    g > k /\ Silent(g, g + EndSilence - 1)
  <2>1. ASSUME Begins(Track, i), NEW k \in 1 .. (i - 1), Active(k)
        PROVE  \E g \in k .. (i - EndSilence) : g > k /\ Silent(g, g + EndSilence - 1)
    <3>1. k \in Track
      BY <1>1, <2>1
    <3>2. k + EndSilence < i
      BY <1>1, <2>1, <3>1 DEF Begins
    <3> DEFINE g == i - EndSilence
    <3>3. g \in k .. (i - EndSilence) /\ g > k /\ g + EndSilence - 1 = i - 1
      BY <1>1, <3>2
    <3>4. Pause(Track, g, g + EndSilence - 1)
      BY <1>1, <2>1, <3>3, PauseBefore
    <3>5. Silent(g, g + EndSilence - 1)
      BY <1>1, <1>2, <3>3, <3>4
    <3>6. QED
      BY <3>3, <3>5
  <2>2. ASSUME Active(i),
               \A k \in 1 .. (i - 1) : Active(k) => \E g \in k .. (i - EndSilence) :
                                                        g > k /\ Silent(g, g + EndSilence - 1)
        PROVE  Begins(Track, i)
    <3> SUFFICES ASSUME NEW k \in Track, k < i, ~(k + EndSilence < i) PROVE FALSE
      BY <1>3, <2>2 DEF Begins
    <3>1. k \in 1 .. (i - 1) /\ Active(k)
      BY <1>1
    <3>2. PICK g \in k .. (i - EndSilence) : g > k
      BY <2>2, <3>1
    <3>3. QED
      BY <1>1, <3>1, <3>2
  <2>3. QED
    BY <1>3, <2>1, <2>2 DEF Begins
<1>5. Whole(Track, i, j) <=> \A g \in i .. j : g + EndSilence - 1 < j => ~Silent(g, g + EndSilence - 1)
  BY <1>1, <1>2 DEF Whole
<1>6. Ends(Track, i, j) <=> j - EndSilence >= i /\ Silent(j - EndSilence + 1, j)
  BY <1>1, <1>2 DEF Ends
<1>7. Loud(i, j) = Cardinality(Frames(Track, i, j))
  <2>1. {k \in i .. j : Active(k)} = Frames(Track, i, j)
    BY <1>1 DEF Frames
  <2>2. QED
    BY <2>1 DEF Loud
<1>8. QED
  BY <1>4, <1>5, <1>6, <1>7 DEF Stretch

(* Two stretches do not begin within one that has had no pause.              *)
LEMMA OneBeginning ==
    ASSUME NEW A \in SUBSET Nat, NEW n \in Nat, NEW s \in 1 .. n, NEW i \in 1 .. n, NEW j \in Nat,
           s <= j, Begins(A, s), Begins(A, i), Whole(A, i, j),
           \A g \in s .. n : g + EndSilence - 1 <= n => ~Pause(A, g, g + EndSilence - 1)
    PROVE  i = s
<1>1. EndSilence \in Nat \ {0}
  BY VoiceActivityAssumption
<1>2. ASSUME i > s PROVE FALSE
  <2>1. s + EndSilence < i
    BY <1>2 DEF Begins
  <2> DEFINE g == i - EndSilence
  <2>2. g \in s .. n /\ g + EndSilence - 1 = i - 1 /\ i - 1 <= n
    BY <1>1, <2>1
  <2>3. Pause(A, g, g + EndSilence - 1)
    BY <2>2, PauseBefore
  <2>4. QED
    BY <2>2, <2>3
<1>3. ASSUME i < s PROVE FALSE
  <2>1. i + EndSilence < s
    BY <1>3 DEF Begins
  <2> DEFINE g == s - EndSilence
  <2>2. g \in i .. j /\ g + EndSilence - 1 = s - 1 /\ s - 1 < j
    BY <1>1, <2>1
  <2>3. Pause(A, g, g + EndSilence - 1)
    BY <2>2, PauseBefore
  <2>4. QED
    BY <2>2, <2>3 DEF Whole
<1>4. QED
  BY <1>2, <1>3

LEMMA VoiceSuffices == VoiceInv => SpeechIsCut
<1> SUFFICES ASSUME VoiceInv PROVE SpeechIsCut
  OBVIOUS
<1> DEFINE n == Len(frames)
<1>1. VoiceTypeOK /\ CutsAreOver /\ Ordered(cuts) /\ n \in Nat
  BY TrackFacts DEF VoiceInv
<1>2. \A p \in (1 .. n) \X (1 .. n) :
          p \in Over(Track, n, Final) <=> p[1] <= p[2] /\ Stretch(p[1], p[2]) /\ Loud(p[1], p[2]) >= MinSpeech
  <2> SUFFICES ASSUME NEW p \in (1 .. n) \X (1 .. n), p[1] <= p[2]
               PROVE  p \in Over(Track, n, Final) <=> Stretch(p[1], p[2]) /\ Loud(p[1], p[2]) >= MinSpeech
    BY DEF Over
  <2>1. p[1] \in 1 .. n /\ p[2] \in 1 .. n
    OBVIOUS
  <2>2. /\ Stretch(p[1], p[2]) <=> /\ Begins(Track, p[1]) /\ Whole(Track, p[1], p[2])
                                   /\ Ends(Track, p[1], p[2]) \/ (flushed /\ p[2] = n)
        /\ Loud(p[1], p[2]) = Cardinality(Frames(Track, p[1], p[2]))
    BY <1>1, <2>1, StretchOfTrack
  <2>3. flushed /\ p[2] = n <=> p[2] = Final
    BY <2>1 DEF Final
  <2>4. QED
    BY <2>2, <2>3 DEF Over
<1>3. Elements(cuts) =
          {p \in (1 .. n) \X (1 .. n) : p[1] <= p[2] /\ Stretch(p[1], p[2]) /\ Loud(p[1], p[2]) >= MinSpeech}
  <2>1. Over(Track, n, Final) \subseteq (1 .. n) \X (1 .. n)
    BY DEF Over
  <2> HIDE DEF n
  <2>2. QED
    BY <1>1, <1>2, <2>1 DEF CutsAreOver, n
<1>4. QED
  BY <1>1, <1>3 DEF SpeechIsCut, UtterancesAreStretches, Ordered, Elements

-----------------------------------------------------------------------------
(* The frames of a stretch.                                                  *)
LEMMA FramesFinite ==
    ASSUME NEW A \in SUBSET Nat, NEW i \in Nat, NEW j \in Nat
    PROVE  IsFiniteSet(Frames(A, i, j)) /\ Cardinality(Frames(A, i, j)) \in Nat
<1>1. IsFiniteSet(i .. j)
  BY FS_Interval
<1>2. Frames(A, i, j) \subseteq i .. j
  BY DEF Frames
<1>3. IsFiniteSet(Frames(A, i, j))
  BY <1>1, <1>2, FS_Subset
<1>4. QED
  BY <1>3, FS_CardinalityType

LEMMA FramesGrow ==
    ASSUME NEW n \in Nat, NEW A \in SUBSET (1 .. n), NEW i \in 1 .. (n + 1)
    PROVE  /\ Frames(A, i, n + 1) = Frames(A, i, n)
           /\ Cardinality(Frames(A \cup {n + 1}, i, n + 1)) = Cardinality(Frames(A, i, n)) + 1
<1>1. Frames(A, i, n + 1) = Frames(A, i, n)
  BY DEF Frames
<1>2. Frames(A \cup {n + 1}, i, n + 1) = Frames(A, i, n) \cup {n + 1}
  BY DEF Frames
<1>3. n + 1 \notin Frames(A, i, n)
  BY DEF Frames
<1>4. IsFiniteSet(Frames(A, i, n))
  BY FramesFinite
<1>5. Cardinality(Frames(A, i, n) \cup {n + 1}) = Cardinality(Frames(A, i, n)) + 1
  BY <1>3, <1>4, FS_AddElement
<1>6. QED
  BY <1>1, <1>2, <1>5

(* What a frame adds to the track changes nothing of what was over.          *)
LEMMA EarlierStays ==
    ASSUME NEW n \in Nat, NEW A \in SUBSET (1 .. n), NEW i \in 1 .. n, NEW j \in 1 .. n,
           NEW B, B = A \/ B = A \cup {n + 1}
    PROVE  /\ Begins(B, i) <=> Begins(A, i)
           /\ Whole(B, i, j) <=> Whole(A, i, j)
           /\ Ends(B, i, j) <=> Ends(A, i, j)
           /\ Frames(B, i, j) = Frames(A, i, j)
<1>1. EndSilence \in Nat \ {0}
  BY VoiceActivityAssumption
<1>2. \A g, h \in Int : h <= n => (Pause(B, g, h) <=> Pause(A, g, h))
  BY DEF Pause
<1>3. Begins(B, i) <=> Begins(A, i)
  <2>1. (i \in B <=> i \in A) /\ \A k : k \in A => k \in B
    OBVIOUS
  <2>2. \A k \in B : k \in Nat /\ (k < i => k \in A)
    <3>1. \A k \in B : k \in A \/ k = n + 1
      OBVIOUS
    <3>2. ~(n + 1 < i) /\ n + 1 \in Nat /\ A \subseteq Nat
      OBVIOUS
    <3>3. QED
      BY <3>1, <3>2
  <2>3. QED
    BY <2>1, <2>2 DEF Begins
<1>4. Whole(B, i, j) <=> Whole(A, i, j)
  BY <1>1, <1>2 DEF Whole
<1>5. Ends(B, i, j) <=> Ends(A, i, j)
  BY <1>1, <1>2 DEF Ends
<1>6. Frames(B, i, j) = Frames(A, i, j)
  BY DEF Frames
<1>7. QED
  BY <1>3, <1>4, <1>5, <1>6

(* The track after one more frame.                                           *)
LEMMA TrackGrows ==
    ASSUME VoiceTypeOK, NEW active \in BOOLEAN, frames' = Append(frames, active)
    PROVE  /\ frames' \in Seq(BOOLEAN) /\ Len(frames)' = Len(frames) + 1
           /\ Track' = IF active THEN Track \cup {Len(frames) + 1} ELSE Track
<1>1. frames \in Seq(BOOLEAN) /\ Len(frames) \in Nat
  BY DEF VoiceTypeOK
<1>2. frames' \in Seq(BOOLEAN) /\ Len(frames') = Len(frames) + 1
  BY <1>1
<1>3. \A k \in 1 .. Len(frames) : frames'[k] = frames[k]
  BY <1>1
<1>4. frames'[Len(frames) + 1] = active
  BY <1>1
<1>5. 1 .. Len(frames') = (1 .. Len(frames)) \cup {Len(frames) + 1}
  BY <1>1, <1>2
<1>6. \A k : k \in Track' <=> k \in 1 .. Len(frames') /\ frames'[k]
  BY DEF Track
<1>7. \A k : k \in Track <=> k \in 1 .. Len(frames) /\ frames[k]
  BY DEF Track
<1>8. \A k : k \in Track' <=> k \in Track \/ (active /\ k = Len(frames) + 1)
  <2>1. \A k \in 1 .. Len(frames) : k \in Track' <=> k \in Track
    BY <1>3, <1>5, <1>6, <1>7
  <2>2. Len(frames) + 1 \in Track' <=> active
    BY <1>4, <1>5, <1>6
  <2>3. Len(frames) + 1 \notin 1 .. Len(frames)
    BY <1>1
  <2>4. QED
    BY <1>5, <1>6, <1>7, <2>1, <2>2, <2>3
<1>9. QED
  BY <1>2, <1>8

(* A sequence of utterances and the set of them.                             *)
LEMMA CutAppended ==
    ASSUME NEW c \in Seq(Nat \X Nat), Ordered(c), NEW s \in Nat, NEW last \in Nat,
           \A m \in DOMAIN c : c[m][2] < s
    PROVE  /\ Elements(Append(c, <<s, last>>)) = Elements(c) \cup {<<s, last>>}
           /\ Ordered(Append(c, <<s, last>>))
<1> DEFINE new == <<s, last>>
<1> DEFINE d == Append(c, new)
<1>1. new \in Nat \X Nat /\ new[1] = s
  OBVIOUS
<1> HIDE DEF new
<1>2. /\ Len(c) \in Nat /\ DOMAIN c = 1 .. Len(c) /\ DOMAIN d = 1 .. (Len(c) + 1)
      /\ d[Len(c) + 1] = new /\ \A m \in 1 .. Len(c) : d[m] = c[m]
  BY <1>1
<1> HIDE DEF d
<1>3. Elements(d) = Elements(c) \cup {new}
  <2>1. \A x \in Elements(d) : x \in Elements(c) \cup {new}
    BY <1>2 DEF Elements
  <2>2. \A x \in Elements(c) : x \in Elements(d)
    BY <1>2 DEF Elements
  <2>3. new \in Elements(d)
    <3>1. Len(c) + 1 \in DOMAIN d
      BY <1>2
    <3>2. QED
      BY <1>2, <3>1 DEF Elements
  <2>4. QED
    BY <2>1, <2>2, <2>3
<1>4. Ordered(d)
  <2> SUFFICES ASSUME NEW m \in DOMAIN d, m > 1 PROVE d[m - 1][2] < d[m][1]
    BY DEF Ordered
  <2>1. m \in Nat /\ m - 1 \in DOMAIN c /\ d[m - 1] = c[m - 1]
    BY <1>2
  <2>2. CASE m = Len(c) + 1
    BY <1>1, <1>2, <2>1, <2>2
  <2>3. CASE m # Len(c) + 1
    <3>1. m \in DOMAIN c /\ d[m] = c[m]
      BY <1>2, <2>3
    <3>2. QED
      BY <2>1, <3>1 DEF Ordered
  <2>4. QED
    BY <2>2, <2>3
<1>5. QED
  BY <1>3, <1>4 DEF d, new

(* With one more frame, what was over stays over; what else is over ends     *)
(* there.                                                                    *)
LEMMA OverGrows ==
    ASSUME NEW n \in Nat, NEW A \in SUBSET (1 .. n), NEW B, B = A \/ B = A \cup {n + 1}
    PROVE  \A p : p \in Over(B, n + 1, 0) <=>
                      \/ p \in Over(A, n, 0)
                      \/ \E i \in 1 .. (n + 1) : p = <<i, n + 1>> /\ p \in Over(B, n + 1, 0)
<1>1. ASSUME NEW p \in (1 .. n) \X (1 .. n) PROVE p \in Over(B, n + 1, 0) <=> p \in Over(A, n, 0)
  <2>1. p[1] \in 1 .. n /\ p[2] \in 1 .. n /\ p \in (1 .. (n + 1)) \X (1 .. (n + 1))
    OBVIOUS
  <2>2. Begins(B, p[1]) <=> Begins(A, p[1])
    BY <2>1, EarlierStays
  <2>3. Whole(B, p[1], p[2]) <=> Whole(A, p[1], p[2])
    BY <2>1, EarlierStays
  <2>4. Ends(B, p[1], p[2]) <=> Ends(A, p[1], p[2])
    BY <2>1, EarlierStays
  <2>5. Frames(B, p[1], p[2]) = Frames(A, p[1], p[2])
    BY <2>1, EarlierStays
  <2>6. QED
    BY <2>1, <2>2, <2>3, <2>4, <2>5 DEF Over
<1>2. Over(A, n, 0) \subseteq (1 .. n) \X (1 .. n)
  BY DEF Over
<1>3. ASSUME NEW p \in Over(B, n + 1, 0), p \notin (1 .. n) \X (1 .. n)
      PROVE  \E i \in 1 .. (n + 1) : p = <<i, n + 1>>
  <2>1. p \in (1 .. (n + 1)) \X (1 .. (n + 1)) /\ p[1] <= p[2]
    BY DEF Over
  <2>2. PICK i \in 1 .. (n + 1), j \in 1 .. (n + 1) : p = <<i, j>>
    BY <2>1
  <2>3. i <= j
    BY <2>1, <2>2
  <2>4. j = n + 1
    BY <1>3, <2>2, <2>3
  <2>5. QED
    BY <2>2, <2>4
<1>4. QED
  BY <1>1, <1>2, <1>3

LEMMA OverSame ==
    ASSUME NEW n \in Nat, NEW A \in SUBSET (1 .. n), NEW B, B = A \/ B = A \cup {n + 1},
           \A i \in 1 .. (n + 1) : <<i, n + 1>> \notin Over(B, n + 1, 0)
    PROVE  Over(B, n + 1, 0) = Over(A, n, 0)
<1>1. \A p : p \in Over(B, n + 1, 0) <=>
                 \/ p \in Over(A, n, 0)
                 \/ \E i \in 1 .. (n + 1) : p = <<i, n + 1>> /\ p \in Over(B, n + 1, 0)
  BY OverGrows
<1> DEFINE X == Over(B, n + 1, 0)
<1> DEFINE Y == Over(A, n, 0)
<1> HIDE DEF X, Y
<1>2. \A p : p \in X <=> p \in Y \/ \E i \in 1 .. (n + 1) : p = <<i, n + 1>> /\ p \in X
  BY <1>1 DEF X, Y
<1>3. \A i \in 1 .. (n + 1) : <<i, n + 1>> \notin X
  BY DEF X
<1>4. \A p : p \in X <=> p \in Y
  BY <1>2, <1>3
<1>5. X = Y
  BY <1>4
<1>6. QED
  BY <1>5 DEF X, Y

-----------------------------------------------------------------------------
(* Every frame, and the end of the meeting, keep the invariant.              *)
LEMMA HeardFacts ==
    ASSUME VoiceTypeOK, NEW active \in BOOLEAN
    PROVE  LET b == Heard(active) IN
           \/ buffer.start = 0 /\ ~active /\ b = Empty
           \/ /\ active /\ b.start = (IF buffer.start = 0 THEN Len(frames) + 1 ELSE buffer.start)
              /\ b.speech = buffer.speech + 1 /\ b.silence = 0
              /\ b = [start |-> b.start, speech |-> b.speech, silence |-> b.silence]
           \/ /\ ~active /\ buffer.start # 0 /\ b.start = buffer.start
              /\ b.speech = buffer.speech /\ b.silence = buffer.silence + 1
              /\ b = [start |-> b.start, speech |-> b.speech, silence |-> b.silence]
<1>1. /\ buffer.start \in Nat /\ buffer.speech \in Nat /\ buffer.silence \in Nat /\ Len(frames) \in Nat
  BY VoiceActivityAssumption DEF VoiceTypeOK
<1>2. CASE active = TRUE
  BY <1>1, <1>2 DEF Heard
<1>3. CASE active = FALSE
  BY <1>1, <1>3 DEF Heard
<1>4. QED
  BY <1>2, <1>3

(* The frame goes into the buffer, or is heard by nobody.                    *)
LEMMA GoesOn ==
    ASSUME VoiceInv, NEW active \in BOOLEAN, Feed(active),
           LET b == Heard(active) IN b.start = 0 \/ b.silence < EndSilence
    PROVE  VoiceInv'
<1> DEFINE n == Len(frames)
<1> DEFINE b == Heard(active)
<1>1. /\ VoiceTypeOK /\ n \in Nat /\ Track \in SUBSET (1 .. n) /\ ~flushed /\ ~flushed' /\ Quiescent /\ Speaking
      /\ EndSilence \in Nat \ {0} /\ EndSilence \in Int
  BY TrackFacts, VoiceActivityAssumption DEF VoiceInv, Feed
<1>2. buffer' = b /\ cuts' = cuts /\ frames' = Append(frames, active)
  BY DEF Feed
<1>3. /\ frames' \in Seq(BOOLEAN) /\ Len(frames') = n + 1
      /\ Track' = IF active THEN Track \cup {n + 1} ELSE Track
  BY <1>1, <1>2, TrackGrows
<1>4. /\ buffer.start \in 0 .. n /\ buffer.speech \in 0 .. n /\ buffer.silence \in 0 .. (EndSilence - 1)
  BY <1>1 DEF VoiceTypeOK
<1>5. \/ buffer.start = 0 /\ ~active /\ b = Empty
      \/ /\ active /\ b.start = (IF buffer.start = 0 THEN n + 1 ELSE buffer.start)
         /\ b.speech = buffer.speech + 1 /\ b.silence = 0
         /\ b = [start |-> b.start, speech |-> b.speech, silence |-> b.silence]
      \/ /\ ~active /\ buffer.start # 0 /\ b.start = buffer.start
         /\ b.speech = buffer.speech /\ b.silence = buffer.silence + 1
         /\ b = [start |-> b.start, speech |-> b.speech, silence |-> b.silence]
  BY <1>1, HeardFacts
<1> HIDE DEF b
<1>10. Track' = Track \/ Track' = Track \cup {n + 1}
  BY <1>3
<1>6. VoiceTypeOK'
  <2>1. buffer' \in [start : 0 .. (n + 1), speech : 0 .. (n + 1), silence : 0 .. (EndSilence - 1)]
    <3>1. CASE b = Empty
      BY <1>1, <1>2, <3>1 DEF Empty
    <3>2. CASE b # Empty
      <4>1. b.start \in 0 .. (n + 1) /\ b.speech \in 0 .. (n + 1)
        BY <1>1, <1>4, <1>5, <3>2
      <4>2. b.silence \in 0 .. (EndSilence - 1)
        <5>1. b.silence \in Nat
          BY <1>4, <1>5, <3>2
        <5>2. b.start # 0
          BY <1>1, <1>5, <3>2
        <5>3. b.silence < EndSilence
          BY <5>2 DEF b
        <5>4. QED
          BY <1>1, <5>1, <5>3
      <4>3. QED
        BY <1>2, <1>5, <3>2, <4>1, <4>2
    <3>3. QED
      BY <3>1, <3>2
  <2>2. cuts' \in Seq((1 .. (n + 1)) \X (1 .. (n + 1)))
    <3>1. (1 .. n) \X (1 .. n) \subseteq (1 .. (n + 1)) \X (1 .. (n + 1))
      BY <1>1
    <3>2. QED
      BY <1>1, <1>2, <3>1 DEF VoiceTypeOK
  <2>3. flushed' \in BOOLEAN
    BY <1>1 DEF VoiceTypeOK, Feed
  <2>4. QED
    BY <1>3, <2>1, <2>2, <2>3 DEF VoiceTypeOK
<1>7. CASE b = Empty
  <2>1. buffer.start = 0 /\ ~active /\ Track' = Track
    BY <1>1, <1>3, <1>4, <1>5, <1>7 DEF Empty
  <2>2. \A k \in Track : k + EndSilence <= n
    BY <1>1, <2>1 DEF Quiescent
  <2>3. Quiescent' /\ Speaking'
    <3>1. buffer' = Empty /\ buffer'.start = 0
      BY <1>2, <1>7 DEF Empty
    <3>2. \A k \in Track' : k + EndSilence <= Len(frames')
      BY <1>1, <1>3, <2>1, <2>2
    <3>3. QED
      BY <3>1, <3>2 DEF Quiescent, Speaking
  <2>4. \A i \in 1 .. (n + 1) : <<i, n + 1>> \notin Over(Track', n + 1, 0)
    <3> SUFFICES ASSUME NEW i \in 1 .. (n + 1), <<i, n + 1>> \in Over(Track, n + 1, 0) PROVE FALSE
      BY <2>1
    <3>1. i \in Track /\ Whole(Track, i, n + 1)
      BY DEF Over, Begins
    <3> DEFINE g == n - EndSilence + 1
    <3>2. g \in i .. (n + 1) /\ g + EndSilence - 1 = n
      BY <1>1, <2>2, <3>1
    <3>3. Pause(Track, g, g + EndSilence - 1)
      BY <1>1, <2>2, <3>2 DEF Pause
    <3>4. QED
      BY <3>1, <3>2, <3>3 DEF Whole
  <2>5. Over(Track', n + 1, 0) = Over(Track, n, 0)
    BY <1>1, <1>10, <2>4, OverSame
  <2>6. QED
    BY <1>1, <1>2, <1>3, <1>6, <2>3, <2>5 DEF VoiceInv, CutsAreOver, Final, Ordered
<1>8. CASE b # Empty
  <2> DEFINE s == b.start
  <2>1. /\ s \in 1 .. (n + 1) /\ b.silence \in Nat /\ b.silence < EndSilence
        /\ s = (IF buffer.start = 0 THEN n + 1 ELSE buffer.start)
    <3>1. b.start # 0 /\ b.start \in 1 .. (n + 1) /\ b.silence \in Nat
      BY <1>1, <1>4, <1>5, <1>8
    <3>2. b.silence < EndSilence
      BY <3>1 DEF b
    <3>3. QED
      BY <1>5, <1>8, <3>1, <3>2
  <2>2. Begins(Track', s)
    <3>1. CASE buffer.start = 0
      <4>1. s = n + 1 /\ active /\ Track' = Track \cup {n + 1}
        BY <1>3, <1>5, <1>8, <2>1, <3>1
      <4>2. \A k \in Track : k + EndSilence <= n
        BY <1>1, <3>1 DEF Quiescent
      <4>3. \A k \in Track' : k < n + 1 => k + EndSilence < n + 1
        BY <1>1, <4>1, <4>2
      <4>4. QED
        BY <4>1, <4>3 DEF Begins
    <3>2. CASE buffer.start # 0
      <4>1. s = buffer.start /\ s \in 1 .. n /\ Begins(Track, s)
        BY <1>1, <2>1, <3>2 DEF Speaking
      <4>2. Begins(Track', s) <=> Begins(Track, s)
        BY <1>1, <1>10, <4>1, EarlierStays
      <4>3. QED
        BY <4>1, <4>2
    <3>3. QED
      BY <3>1, <3>2
  <2>3. /\ s + b.silence <= n + 1 /\ n + 1 - b.silence \in Track'
        /\ \A k \in Track' : k <= n + 1 - b.silence
    <3>1. CASE active
      <4>1. b.silence = 0 /\ Track' = Track \cup {n + 1}
        BY <1>3, <1>5, <1>8, <3>1
      <4>2. QED
        BY <1>1, <2>1, <4>1
    <3>2. CASE ~active
      <4>1. buffer.start # 0 /\ s = buffer.start /\ b.silence = buffer.silence + 1 /\ Track' = Track
        BY <1>3, <1>5, <1>8, <3>2
      <4>2. /\ buffer.start + buffer.silence <= n /\ n - buffer.silence \in Track
            /\ \A k \in Track : k <= n - buffer.silence
        BY <1>1, <4>1 DEF Speaking
      <4>3. n + 1 - b.silence = n - buffer.silence
        BY <1>1, <1>4, <4>1
      <4>4. QED
        BY <1>1, <1>4, <4>1, <4>2, <4>3
    <3>3. QED
      BY <3>1, <3>2
  <2>4. \A g \in s .. (n + 1) : g + EndSilence - 1 <= n + 1 => ~Pause(Track', g, g + EndSilence - 1)
    <3> SUFFICES ASSUME NEW g \in s .. (n + 1), g + EndSilence - 1 <= n + 1, Pause(Track', g, g + EndSilence - 1)
                 PROVE  FALSE
      OBVIOUS
    <3>1. g \in Nat /\ g >= s
      BY <2>1
    <3>2. CASE g + EndSilence - 1 = n + 1
      <4>1. n + 1 - b.silence \in g .. (g + EndSilence - 1)
        BY <1>1, <2>1, <3>1, <3>2
      <4>2. QED
        BY <2>3, <4>1 DEF Pause
    <3>3. CASE g + EndSilence - 1 <= n /\ buffer.start # 0
      <4>1. g \in buffer.start .. n
        BY <1>1, <2>1, <3>1, <3>3
      <4>2. Pause(Track, g, g + EndSilence - 1)
        BY <1>3 DEF Pause
      <4>3. QED
        BY <1>1, <3>3, <4>1, <4>2 DEF Speaking
    <3>4. CASE g + EndSilence - 1 <= n /\ buffer.start = 0
      BY <1>1, <2>1, <3>1, <3>4
    <3>5. QED
      BY <1>1, <3>1, <3>2, <3>3, <3>4
  <2>5. b.speech = Cardinality(Frames(Track', s, n + 1))
    <3>1. buffer.speech = Cardinality(Frames(Track, s, n))
      <4>1. CASE buffer.start # 0
        BY <1>1, <2>1, <4>1 DEF Speaking
      <4>2. CASE buffer.start = 0
        <5>1. buffer = Empty /\ s = n + 1
          BY <1>1, <2>1, <4>2 DEF Quiescent
        <5>2. Frames(Track, s, n) = {}
          BY <1>1, <5>1 DEF Frames
        <5>3. QED
          BY <5>1, <5>2, FS_EmptySet DEF Empty
      <4>3. QED
        BY <4>1, <4>2
    <3>2. /\ Frames(Track, s, n + 1) = Frames(Track, s, n)
          /\ Cardinality(Frames(Track \cup {n + 1}, s, n + 1)) = Cardinality(Frames(Track, s, n)) + 1
      BY <1>1, <2>1, FramesGrow
    <3>3. QED
      BY <1>3, <1>5, <1>8, <3>1, <3>2
  <2>6. \A m \in DOMAIN cuts : cuts[m][2] < s
    <3>1. CASE buffer.start # 0
      BY <1>1, <2>1, <3>1 DEF Speaking
    <3>2. CASE buffer.start = 0
      BY <1>1, <2>1, <3>2 DEF VoiceTypeOK
    <3>3. QED
      BY <3>1, <3>2
  <2>7. Quiescent' /\ Speaking'
    <3>1. buffer'.start = s /\ s # 0 /\ buffer'.silence = b.silence /\ buffer'.speech = b.speech
      BY <1>2, <2>1
    <3>5. Len(frames') = n + 1 /\ cuts' = cuts
      BY <1>2, <1>3
    <3>2. Quiescent'
      BY <3>1 DEF Quiescent
    <3>6. buffer'.start \in 1 .. Len(frames') /\ Begins(Track', buffer'.start)
      BY <2>1, <2>2, <3>1, <3>5
    <3>7. /\ buffer'.start + buffer'.silence <= Len(frames') /\ Len(frames') - buffer'.silence \in Track'
          /\ \A k \in Track' : k <= Len(frames') - buffer'.silence
      <4>3. buffer'.start = s
        BY <3>1
      <4>4. buffer'.silence = b.silence
        BY <3>1
      <4>5. Len(frames') - buffer'.silence = n + 1 - b.silence
        BY <1>1, <2>1, <3>5, <4>4
      <4>6. buffer'.start + buffer'.silence = s + b.silence
        BY <4>3, <4>4
      <4>1. /\ buffer'.start + buffer'.silence = s + b.silence
            /\ Len(frames') - buffer'.silence = n + 1 - b.silence
        BY <4>5, <4>6
      <4>2. QED
        BY <2>3, <3>5, <4>1
    <3>8. \A g \in buffer'.start .. Len(frames') :
             g + EndSilence - 1 <= Len(frames') => ~Pause(Track', g, g + EndSilence - 1)
      BY <2>4, <3>1, <3>5
    <3>9. /\ buffer'.speech = Cardinality(Frames(Track', buffer'.start, Len(frames')))
          /\ \A m \in DOMAIN cuts' : cuts'[m][2] < buffer'.start
      BY <2>5, <2>6, <3>1, <3>5
    <3>3. Speaking'
      BY <3>6, <3>7, <3>8, <3>9 DEF Speaking
    <3>4. QED
      BY <3>2, <3>3
  <2>8. \A i \in 1 .. (n + 1) : <<i, n + 1>> \notin Over(Track', n + 1, 0)
    <3> SUFFICES ASSUME NEW i \in 1 .. (n + 1), <<i, n + 1>> \in Over(Track', n + 1, 0) PROVE FALSE
      OBVIOUS
    <3>1. Pause(Track', n + 1 - EndSilence + 1, n + 1)
      BY <1>1 DEF Over, Ends
    <3>2. n + 1 - b.silence \in (n + 1 - EndSilence + 1) .. (n + 1)
      BY <1>1, <2>1
    <3>3. QED
      BY <2>3, <3>1, <3>2 DEF Pause
  <2>9. Over(Track', n + 1, 0) = Over(Track, n, 0)
    BY <1>1, <1>10, <2>8, OverSame
  <2>10. QED
    BY <1>1, <1>2, <1>3, <1>6, <2>7, <2>9 DEF VoiceInv, CutsAreOver, Final, Ordered
<1>9. QED
  BY <1>7, <1>8

(* A buffer that is emptied hands its utterance on, if there is one.         *)
LEMMA HandedOn ==
    ASSUME VoiceTypeOK, Ordered(cuts), NEW b, NEW s \in Nat \ {0}, NEW n \in Nat, s <= n,
           Len(frames) <= n, b.start = s, NEW X, NEW Y, Elements(cuts) = X,
           \A m \in DOMAIN cuts : cuts[m][2] < s,
           \A p : p \in Y <=> p \in X \/ (p = <<s, n>> /\ b.speech >= MinSpeech)
    PROVE  /\ Elements(Handed(b, n)) = Y /\ Ordered(Handed(b, n))
           /\ Handed(b, n) \in Seq((1 .. n) \X (1 .. n))
<1>1. cuts \in Seq((1 .. n) \X (1 .. n)) /\ cuts \in Seq(Nat \X Nat)
  <2>1. /\ (1 .. Len(frames)) \X (1 .. Len(frames)) \subseteq (1 .. n) \X (1 .. n)
        /\ (1 .. Len(frames)) \X (1 .. Len(frames)) \subseteq Nat \X Nat
    BY TrackFacts
  <2>2. QED
    BY <2>1 DEF VoiceTypeOK
<1>2. CASE b.speech >= MinSpeech
  <2>1. Handed(b, n) = Append(cuts, <<s, n>>)
    BY <1>2 DEF Handed
  <2>2. /\ Elements(Append(cuts, <<s, n>>)) = Elements(cuts) \cup {<<s, n>>}
        /\ Ordered(Append(cuts, <<s, n>>))
    BY <1>1, CutAppended
  <2>3. Elements(cuts) \cup {<<s, n>>} = Y
    <3> DEFINE Z == {<<s, n>>}
    <3>1. \A p : p \in Y <=> p \in X \/ p \in Z
      BY <1>2
    <3> HIDE DEF Z
    <3>2. QED
      BY <3>1 DEF Z
  <2>4. <<s, n>> \in (1 .. n) \X (1 .. n)
    OBVIOUS
  <2>5. Append(cuts, <<s, n>>) \in Seq((1 .. n) \X (1 .. n))
    BY <1>1, <2>4
  <2>6. QED
    BY <2>1, <2>2, <2>3, <2>5
<1>3. CASE ~(b.speech >= MinSpeech)
  <2>1. Handed(b, n) = cuts
    BY <1>3 DEF Handed
  <2>2. X = Y
    BY <1>3
  <2>3. QED
    BY <1>1, <2>1, <2>2
<1>4. QED
  BY <1>2, <1>3

(* The pause has lasted long enough: the utterance is cut.                   *)
LEMMA CutsOff ==
    ASSUME VoiceInv, NEW active \in BOOLEAN, Feed(active),
           LET b == Heard(active) IN ~(b.start = 0 \/ b.silence < EndSilence)
    PROVE  VoiceInv'
<1> DEFINE n == Len(frames)
<1> DEFINE b == Heard(active)
<1>1. /\ VoiceTypeOK /\ n \in Nat /\ Track \in SUBSET (1 .. n) /\ ~flushed /\ ~flushed' /\ Speaking
      /\ EndSilence \in Nat \ {0} /\ CutsAreOver /\ Ordered(cuts)
  BY TrackFacts, VoiceActivityAssumption DEF VoiceInv, Feed
<1>2. buffer' = Empty /\ cuts' = Handed(b, Len(frames')) /\ frames' = Append(frames, active)
  BY DEF Feed
<1>3. /\ frames' \in Seq(BOOLEAN) /\ Len(frames') = n + 1
      /\ Track' = IF active THEN Track \cup {n + 1} ELSE Track
  BY <1>1, <1>2, TrackGrows
<1>4. /\ buffer.start \in 0 .. n /\ buffer.speech \in 0 .. n /\ buffer.silence \in 0 .. (EndSilence - 1)
  BY <1>1 DEF VoiceTypeOK
<1>5. \/ buffer.start = 0 /\ ~active /\ b = Empty
      \/ /\ active /\ b.start = (IF buffer.start = 0 THEN n + 1 ELSE buffer.start)
         /\ b.speech = buffer.speech + 1 /\ b.silence = 0
      \/ /\ ~active /\ buffer.start # 0 /\ b.start = buffer.start
         /\ b.speech = buffer.speech /\ b.silence = buffer.silence + 1
  BY <1>1, HeardFacts
<1>6. b.start # 0 /\ ~(b.silence < EndSilence)
  OBVIOUS
<1> HIDE DEF b
<1> DEFINE s == buffer.start
<1>7. /\ ~active /\ s # 0 /\ b.start = s /\ b.speech = buffer.speech /\ buffer.silence = EndSilence - 1
  BY <1>1, <1>4, <1>5, <1>6 DEF Empty
<1>8. /\ s \in 1 .. n /\ Begins(Track, s) /\ s + EndSilence - 1 <= n
      /\ \A k \in Track : k <= n - (EndSilence - 1)
      /\ \A g \in s .. n : g + EndSilence - 1 <= n => ~Pause(Track, g, g + EndSilence - 1)
      /\ buffer.speech = Cardinality(Frames(Track, s, n))
      /\ \A m \in DOMAIN cuts : cuts[m][2] < s
  BY <1>1, <1>7 DEF Speaking
<1> HIDE DEF s, n
<1>9. Track' = Track
  BY <1>3, <1>7
<1>10. \A i \in 1 .. (n + 1) : <<i, n + 1>> \in Over(Track, n + 1, 0) => i = s
  <2> SUFFICES ASSUME NEW i \in 1 .. (n + 1), <<i, n + 1>> \in Over(Track, n + 1, 0) PROVE i = s
    OBVIOUS
  <2>1. Begins(Track, i) /\ Whole(Track, i, n + 1)
    BY DEF Over
  <2>2. i \in 1 .. n /\ Track \in SUBSET Nat /\ n + 1 \in Nat /\ s <= n + 1
    BY <1>1, <1>8, <2>1 DEF Begins
  <2>3. QED
    BY <1>1, <1>8, <2>1, <2>2, OneBeginning
<1>11. <<s, n + 1>> \in Over(Track, n + 1, 0) <=> b.speech >= MinSpeech
  <2>1. <<s, n + 1>> \in (1 .. (n + 1)) \X (1 .. (n + 1)) /\ s <= n + 1
    BY <1>1, <1>8
  <2>2. Whole(Track, s, n + 1)
    <3> SUFFICES ASSUME NEW g \in s .. (n + 1), g + EndSilence - 1 < n + 1
                 PROVE  ~Pause(Track, g, g + EndSilence - 1)
      BY DEF Whole
    <3>1. g \in s .. n /\ g + EndSilence - 1 <= n
      BY <1>1, <1>8
    <3>2. QED
      BY <1>8, <3>1
  <2>3. Ends(Track, s, n + 1)
    <3>1. n + 1 - EndSilence >= s
      BY <1>1, <1>8
    <3>2. Pause(Track, n + 1 - EndSilence + 1, n + 1)
      BY <1>1, <1>8 DEF Pause
    <3>3. QED
      BY <1>1, <1>8, <3>1, <3>2 DEF Ends
  <2>4. Frames(Track, s, n + 1) = Frames(Track, s, n)
    <3>1. s \in 1 .. (n + 1)
      BY <1>1, <1>8
    <3>2. QED
      BY <1>1, <3>1, FramesGrow
  <2>5. b.speech = Cardinality(Frames(Track, s, n + 1))
    BY <1>7, <1>8, <2>4
  <2>6. QED
    BY <1>8, <2>1, <2>2, <2>3, <2>5 DEF Over
<1> DEFINE X == Over(Track, n, 0)
<1> DEFINE Y == Over(Track, n + 1, 0)
<1>12. \A p : p \in Y <=> p \in X \/ (p = <<s, n + 1>> /\ b.speech >= MinSpeech)
  <2>1. \A p : p \in Y <=> p \in X \/ \E i \in 1 .. (n + 1) : p = <<i, n + 1>> /\ p \in Y
    BY <1>1, OverGrows
  <2>2. s \in 1 .. (n + 1)
    BY <1>1, <1>8
  <2>3. (\A i \in 1 .. (n + 1) : <<i, n + 1>> \in Y => i = s) /\ (<<s, n + 1>> \in Y <=> b.speech >= MinSpeech)
    BY <1>10, <1>11
  <2> HIDE DEF X, Y
  <2>4. QED
    BY <2>1, <2>2, <2>3
<1>13. Elements(cuts) = X
  BY <1>1 DEF CutsAreOver, Final, n
<1> HIDE DEF X, Y
<1>14. /\ Elements(Handed(b, n + 1)) = Y /\ Ordered(Handed(b, n + 1))
       /\ Handed(b, n + 1) \in Seq((1 .. (n + 1)) \X (1 .. (n + 1)))
  <2>1. s \in Nat \ {0} /\ n + 1 \in Nat /\ s <= n + 1 /\ Len(frames) <= n + 1 /\ b.start = s
    BY <1>1, <1>7, <1>8 DEF n
  <2>2. VoiceTypeOK /\ Ordered(cuts) /\ \A m \in DOMAIN cuts : cuts[m][2] < s
    BY <1>1, <1>8
  <2>3. QED
    BY ZenonT(60), <1>12, <1>13, <2>1, <2>2, HandedOn
<1>15. cuts' = Handed(b, n + 1)
  BY <1>2, <1>3
<1>16. VoiceTypeOK'
  <2>1. buffer' \in [start : 0 .. (n + 1), speech : 0 .. (n + 1), silence : 0 .. (EndSilence - 1)]
    BY <1>1, <1>2 DEF Empty
  <2>2. flushed' \in BOOLEAN
    BY <1>1 DEF VoiceTypeOK, Feed
  <2>3. QED
    BY <1>3, <1>14, <1>15, <2>1, <2>2 DEF VoiceTypeOK
<1>17. Quiescent' /\ Speaking'
  <2>1. buffer' = Empty /\ buffer'.start = 0
    BY <1>2 DEF Empty
  <2>2. \A k \in Track' : k + EndSilence <= Len(frames')
    BY <1>1, <1>3, <1>8, <1>9
  <2>3. QED
    BY <2>1, <2>2 DEF Quiescent, Speaking
<1>18. CutsAreOver' /\ Ordered(cuts')
  <2>1. Final' = 0
    BY <1>1 DEF Final
  <2>2. Elements(cuts') = Y
    BY <1>14, <1>15
  <2>3. QED
    BY <1>3, <1>9, <1>14, <1>15, <2>1, <2>2 DEF CutsAreOver, Y
<1>19. QED
  BY <1>16, <1>17, <1>18 DEF VoiceInv, Ordered

LEMMA FeedStep == VoiceInv /\ (\E active \in BOOLEAN : Feed(active)) => VoiceInv'
<1> SUFFICES ASSUME VoiceInv, NEW active \in BOOLEAN, Feed(active) PROVE VoiceInv'
  OBVIOUS
<1> DEFINE b == Heard(active)
<1>1. CASE b.start = 0 \/ b.silence < EndSilence
  BY <1>1, GoesOn
<1>2. CASE ~(b.start = 0 \/ b.silence < EndSilence)
  BY <1>2, CutsOff
<1>3. QED
  BY <1>1, <1>2

(* The end of the meeting ends the stretch that still goes on.               *)
LEMMA FlushStep == VoiceInv /\ Flush => VoiceInv'
<1> SUFFICES ASSUME VoiceInv, Flush PROVE VoiceInv'
  OBVIOUS
<1> DEFINE n == Len(frames)
<1>1. /\ VoiceTypeOK /\ n \in Nat /\ Track \in SUBSET (1 .. n) /\ ~flushed /\ Quiescent /\ Speaking
      /\ EndSilence \in Nat \ {0} /\ CutsAreOver /\ Ordered(cuts)
  BY TrackFacts, VoiceActivityAssumption DEF VoiceInv, Flush
<1>2. /\ flushed' = TRUE /\ buffer' = Empty /\ cuts' = Handed(buffer, n) /\ frames' = frames /\ Track' = Track
  BY DEF Flush, Track
<1>3. Elements(cuts) = Over(Track, n, 0)
  BY <1>1 DEF CutsAreOver, Final
<1> DEFINE s == buffer.start
<1> DEFINE X == Over(Track, n, 0)
<1> DEFINE Y == Over(Track, n, n)
<1>4. X \subseteq Y
  BY DEF Over
<1>5. \A p : p \in Y /\ p \notin X => \E i \in 1 .. n : p = <<i, n>>
  <2> SUFFICES ASSUME NEW p, p \in Y, p \notin X PROVE \E i \in 1 .. n : p = <<i, n>>
    OBVIOUS
  <2>1. PICK i \in 1 .. n, j \in 1 .. n : p = <<i, j>>
    BY DEF Over
  <2>2. j = n
    BY <2>1 DEF Over
  <2>3. QED
    BY <2>1, <2>2
<1> HIDE DEF n
<1>6. /\ Elements(Handed(buffer, n)) = Y /\ Ordered(Handed(buffer, n))
      /\ Handed(buffer, n) \in Seq((1 .. n) \X (1 .. n))
  <2>1. CASE s = 0
    <3>1. \A k \in Track : k + EndSilence <= n
      BY <1>1, <2>1 DEF Quiescent, n
    <3>2. Y \subseteq X
      <4> SUFFICES ASSUME NEW p \in Y, p \notin X PROVE FALSE
        OBVIOUS
      <4>1. PICK i \in 1 .. n : p = <<i, n>>
        BY <1>5
      <4>2. i \in Track
        BY <4>1 DEF Over, Begins
      <4>3. n - EndSilence >= i
        BY <1>1, <3>1, <4>2
      <4>4. Pause(Track, n - EndSilence + 1, n)
        BY <1>1, <3>1 DEF Pause
      <4>5. Ends(Track, p[1], p[2])
        BY <4>1, <4>3, <4>4 DEF Ends
      <4>6. QED
        BY <4>5 DEF Over
    <3>3. Handed(buffer, n) = cuts
      BY <2>1 DEF Handed
    <3>4. X = Y
      BY <1>4, <3>2
    <3>5. QED
      BY <1>1, <1>3, <3>3, <3>4 DEF VoiceTypeOK, n
  <2>2. CASE s # 0
    <3>1. /\ s \in 1 .. n /\ Begins(Track, s)
          /\ \A g \in s .. n : g + EndSilence - 1 <= n => ~Pause(Track, g, g + EndSilence - 1)
          /\ buffer.speech = Cardinality(Frames(Track, s, n))
          /\ \A m \in DOMAIN cuts : cuts[m][2] < s
      BY <1>1, <2>2 DEF Speaking, n
    <3> HIDE DEF s
    <3>2. \A i \in 1 .. n : <<i, n>> \in Y => i = s
      <4> SUFFICES ASSUME NEW i \in 1 .. n, <<i, n>> \in Y PROVE i = s
        OBVIOUS
      <4>1. Begins(Track, i) /\ Whole(Track, i, n)
        BY DEF Over
      <4>2. Track \in SUBSET Nat /\ s <= n
        BY <1>1, <3>1
      <4>3. QED
        BY <1>1, <3>1, <4>1, <4>2, OneBeginning
    <3>3. <<s, n>> \in Y <=> buffer.speech >= MinSpeech
      <4>1. <<s, n>> \in (1 .. n) \X (1 .. n) /\ s <= n
        BY <1>1, <3>1
      <4>2. Whole(Track, s, n)
        BY <1>1, <3>1 DEF Whole
      <4>3. QED
        BY <3>1, <4>1, <4>2 DEF Over
    <3>4. <<s, n>> \notin X
      <4> SUFFICES ASSUME <<s, n>> \in X PROVE FALSE
        OBVIOUS
      <4>1. Ends(Track, s, n)
        BY <1>1, <3>1 DEF Over
      <4> DEFINE g == n - EndSilence + 1
      <4>2. g \in s .. n /\ g + EndSilence - 1 = n
        BY <1>1, <3>1, <4>1 DEF Ends
      <4>3. Pause(Track, g, g + EndSilence - 1)
        BY <4>1, <4>2 DEF Ends
      <4> HIDE DEF g
      <4>4. QED
        BY <1>1, <3>1, <4>2, <4>3
    <3>5. \A p : p \in Y <=> p \in X \/ (p = <<s, n>> /\ buffer.speech >= MinSpeech)
      <4> HIDE DEF X, Y
      <4>1. QED
        BY <1>4, <1>5, <3>1, <3>2, <3>3
    <3>6. Elements(cuts) = X
      BY <1>3
    <3> HIDE DEF X, Y
    <3>7. s \in Nat \ {0} /\ n \in Nat /\ s <= n /\ Len(frames) <= n /\ buffer.start = s
      BY <1>1, <3>1 DEF n, s
    <3>8. VoiceTypeOK /\ Ordered(cuts) /\ \A m \in DOMAIN cuts : cuts[m][2] < s
      BY <1>1, <3>1
    <3>9. QED
      BY ZenonT(60), <3>5, <3>6, <3>7, <3>8, HandedOn
  <2>3. QED
    BY <2>1, <2>2
<1>7. VoiceTypeOK'
  <2>1. buffer' \in [start : 0 .. n, speech : 0 .. n, silence : 0 .. (EndSilence - 1)]
    BY <1>1, <1>2 DEF Empty
  <2>2. QED
    BY <1>1, <1>2, <1>6, <2>1 DEF VoiceTypeOK, n
<1>8. CutsAreOver' /\ Ordered(cuts')
  <2>1. Final' = n /\ Len(frames') = n
    BY <1>2 DEF Final, n
  <2> HIDE DEF Y
  <2>2. Elements(cuts') = Y /\ Ordered(cuts')
    BY <1>2, <1>6
  <2>3. QED
    BY <1>2, <2>1, <2>2 DEF CutsAreOver, Y
<1>9. QED
  BY <1>2, <1>7, <1>8 DEF VoiceInv, Ordered

LEMMA VoiceBegins == VoiceInit => VoiceInv
<1> SUFFICES ASSUME VoiceInit PROVE VoiceInv
  OBVIOUS
<1>1. /\ buffer = Empty /\ cuts = <<>> /\ frames = <<>> /\ flushed = FALSE /\ Len(frames) = 0 /\ DOMAIN cuts = {}
  BY DEF VoiceInit
<1>2. VoiceTypeOK
  <2>1. buffer \in [start : 0 .. 0, speech : 0 .. 0, silence : 0 .. (EndSilence - 1)]
    BY <1>1, VoiceActivityAssumption DEF Empty
  <2>2. frames \in Seq(BOOLEAN)
    BY <1>1
  <2>5. flushed \in BOOLEAN
    BY <1>1
  <2>3. cuts \in Seq((1 .. Len(frames)) \X (1 .. Len(frames)))
    BY <1>1
  <2>4. QED
    BY <1>1, <2>1, <2>2, <2>3, <2>5 DEF VoiceTypeOK
<1>3. Track = {} /\ Final = 0
  BY <1>1 DEF Track, Final
<1>4. Over(Track, Len(frames), Final) = {} /\ Elements(cuts) = {}
  BY <1>1 DEF Over, Elements
<1>5. QED
  BY <1>1, <1>2, <1>3, <1>4 DEF VoiceInv, CutsAreOver, Ordered, Quiescent, Speaking, Empty

LEMMA VoiceStays == VoiceInv /\ UNCHANGED voiceVars => VoiceInv'
<1> SUFFICES ASSUME VoiceInv, UNCHANGED voiceVars PROVE VoiceInv'
  OBVIOUS
<1>1. buffer' = buffer /\ cuts' = cuts /\ frames' = frames /\ flushed' = flushed /\ Track' = Track /\ Final' = Final
  BY DEF voiceVars, Track, Final
<1>2. VoiceTypeOK'
  BY <1>1 DEF VoiceInv, VoiceTypeOK
<1>3. CutsAreOver' /\ Ordered(cuts')
  BY <1>1 DEF VoiceInv, CutsAreOver
<1>4. ~flushed => Quiescent' /\ Speaking'
  BY <1>1 DEF VoiceInv, Quiescent, Speaking
<1>5. QED
  BY <1>1, <1>2, <1>3, <1>4 DEF VoiceInv, Ordered

(* The voice activity buffer cuts a track, of any length and with any        *)
(* pauses, into exactly its stretches of speech, in order and without        *)
(* overlap: no speech is handed on twice and none is lost as the meeting     *)
(* ends (voice_activity.py:47).                                              *)
THEOREM SpeechCut == VoiceSpec => []SpeechIsCut
<1>1. VoiceInv /\ [VoiceNext]_voiceVars => VoiceInv'
  BY FeedStep, FlushStep, VoiceStays DEF VoiceNext
<1>2. QED
  BY <1>1, VoiceBegins, VoiceSuffices, PTL DEF VoiceSpec
=============================================================================
