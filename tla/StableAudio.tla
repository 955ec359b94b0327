----------------------------- MODULE StableAudio ----------------------------
(***************************************************************************)
(* useStableAudioSession of the browser: one LiveKit Room for the meetings   *)
(* of a Session.  The composable runs on the event loop; a call (connect,    *)
(* disconnect, the end of the reconnect window) is at the promise it awaits, *)
(* and LiveKit's events come in between.  The Session has one room name, so  *)
(* the branch for another name is left out, as are mute, output devices and  *)
(* the lists of participants.                                                *)
(***************************************************************************)
EXTENDS Naturals, FiniteSets, Sequences

CONSTANTS
    Teammate,       \* the participant is T1 or T2
    Calls,          \* calls that may be in flight
    MaxRooms,       \* bound: Room objects
    MaxJoins,       \* bound: generations begun by the participant or a phase
    MaxDrops        \* bound: times the network disturbs a link

ASSUME StableAssumption ==
    /\ Teammate \in BOOLEAN
    /\ {MaxRooms, MaxJoins, MaxDrops} \subseteq Nat

VARIABLES
    phase,          \* index in Phases: the phase of the Session in A
    screen,         \* index in Phases: the phase the page has
    connection,     \* connectionState
    room,           \* the current Room object, 0 when there is none
    link,           \* Room -> "unused", "new", "up", "shaky" or "gone"
    named,          \* roomName is set
    context,        \* currentContext is set
    window,         \* the reconnect window is open (reconnectTimer)
    generation,
    calls,          \* the calls in flight
    drops,          \* disturbances so far
    late            \* history: the state became off while a newer call went on

stableVars ==
    <<phase, screen, connection, room, link, named, context, window, generation,
      calls, drops, late>>

Phases == <<"PROXY_MEETING", "REVIEW", "HANDOFF", "SYNC_MEETING", "FINAL_DECISION">>
AUDIO_PHASES == {"PROXY_MEETING", "HANDOFF", "SYNC_MEETING"}
TEAMMATE_BRIDGE_PHASES == {"PROXY_MEETING", "REVIEW"}
RoomIds == 1..MaxRooms
Off == {"disconnected", "reconnect_failed"}
NoCall == [at |-> "none", gen |-> 0, target |-> 0, same |-> FALSE]

StableInit ==
    /\ phase = 1 /\ screen = 1
    /\ connection = "disconnected" /\ room = 0
    /\ link = [r \in RoomIds |-> "unused"]
    /\ named = FALSE /\ context = FALSE /\ window = FALSE
    /\ generation = 0
    /\ calls = [c \in Calls |-> NoCall]
    /\ drops = 0 /\ late = FALSE

Live == {r \in RoomIds : link[r] \in {"up", "shaky"}}
InFlight == {c \in Calls : calls[c].at # "none"}

\* A connect that was not superseded is on its way.
Joining == \E c \in Calls :
    /\ calls[c].gen = generation
    /\ calls[c].at \in {"access", "granted", "dial", "dialled", "microphone"}

\* issue_media_access in A: who is let into the room in which phase.
Admitted == Phases[phase] \in AUDIO_PHASES /\ (Teammate \/ Phases[phase] # "PROXY_MEETING")
Bridges(p) == Teammate /\ Phases[p] \in TEAMMATE_BRIDGE_PHASES

\* A call sees the end of the promises it shares with others on the same Room.
Woken(cs, r, at) ==
    [c \in Calls |-> IF cs[c].at = "dial" /\ cs[c].target = r THEN [cs[c] EXCEPT !.at = at] ELSE cs[c]]

(* Mutant: the Room is forgotten, its connection is not closed. *)
Release_Forgets(r) ==
    /\ room' = IF r = room THEN 0 ELSE room
    /\ named' = (named /\ r # room)
    /\ UNCHANGED link

\* releaseRoom up to its await; what was dialling on that Room is aborted.
Release(r) ==
    /\ room' = IF r = room THEN 0 ELSE room
    /\ named' = (named /\ r # room)
    /\ link' = IF r = 0 THEN link ELSE [link EXCEPT ![r] = "gone"]

\* Call c releases Room r and awaits that, to go on at "at"; without a Room
\* there is nothing to await and the state is set at once.
ReleaseThen(c, r, at, state) ==
    /\ Release(r)
    /\ IF r = 0
       THEN calls' = [calls EXCEPT ![c] = NoCall] /\ connection' = state
       ELSE /\ calls' = Woken([calls EXCEPT ![c].at = at, ![c].target = r, ![c].gen = generation'], r, "broken")
            /\ UNCHANGED connection

Advance ==
    /\ phase < Len(Phases)
    /\ phase' = phase + 1
    /\ UNCHANGED <<screen, connection, room, link, named, context, window, generation, calls, drops, late>>

\* connect up to its first await.
BeginConnect(c) ==
    /\ generation' = generation + 1
    /\ calls' = [calls EXCEPT ![c] = [at |-> "access", gen |-> generation', target |-> 0,
                                      same |-> connection = "connected" /\ named]]
    /\ connection' = "connecting" /\ context' = TRUE
    /\ UNCHANGED <<room, link, named, window>>

(* Mutant: the calls under way are not superseded. *)
BeginLeave_SameGeneration(c) ==
    /\ generation' = generation
    /\ window' = FALSE
    /\ ReleaseThen(c, room, "leaving", "disconnected")
    /\ UNCHANGED context

\* disconnect up to its await.
BeginLeave(c) ==
    /\ generation' = generation + 1
    /\ window' = FALSE
    /\ ReleaseThen(c, room, "leaving", "disconnected")
    /\ UNCHANGED context

\* The participant joins, which the page offers in a meeting while off, or leaves.
Join(c) ==
    /\ calls[c] = NoCall /\ generation < MaxJoins
    /\ connection \in Off /\ Phases[screen] \in AUDIO_PHASES
    /\ BeginConnect(c)
    /\ UNCHANGED <<phase, screen, drops, late>>

Leave(c) ==
    /\ calls[c] = NoCall /\ generation < MaxJoins
    /\ connection \notin Off /\ Phases[screen] \in AUDIO_PHASES
    /\ BeginLeave(c)
    /\ UNCHANGED <<phase, screen, drops, late>>

(* Mutant: a Room that is recovering is kept whatever the phase. *)
Sync_KeepsRecovering(c) ==
    LET recovers == connection = "reconnecting"
    IN  /\ calls[c] = NoCall /\ screen # phase
        /\ screen' = phase
        /\ \/ /\ connection \in Off \/ Bridges(phase) \/ recovers
              /\ UNCHANGED <<connection, room, link, named, context, window, generation, calls>>
           \/ /\ connection \notin Off /\ ~Bridges(phase) /\ ~recovers
              /\ IF Phases[phase] \in AUDIO_PHASES /\ context THEN BeginConnect(c) ELSE BeginLeave(c)
        /\ UNCHANGED <<phase, drops, late>>

\* syncAuthoritativePhase, when the page learns of the phase.
Sync(c) ==
    LET recovers == connection = "reconnecting" /\ Phases[phase] \in AUDIO_PHASES
    IN  /\ calls[c] = NoCall /\ screen # phase
        /\ screen' = phase
        /\ \/ /\ connection \in Off \/ Bridges(phase) \/ recovers
              /\ UNCHANGED <<connection, room, link, named, context, window, generation, calls>>
           \/ /\ connection \notin Off /\ ~Bridges(phase) /\ ~recovers
              /\ IF Phases[phase] \in AUDIO_PHASES /\ context THEN BeginConnect(c) ELSE BeginLeave(c)
        /\ UNCHANGED <<phase, drops, late>>

(* A answers the request for access; the answer reaches the browser later.     *)
Ask(c) ==
    /\ calls[c].at = "access"
    /\ calls' = [calls EXCEPT ![c].at = IF Admitted THEN "granted" ELSE "broken"]
    /\ UNCHANGED <<phase, screen, connection, room, link, named, context, window, generation, drops, late>>

\* The catch of connect: the failure of a superseded call is dropped.
Broken(c) ==
    /\ calls[c].at = "broken"
    /\ UNCHANGED <<phase, screen, context, window, generation, drops, late>>
    /\ IF calls[c].gen = generation
       THEN ReleaseThen(c, IF calls[c].target = 0 THEN room ELSE calls[c].target, "failed", "disconnected")
       ELSE calls' = [calls EXCEPT ![c] = NoCall] /\ UNCHANGED <<connection, room, link, named>>

\* connect goes on with its access: ensureRoom, and target.connect unless the
\* Room was connected when the call began.
Granted(c) ==
    LET r == IF room # 0 THEN room ELSE Cardinality({i \in RoomIds : link[i] # "unused"}) + 1
    IN  /\ calls[c].at = "granted" /\ r \in RoomIds
        /\ IF calls[c].gen # generation
           THEN calls' = [calls EXCEPT ![c] = NoCall] /\ UNCHANGED <<room, link>>
           ELSE /\ room' = r
                /\ link' = IF r = room THEN link ELSE [link EXCEPT ![r] = "new"]
                /\ calls' = [calls EXCEPT
                        ![c].target = r,
                        ![c].at = IF calls[c].same THEN "microphone"
                                  ELSE IF r \in Live THEN "dialled" ELSE "dial"]
        /\ UNCHANGED <<phase, screen, connection, named, context, window, generation, drops, late>>

(* LiveKit: the connection of a Room is made, with ConnectionStateChanged, or   *)
(* is not made.                                                                *)
LinkUp(r) ==
    /\ link[r] = "new" /\ \E c \in Calls : calls[c].at = "dial" /\ calls[c].target = r
    /\ link' = [link EXCEPT ![r] = "up"]
    /\ calls' = Woken(calls, r, "dialled")
    /\ connection' = IF r = room THEN "connected" ELSE connection
    /\ UNCHANGED <<phase, screen, room, named, context, window, generation, drops, late>>

LinkFails(r) ==
    /\ link[r] = "new" /\ \E c \in Calls : calls[c].at = "dial" /\ calls[c].target = r
    /\ calls' = Woken(calls, r, "broken")
    /\ UNCHANGED <<phase, screen, connection, room, link, named, context, window, generation, drops, late>>

\* A call that was superseded while dialling releases the Room it dialled.
Dialled(c) ==
    /\ calls[c].at = "dialled"
    /\ IF calls[c].gen = generation
       THEN /\ calls' = [calls EXCEPT ![c].at = "microphone"]
            /\ UNCHANGED <<room, link, named>>
       ELSE /\ Release(calls[c].target)
            /\ calls' = Woken([calls EXCEPT ![c].at = "superseded"], calls[c].target, "broken")
    /\ UNCHANGED <<phase, screen, connection, context, window, generation, drops, late>>

\* setMicrophoneEnabled ends; on a Room that is not connected it may still end
\* well, when the participant is muted.  The generation is not looked at again.
MicrophoneSet(c) ==
    /\ calls[c].at = "microphone"
    /\ named' = TRUE /\ connection' = "connected"
    /\ calls' = [calls EXCEPT ![c] = NoCall]
    /\ UNCHANGED <<phase, screen, room, link, context, window, generation, drops, late>>

MicrophoneFails(c) ==
    /\ calls[c].at = "microphone"
    /\ calls' = [calls EXCEPT ![c].at = "broken"]
    /\ UNCHANGED <<phase, screen, connection, room, link, named, context, window, generation, drops, late>>

(* Mutant: a window that expired has an outcome the page does not know. *)
Released_Failed(c) ==
    /\ calls[c].at \in {"superseded", "failed", "leaving", "expired"}
    /\ calls' = [calls EXCEPT ![c] = NoCall]
    /\ connection' = CASE calls[c].at = "superseded" -> connection
                       [] calls[c].at = "expired" -> "failed"
                       [] OTHER -> "disconnected"
    /\ late' = (late \/ (calls[c].at # "superseded" /\ calls[c].gen # generation))
    /\ UNCHANGED <<phase, screen, room, link, named, context, window, generation, drops>>

\* The Room a call released is closed, and the call sets the state.
Released(c) ==
    /\ calls[c].at \in {"superseded", "failed", "leaving", "expired"}
    /\ calls' = [calls EXCEPT ![c] = NoCall]
    /\ connection' = CASE calls[c].at = "superseded" -> connection
                       [] calls[c].at = "expired" -> "reconnect_failed"
                       [] OTHER -> "disconnected"
    /\ late' = (late \/ (calls[c].at # "superseded" /\ calls[c].gen # generation))
    /\ UNCHANGED <<phase, screen, room, link, named, context, window, generation, drops>>

(* Mutant: the window is not started. *)
Reconnecting_NoWindow(r) ==
    /\ link[r] = "up" /\ drops < MaxDrops
    /\ link' = [link EXCEPT ![r] = "shaky"] /\ drops' = drops + 1
    /\ IF r = room THEN window' = FALSE /\ connection' = "reconnecting"
                   ELSE UNCHANGED <<window, connection>>
    /\ UNCHANGED <<phase, screen, room, named, context, generation, calls, late>>

(* LiveKit's Reconnecting, Reconnected and Disconnected.                       *)
Reconnecting(r) ==
    /\ link[r] = "up" /\ drops < MaxDrops
    /\ link' = [link EXCEPT ![r] = "shaky"] /\ drops' = drops + 1
    /\ IF r = room THEN window' = TRUE /\ connection' = "reconnecting"
                   ELSE UNCHANGED <<window, connection>>
    /\ UNCHANGED <<phase, screen, room, named, context, generation, calls, late>>

Reconnected(r) ==
    /\ link[r] = "shaky"
    /\ link' = [link EXCEPT ![r] = "up"]
    /\ IF r = room THEN window' = FALSE /\ connection' = "connected"
                   ELSE UNCHANGED <<window, connection>>
    /\ UNCHANGED <<phase, screen, room, named, context, generation, calls, drops, late>>

Disconnected(r) ==
    /\ r \in Live /\ drops < MaxDrops
    /\ link' = [link EXCEPT ![r] = "gone"] /\ drops' = drops + 1
    /\ IF r = room
       THEN room' = 0 /\ named' = FALSE /\ window' = FALSE /\ connection' = "disconnected"
       ELSE UNCHANGED <<room, named, window, connection>>
    /\ late' = (late \/ (r = room /\ Joining))
    /\ UNCHANGED <<phase, screen, context, generation, calls>>

\* updateReconnectCountdown after 30 seconds, up to its await.
Expire(c) ==
    /\ calls[c] = NoCall /\ window
    /\ window' = FALSE /\ generation' = generation + 1
    /\ ReleaseThen(c, room, "expired", "reconnect_failed")
    /\ UNCHANGED <<phase, screen, context, drops, late>>

StableNext ==
    \/ Advance
    \/ \E c \in Calls :
        \/ Join(c)
        \/ Leave(c)
        \/ Sync(c)
        \/ Ask(c)
        \/ Granted(c)
        \/ Broken(c)
        \/ Dialled(c)
        \/ MicrophoneSet(c)
        \/ MicrophoneFails(c)
        \/ Released(c)
        \/ Expire(c)
    \/ \E r \in RoomIds :
        \/ LinkUp(r)
        \/ LinkFails(r)
        \/ Reconnecting(r)
        \/ Reconnected(r)
        \/ Disconnected(r)

StableSpec == StableInit /\ [][StableNext]_stableVars

\* The interval timer fires, and every promise ends: requests and LiveKit have
\* time limits.
StableFairness ==
    /\ WF_stableVars(\E c \in Calls : Expire(c))
    /\ \A c \in Calls :
        WF_stableVars(Ask(c) \/ Granted(c) \/ Broken(c) \/ Dialled(c)
                        \/ MicrophoneSet(c) \/ MicrophoneFails(c) \/ Released(c))
    /\ \A r \in RoomIds : WF_stableVars(LinkUp(r) \/ LinkFails(r))

-----------------------------------------------------------------------------
\* Type correctness.
StableTypeOK ==
    /\ {phase, screen} \subseteq 1..Len(Phases)
    /\ connection \in Off \cup {"connecting", "connected", "reconnecting"}
    /\ room \in {0} \cup RoomIds
    /\ \A c \in Calls : calls[c].target \in {0} \cup RoomIds /\ calls[c].gen <= generation

\* Whatever joins, leaves, phases and recoveries overlap, the participant is in
\* the media room once: only the current Room can be connected
\* (docs/study1-pilot-failure-scenarios.md:7 "without duplication").
OneRoom == Live \subseteq {room}

\* When nothing is under way, the page that says the participant is out is
\* right, unless a call spoke after a newer one had begun.
OutIsOut == InFlight = {} /\ connection \in Off /\ ~late => Live = {}

\* Then, too, the microphone is off once the page has learnt of a phase without
\* audio; teammates stay connected in the phases between their two meetings.
SilentOutsideMeetings ==
    InFlight = {} /\ ~late /\ screen = phase
        /\ Phases[phase] \notin AUDIO_PHASES /\ ~Bridges(phase) => Live = {}

\* The page does not show "reconnecting" for ever.
WindowIsBounded == []<>(connection # "reconnecting")

\* The browser is in one room at most, and as connected and as audible as its
\* page and the phase say.
AudioFollowsPage == StableTypeOK /\ OneRoom /\ OutIsOut /\ SilentOutsideMeetings
=============================================================================
