---------------------------- MODULE MediaRuntime ----------------------------
(***************************************************************************)
(* The runtime coordinator of the media service B for one session, and the   *)
(* LiveKit room it steers.                                                   *)
(*                                                                           *)
(* A goes through the proxy meeting, the handoff and the synchronous         *)
(* meeting, one phase version each, and commands B in each of them.  B runs  *)
(* one command at a time, under the lock of the session.  People who join or *)
(* leave make tasks of their own, outside that lock, and these refresh the   *)
(* handoff barrier.  Every call of LiveKit or of the pipeline is an await:   *)
(* what a command or a task does between two of them is one step.            *)
(*                                                                           *)
(* A phase is not repeated here.  Times, device data and the audit events    *)
(* PARTICIPANT_JOINED and PARTICIPANT_LEFT are left out.                     *)
(***************************************************************************)
EXTENDS Naturals, Sequences

CONSTANTS
    Humans,         \* the roles that must be in the room: HANDOFF_HUMAN_ROLES
    Tasks,          \* tasks that report a participant, at most at one time
    Forced,         \* whether the researcher may override unmet prerequisites
    MaxChanges,     \* bound: times somebody joins, leaves or reports a device
    MaxFaults,      \* bound: calls that fail, crashes of B and overrides, together
    MaxCrashes      \* bound: crashes of B

ASSUME MediaRuntimeAssumption ==
    /\ "principal" \in Humans
    /\ "op" \notin Tasks
    /\ Forced \in BOOLEAN
    /\ MaxChanges \in Nat /\ MaxFaults \in Nat /\ MaxCrashes \in Nat

VARIABLES
    phase,          \* A: the phase of the session
    status,         \* B: status of each command
    received,       \* B: commands in the order of received_at
    queue,          \* B: commands that wait for the lock of the session
    mode,           \* B: "reconciling" and "replaying" after a start, then "serving"
    replay,         \* B: commands reconcile_pending has selected and not yet run
    starting,       \* B: runtimes reconcile has left to rebuild
    op,             \* B: the command that holds the lock, and where it stands
    runtime,        \* B: the row of each runtime: [state, ended]
    marked,         \* B: the row of the proxy runtime names the handoff version
    life,           \* B: the runtime the audio pipeline is open for
    barrier,        \* B: "none", or the runtime of the HandoffBarrier
    runs,           \* B: calls of apply_speaking_policy under way
    transcripts,    \* B: runtimes whose transcript artifact is written
    events,         \* B: runtime events in the outbox
    preflight,      \* B: every role has a ready device
    present,        \* room: the people in it
    may_speak,      \* room: those whose permission is to publish
    recorder_in, proxy_in,      \* room: B's own participants
    resumed,        \* history: a start ran again after its meeting had gone on
    cancelled,      \* history: the handoff cut the proxy meeting off
    changes, faults, crashes    \* history, bounded

rows == <<status, received, runtime, marked, transcripts, events, preflight>>
startup == <<mode, replay, starting>>
memory == <<queue, startup, op, life, barrier, runs>>
room == <<present, may_speak, recorder_in, proxy_in>>
counters == <<resumed, cancelled, changes, faults, crashes>>
vars == <<phase, rows, memory, room, counters>>

Phases == {"PROXY_MEETING", "HANDOFF", "SYNC_MEETING", "TERMINATED"}
Kinds == {"proxy", "sync"}
Commands == {"START_PROXY", "END_PROXY", "BEGIN_HANDOFF", "START_SYNC", "END_SYNC", "STOP"}
RuntimeState == {"none", "PREPARING", "ACTIVE", "ENDING", "HANDING_OFF", "STOPPED", "ERROR"}
Statuses == {"none", "accepted", "processing", "completed", "failed"}
Steps == {"begin", "finalize", "leave", "previous", "retire", "create", "recorder",
          "connect", "policy", "room"}
Runners == Tasks \cup {"op"}

(* The phase in which A sends each command.                                  *)
required == [c \in Commands \ {"STOP"} |->
                IF c \in {"START_PROXY", "END_PROXY"} THEN "PROXY_MEETING"
                ELSE IF c = "BEGIN_HANDOFF" THEN "HANDOFF" ELSE "SYNC_MEETING"]

EventSet == {"MEDIA_READY proxy", "MEDIA_READY sync", "MEETING_ENDED proxy",
             "MEETING_ENDED sync", "HANDOFF_COMPLETE", "MEDIA_ERROR"}

NoOp == [cmd |-> "none", at |-> "begin"]
Op(c, at) == [cmd |-> c, at |-> at]
Idle == [at |-> "idle"]
Run(at, policy, todo, heard, r) ==
    [at |-> at, policy |-> policy, todo |-> todo, heard |-> heard, runtime |-> r]
RunSet == [at : {"list", "update"}, policy : {"handoff", "sync"}, todo : SUBSET Humans,
           heard : SUBSET Humans, runtime : Kinds \cup {"no runtime"}]

TypeOK ==
    /\ phase \in Phases
    /\ status \in [Commands -> Statuses]
    /\ received \in Seq(Commands) /\ queue \in Seq(Commands)
    /\ mode \in {"reconciling", "replaying", "serving"}
    /\ replay \subseteq Commands /\ starting \subseteq Kinds
    /\ op \in {NoOp} \cup [cmd : Commands \cup {"reconcile"}, at : Steps]
    /\ runtime \in [Kinds -> [state : RuntimeState, ended : BOOLEAN]]
    /\ marked \in BOOLEAN /\ life \in Kinds \cup {"none"}
    /\ barrier \in Kinds \cup {"none", "no runtime"}
    /\ runs \in [Runners -> {Idle} \cup RunSet]
    /\ transcripts \subseteq Kinds /\ events \subseteq EventSet
    /\ preflight \in BOOLEAN
    /\ present \subseteq Humans /\ may_speak \subseteq Humans
    /\ recorder_in \in BOOLEAN /\ proxy_in \in BOOLEAN
    /\ resumed \in BOOLEAN /\ cancelled \in BOOLEAN
    /\ changes \in 0 .. MaxChanges /\ faults \in 0 .. MaxFaults
    /\ crashes \in 0 .. MaxCrashes

Init ==
    /\ phase = "PROXY_MEETING"
    /\ status = [c \in Commands |-> "none"]
    /\ received = <<>> /\ queue = <<>> /\ mode = "serving" /\ replay = {} /\ starting = {}
    /\ op = NoOp
    /\ runtime = [k \in Kinds |-> [state |-> "none", ended |-> FALSE]]
    /\ marked = FALSE /\ life = "none" /\ barrier = "none"
    /\ runs = [x \in Runners |-> Idle]
    /\ transcripts = {} /\ events = {} /\ preflight \in BOOLEAN
    /\ present \in SUBSET (Humans \ {"principal"})
    /\ may_speak = present
    /\ recorder_in = FALSE /\ proxy_in = FALSE
    /\ resumed = FALSE /\ cancelled = FALSE
    /\ changes = 0 /\ faults = 0 /\ crashes = 0

-----------------------------------------------------------------------------
Fault == faults < MaxFaults /\ faults' = faults + 1
         /\ UNCHANGED <<resumed, cancelled, changes, crashes>>

(* A: the phase moves on when B has reported its end, or by an override.     *)
Reported == (phase = "PROXY_MEETING" /\ "MEETING_ENDED proxy" \in events)
            \/ (phase = "HANDOFF" /\ "HANDOFF_COMPLETE" \in events)

Advance ==
    /\ \/ phase = "PROXY_MEETING" /\ phase' = "HANDOFF"
       \/ phase = "HANDOFF" /\ phase' = "SYNC_MEETING"
    /\ \/ Reported /\ UNCHANGED counters
       \/ Forced /\ ~Reported /\ Fault
    /\ UNCHANGED <<rows, memory, room>>

(* A sends a command of its phase; B records it once, and runs a repeated    *)
(* one again if it has failed.                                               *)
Issue(c) ==
    /\ mode = "serving"
    /\ IF c = "STOP" THEN phase' = "TERMINATED"
       ELSE phase = required[c] /\ UNCHANGED phase
    /\ \/ /\ status[c] = "none"
          /\ received' = Append(received, c)
          /\ status' = [status EXCEPT ![c] = "accepted"]
       \/ /\ status[c] = "failed"
          /\ \A i \in DOMAIN queue : queue[i] # c
          /\ UNCHANGED <<received, status>>
    /\ queue' = Append(queue, c)
    /\ UNCHANGED <<runtime, marked, transcripts, events, preflight, startup, op, life,
                   barrier, runs, room, counters>>

Change == changes < MaxChanges /\ changes' = changes + 1
          /\ UNCHANGED <<resumed, cancelled, faults, crashes>>

(* The devices are checked: the last report of each role is ready, or not.   *)
DeviceStatus ==
    /\ phase \in {"PROXY_MEETING", "HANDOFF"} /\ Change
    /\ preflight' = ~preflight
    /\ UNCHANGED <<phase, status, received, runtime, marked, transcripts, events, memory, room>>

-----------------------------------------------------------------------------
(* What the operations write.                                                *)
Nonterminal(k) == runtime[k].state \notin {"none", "STOPPED", "ERROR"}

(* The synchronous meeting is the later of the two.                          *)
active_runtime == IF Nonterminal("sync") THEN "sync"
                  ELSE IF Nonterminal("proxy") THEN "proxy" ELSE "none"

SetState(k, s, ends) ==
    runtime' = [runtime EXCEPT ![k] = [state |-> s, ended |-> @.ended \/ ends]]
SameState == UNCHANGED <<runtime, events>>

(* _write_runtime_event: the state and the event in one transaction; the id  *)
(* of the event is a function of runtime, version and type.                  *)
write_runtime_event(k, s, ends, type) ==
    SetState(k, s, ends) /\ events' = events \cup {type}

(* Mutant: an event that does not say which meeting is ready.                *)
Ready_Unnamed(k) == "MEDIA_READY"

Ready(k) == IF k = "proxy" THEN "MEDIA_READY proxy" ELSE "MEDIA_READY sync"
Ended(k) == IF k = "proxy" THEN "MEETING_ENDED proxy" ELSE "MEETING_ENDED sync"

get_or_create_runtime(k) ==
    IF runtime[k].state = "none" THEN SetState(k, "PREPARING", FALSE) ELSE UNCHANGED runtime

(* Nothing asks whether the meeting of the row has ended meanwhile.          *)
Resumes(k) ==
    resumed' = (resumed \/ runtime[k].state \notin {"none", "PREPARING"}
                \/ status["STOP"] = "completed")

(* setdefault: a pipeline that is open stays the one of its runtime.         *)
start_session(k) == life' = IF life = "none" THEN k ELSE life

GoesTo(at) == op' = Op(op.cmd, at) /\ UNCHANGED <<status, events>>
Completes == op' = NoOp /\ status' = [status EXCEPT ![op.cmd] = "completed"]
(* execute marks the command; dispatch_with_error_event reports it, but a     *)
(* command that reconcile_pending replays fails without an event.            *)
Fails ==
    /\ op' = NoOp
    /\ status' = [status EXCEPT ![op.cmd] = "failed"]
    /\ events' = IF mode = "serving" THEN events \cup {"MEDIA_ERROR"} ELSE events

(* The command that is next: the head of the queue, or, after a start, the    *)
(* selected one that came first.                                              *)
Takes(c) ==
    \/ /\ mode = "serving" /\ queue # <<>> /\ c = Head(queue)
       /\ queue' = Tail(queue) /\ UNCHANGED replay
    \/ /\ mode = "replaying" /\ c \in replay
       /\ \E i \in DOMAIN received :
             received[i] = c /\ \A j \in 1 .. i - 1 : received[j] \notin replay
       /\ replay' = replay \ {c} /\ UNCHANGED queue

(* execute: a command takes the lock and is claimed.                          *)
StartOp ==
    /\ op = NoOp
    /\ \E c \in Commands :
          /\ Takes(c)
          /\ IF status[c] \in {"accepted", "failed"}
             THEN status' = [status EXCEPT ![c] = "processing"] /\ op' = Op(c, "begin")
             ELSE UNCHANGED <<status, op>>
    /\ UNCHANGED <<phase, received, runtime, marked, transcripts, events, preflight, mode, starting,
                   life, barrier, runs, room, counters>>

At(cmds, at) == op.cmd \in cmds /\ op.at = at
MeetingOf(c) == IF c \in {"START_PROXY", "END_PROXY"} THEN "proxy" ELSE "sync"

-----------------------------------------------------------------------------
(* start_proxy.                                                              *)
StartProxy ==
    /\ At({"START_PROXY"}, "begin")
    /\ IF runtime["proxy"].state = "ACTIVE"
       THEN /\ write_runtime_event("proxy", "ACTIVE", FALSE, Ready("proxy"))
            /\ Completes /\ UNCHANGED <<life, resumed>>
       ELSE /\ get_or_create_runtime("proxy") /\ Resumes("proxy")
            /\ start_session("proxy")
            /\ GoesTo("recorder")
    /\ UNCHANGED <<phase, received, marked, transcripts, preflight, queue, startup, barrier,
                   runs, room, cancelled, changes, faults, crashes>>

(* ensure_room and connect_recorder, of both meetings.                       *)
ConnectRecorder ==
    /\ At({"START_PROXY", "START_SYNC"}, "recorder")
    /\ \/ /\ recorder_in' = TRUE
          /\ IF op.cmd = "START_PROXY" THEN GoesTo("connect") /\ UNCHANGED runs
             ELSE /\ GoesTo("policy")
                  /\ runs' = [runs EXCEPT !["op"] = Run("list", "sync", {}, {}, "no runtime")]
          /\ UNCHANGED counters
       \/ Fault /\ Fails /\ UNCHANGED <<recorder_in, runs>>
    /\ UNCHANGED <<phase, received, runtime, marked, transcripts, preflight, queue, startup,
                   life, barrier, present, may_speak, proxy_in>>

ConnectProxy ==
    /\ At({"START_PROXY"}, "connect")
    /\ \/ /\ proxy_in' = TRUE
          /\ write_runtime_event("proxy", "ACTIVE", FALSE, Ready("proxy"))
          /\ Completes /\ UNCHANGED counters
       \/ Fault /\ Fails /\ UNCHANGED <<runtime, proxy_in>>
    /\ UNCHANGED <<phase, received, marked, transcripts, preflight, queue, startup, life,
                   barrier, runs, present, may_speak, recorder_in>>

-----------------------------------------------------------------------------
(* The pipeline closes the meeting it is open for: the transcript is written,*)
(* and for the proxy meeting the summary, which may fail after it.           *)
Finalized == transcripts' = transcripts \cup ({life} \ {"none"}) /\ life' = "none"
FinalizeFails == life # "none" /\ Fault /\ life' = "none"
                 /\ transcripts' \in {transcripts, transcripts \cup {life}}

(* disconnect, and disconnect_proxy.                                         *)
Disconnect == recorder_in' = FALSE /\ proxy_in' = FALSE /\ UNCHANGED <<present, may_speak>>
DisconnectProxy == proxy_in' = FALSE /\ UNCHANGED <<present, may_speak, recorder_in>>

(* start_sync: a proxy meeting that has not ended is ended first; what it     *)
(* knows of its state is what the list said.                                 *)
StartSync ==
    /\ At({"START_SYNC"}, "begin")
    /\ GoesTo(IF runtime["proxy"].state = "none" \/ runtime["proxy"].ended THEN "create"
              ELSE IF runtime["proxy"].state = "HANDING_OFF" THEN "retire" ELSE "previous")
    /\ UNCHANGED <<phase, received, runtime, marked, transcripts, preflight, queue, startup,
                   life, barrier, runs, room, counters>>

FinalizePrevious ==
    /\ At({"START_SYNC"}, "previous")
    /\ \/ Finalized /\ GoesTo("retire") /\ UNCHANGED <<runtime, room, counters>>
       \/ FinalizeFails /\ SetState("proxy", "ERROR", TRUE) /\ Disconnect /\ Fails
    /\ UNCHANGED <<phase, received, marked, preflight, queue, startup, barrier, runs>>

(* Mutant: the meeting is closed without its event.                          *)
RetirePrevious_Silent ==
    /\ At({"START_SYNC"}, "retire")
    /\ DisconnectProxy
    /\ SetState("proxy", "STOPPED", TRUE)
    /\ GoesTo("create")
    /\ UNCHANGED <<phase, received, marked, transcripts, preflight, queue, startup,
                   life, barrier, runs, counters>>

RetirePrevious ==
    /\ At({"START_SYNC"}, "retire")
    /\ DisconnectProxy
    /\ write_runtime_event("proxy", "STOPPED", TRUE, Ended("proxy"))
    /\ op' = Op(op.cmd, "create")
    /\ UNCHANGED <<phase, status, received, marked, transcripts, preflight, queue, startup,
                   life, barrier, runs, counters>>

CreateSync ==
    /\ At({"START_SYNC"}, "create")
    /\ barrier' = "none"
    /\ IF runtime["sync"].state = "ACTIVE"
       THEN /\ write_runtime_event("sync", "ACTIVE", FALSE, Ready("sync"))
            /\ Completes /\ UNCHANGED <<life, resumed>>
       ELSE /\ get_or_create_runtime("sync") /\ Resumes("sync")
            /\ start_session("sync")
            /\ GoesTo("recorder")
    /\ UNCHANGED <<phase, received, marked, transcripts, preflight, queue, startup, runs, room,
                   cancelled, changes, faults, crashes>>

-----------------------------------------------------------------------------
(* end_current.                                                              *)
EndCurrent ==
    /\ At({"END_PROXY", "END_SYNC"}, "begin")
    /\ LET k == active_runtime
       IN  \/ /\ k = "none" \/ (k # "none" /\ runtime[k].ended)
              /\ Completes /\ SameState
           \/ /\ k = "proxy" /\ ~runtime[k].ended /\ runtime[k].state = "HANDING_OFF"
              /\ IF op.cmd = "END_PROXY" THEN Completes /\ SameState
                 ELSE Fails /\ UNCHANGED runtime
           \/ /\ k # "none" /\ ~runtime[k].ended
              /\ ~(k = "proxy" /\ runtime[k].state = "HANDING_OFF")
              /\ SetState(k, "ENDING", FALSE) /\ GoesTo("finalize")
    /\ UNCHANGED <<phase, received, marked, transcripts, preflight, queue, startup, life,
                   barrier, runs, room, counters>>

(* The runtime end_current has read is the one it set ENDING.                *)
Ending == IF runtime["sync"].state = "ENDING" THEN "sync" ELSE "proxy"

(* Mutant: the error of the pipeline is logged and the meeting goes on to end. *)
FinalizeMeeting_GoesOn ==
    /\ At({"END_PROXY", "END_SYNC"}, "finalize")
    /\ \/ Finalized /\ UNCHANGED counters
       \/ FinalizeFails
    /\ GoesTo("leave")
    /\ UNCHANGED <<phase, received, marked, preflight, queue, startup, runs, runtime,
                   barrier, room>>

FinalizeMeeting ==
    /\ At({"END_PROXY", "END_SYNC"}, "finalize")
    /\ \/ /\ Finalized /\ GoesTo("leave")
          /\ UNCHANGED <<runtime, barrier, room, counters>>
       \/ /\ FinalizeFails
          /\ SetState(Ending, "ERROR", TRUE) /\ barrier' = "none"
          /\ Disconnect /\ Fails
    /\ UNCHANGED <<phase, received, marked, preflight, queue, startup, runs>>

(* Mutant: X stays in the room when its meeting has ended.                   *)
LeaveMeeting_XStays ==
    /\ At({"END_PROXY", "END_SYNC"}, "leave")
    /\ \/ /\ Ending = "proxy" /\ UNCHANGED room
          /\ write_runtime_event("proxy", "HANDING_OFF", FALSE, Ended("proxy"))
       \/ /\ Ending = "sync" /\ Disconnect
          /\ write_runtime_event("sync", "STOPPED", TRUE, Ended("sync"))
    /\ Completes
    /\ UNCHANGED <<phase, received, marked, transcripts, preflight, queue, startup, life,
                   barrier, runs, counters>>

LeaveMeeting ==
    /\ At({"END_PROXY", "END_SYNC"}, "leave")
    /\ \/ /\ Ending = "proxy" /\ DisconnectProxy
          /\ write_runtime_event("proxy", "HANDING_OFF", FALSE, Ended("proxy"))
       \/ /\ Ending = "sync" /\ Disconnect
          /\ write_runtime_event("sync", "STOPPED", TRUE, Ended("sync"))
    /\ Completes
    /\ UNCHANGED <<phase, received, marked, transcripts, preflight, queue, startup, life,
                   barrier, runs, counters>>

-----------------------------------------------------------------------------
(* begin_handoff.                                                            *)
mark_runtime_handoff == SetState("proxy", "HANDING_OFF", FALSE) /\ marked' = TRUE

(* Mutant: the pipeline of the proxy meeting is not cancelled.                *)
BeginHandoff_NoCancel ==
    /\ At({"BEGIN_HANDOFF"}, "begin")
    /\ IF ~preflight THEN Fails /\ UNCHANGED <<runtime, marked>>
       ELSE IF active_runtime # "proxy" THEN GoesTo("room") /\ UNCHANGED <<runtime, marked>>
       ELSE IF runtime["proxy"].state = "HANDING_OFF"
            THEN mark_runtime_handoff /\ GoesTo("room")
       ELSE GoesTo("leave") /\ UNCHANGED <<runtime, marked>>
    /\ UNCHANGED <<phase, received, transcripts, preflight, queue, startup, life, barrier,
                   runs, room, counters>>

BeginHandoff ==
    /\ At({"BEGIN_HANDOFF"}, "begin")
    /\ IF ~preflight THEN Fails /\ UNCHANGED <<runtime, marked, life, cancelled>>
       ELSE IF active_runtime # "proxy"
            THEN GoesTo("room") /\ UNCHANGED <<runtime, marked, life, cancelled>>
       ELSE IF runtime["proxy"].state = "HANDING_OFF"
            THEN mark_runtime_handoff /\ GoesTo("room") /\ UNCHANGED <<life, cancelled>>
       ELSE /\ life' = "none" /\ cancelled' = TRUE
            /\ GoesTo("leave") /\ UNCHANGED <<runtime, marked>>
    /\ UNCHANGED <<phase, received, transcripts, preflight, queue, startup, barrier,
                   runs, room, resumed, changes, faults, crashes>>

StopProxy ==
    /\ At({"BEGIN_HANDOFF"}, "leave")
    /\ DisconnectProxy
    /\ mark_runtime_handoff
    /\ GoesTo("room")
    /\ UNCHANGED <<phase, received, transcripts, preflight, queue, startup, life,
                   barrier, runs, counters>>

(* A refresh applies the policy of the handoff for the barrier that is set.  *)
Refresh(x) == runs' = [runs EXCEPT ![x] = Run("list", "handoff", {}, {}, barrier')]

SetBarrier ==
    /\ At({"BEGIN_HANDOFF"}, "room")
    /\ \/ /\ barrier' = IF barrier # "none" THEN barrier
                        ELSE IF active_runtime = "proxy" THEN "proxy" ELSE "no runtime"
          /\ Refresh("op") /\ GoesTo("policy") /\ UNCHANGED counters
       \/ Fault /\ Fails /\ UNCHANGED <<barrier, runs>>
    /\ UNCHANGED <<phase, received, runtime, marked, transcripts, preflight, queue, startup,
                   life, room>>

-----------------------------------------------------------------------------
(* stop_session: whatever fails, the rows are closed.                        *)
StopSession ==
    /\ At({"STOP"}, "begin")
    /\ life' = "none"
    /\ GoesTo("leave")
    /\ UNCHANGED <<phase, received, runtime, marked, transcripts, preflight, queue, startup,
                   barrier, runs, room, counters>>

finish_session_runtimes ==
    runtime' = [k \in Kinds |-> IF runtime[k].state = "none" \/ runtime[k].ended THEN runtime[k]
                                ELSE [state |-> "STOPPED", ended |-> TRUE]]

(* Mutant: the recorder stays in the room.                                   *)
StopRooms_KeepsRecorder ==
    /\ At({"STOP"}, "leave")
    /\ barrier' = "none" /\ finish_session_runtimes /\ DisconnectProxy
    /\ \/ Completes /\ UNCHANGED <<events, counters>>
       \/ Fault /\ Fails
    /\ UNCHANGED <<phase, received, marked, transcripts, preflight, queue, startup, life, runs>>

StopRooms ==
    /\ At({"STOP"}, "leave")
    /\ barrier' = "none"
    /\ finish_session_runtimes
    /\ Disconnect
    /\ \/ Completes /\ UNCHANGED <<events, counters>>
       \/ Fault /\ Fails
    /\ UNCHANGED <<phase, received, marked, transcripts, preflight, queue, startup, life, runs>>

-----------------------------------------------------------------------------
(* apply_speaking_policy: X is put out and the people are listed, then the    *)
(* permission of each one is set.  Somebody who has left by then is an error. *)
Under(x, at) == runs[x].at = at

ListRoom(x) ==
    /\ Under(x, "list")
    /\ proxy_in' = FALSE
    /\ runs' = [runs EXCEPT ![x].at = "update", ![x].todo = present, ![x].heard = {}]
    /\ UNCHANGED <<phase, rows, queue, startup, op, life, barrier, present, may_speak,
                   recorder_in, counters>>

UpdatePermission(x) ==
    /\ Under(x, "update")
    /\ \E h \in runs[x].todo \cap present :
          /\ runs' = [runs EXCEPT ![x].todo = @ \ {h}, ![x].heard = @ \cup {h}]
          /\ may_speak' = IF runs[x].policy = "sync" THEN may_speak \cup {h}
                          ELSE may_speak \ {h}
    /\ UNCHANGED <<phase, rows, queue, startup, op, life, barrier, present, recorder_in,
                   proxy_in, counters>>

(* What the caller does with the error: a command fails, a task is lost.      *)
UpdateFails(x) ==
    /\ Under(x, "update")
    /\ runs[x].todo \ present # {}
    /\ runs' = [runs EXCEPT ![x] = Idle]
    /\ x = "op" => op.cmd # "reconcile"
    /\ IF x = "op" THEN Fails ELSE UNCHANGED <<op, status, events>>
    /\ UNCHANGED <<phase, received, runtime, marked, transcripts, preflight, queue, startup, life,
                   barrier, room, counters>>

(* reconcile goes on to the next runtime.                                     *)
Rebuilt(k) == op' = Op("reconcile", "begin") /\ starting' = starting \ {k}

Applied(x, policy) ==
    Under(x, "update") /\ runs[x].todo = {} /\ runs[x].policy = policy

(* _refresh_handoff after the policy: the barrier observes the snapshot.      *)
Observe(x) ==
    /\ Applied(x, "handoff")
    /\ runs' = [runs EXCEPT ![x] = Idle]
    /\ IF runs[x].heard # Humans THEN UNCHANGED <<runtime, events, barrier>>
       ELSE /\ barrier' = "none"
            /\ IF runs[x].runtime = "proxy"
               THEN write_runtime_event("proxy", "STOPPED", TRUE, "HANDOFF_COMPLETE")
               ELSE UNCHANGED <<runtime, events>>
    /\ IF x # "op" THEN UNCHANGED <<op, status, starting>>
       ELSE IF op.cmd = "reconcile"
            THEN Rebuilt("proxy") /\ UNCHANGED status
       ELSE Completes /\ UNCHANGED starting
    /\ UNCHANGED <<phase, received, marked, transcripts, preflight, queue, mode, replay, life, room,
                   counters>>

(* start_sync and reconcile after the policy of the synchronous meeting.      *)
SyncApplied ==
    /\ Applied("op", "sync")
    /\ runs' = [runs EXCEPT !["op"] = Idle]
    /\ IF op.cmd = "START_SYNC" \/ runtime["sync"].state \in {"PREPARING", "ACTIVE"}
       THEN write_runtime_event("sync", "ACTIVE", FALSE, Ready("sync")) ELSE SameState
    /\ IF op.cmd = "START_SYNC" THEN Completes /\ UNCHANGED starting
       ELSE Rebuilt("sync") /\ UNCHANGED status
    /\ UNCHANGED <<phase, received, marked, transcripts, preflight, queue, mode, replay, life,
                   barrier, room, counters>>

-----------------------------------------------------------------------------
(* Mutant: the connection is recorded and the barrier is not refreshed.      *)
Report_OnlyRecords == UNCHANGED <<runs, barrier>>

(* participant_state_changed: the recorder sees it, and if a barrier is set   *)
(* the task refreshes it.                                                     *)
Report ==
    IF recorder_in /\ active_runtime # "none" /\ barrier # "none"
    THEN \E x \in Tasks : runs[x] = Idle /\ UNCHANGED barrier /\ Refresh(x)
    ELSE UNCHANGED <<runs, barrier>>

(* The token A hands out says whether its holder may publish.                 *)
Joins(h) ==
    /\ Change
    /\ h \notin present /\ phase # "TERMINATED"
    /\ h = "principal" => phase # "PROXY_MEETING"
    /\ present' = present \cup {h}
    /\ may_speak' = IF phase = "HANDOFF" THEN may_speak \ {h} ELSE may_speak \cup {h}
    /\ Report
    /\ UNCHANGED <<phase, rows, queue, startup, op, life, recorder_in, proxy_in>>

Leaves(h) ==
    /\ Change
    /\ h \in present
    /\ present' = present \ {h} /\ may_speak' = may_speak \ {h}
    /\ Report
    /\ UNCHANGED <<phase, rows, queue, startup, op, life, recorder_in, proxy_in>>

-----------------------------------------------------------------------------
(* B dies and starts again: what is in memory and in the room is gone, the    *)
(* rows stay.  nonterminal_runtimes lists what reconcile rebuilds.            *)
Restart ==
    /\ mode' = "reconciling" /\ op' = Op("reconcile", "begin")
    /\ starting' = {k \in Kinds : Nonterminal(k)}
    /\ queue' = <<>> /\ replay' = {} /\ life' = "none" /\ barrier' = "none"
    /\ runs' = [x \in Runners |-> Idle]
    /\ Disconnect
    /\ UNCHANGED <<phase, rows, resumed, cancelled, changes>>

Crash ==
    /\ crashes < MaxCrashes /\ faults < MaxFaults
    /\ crashes' = crashes + 1 /\ faults' = faults + 1
    /\ Restart

(* A policy that fails while reconcile waits for it ends the start.           *)
StartFails ==
    /\ At({"reconcile"}, "policy") /\ Under("op", "update")
    /\ runs["op"].todo \ present # {}
    /\ Restart /\ UNCHANGED <<faults, crashes>>

ReconcileProxy ==
    /\ At({"reconcile"}, "begin") /\ "proxy" \in starting
    /\ LET state == runtime["proxy"].state
       IN  \/ /\ "sync" \in starting
              /\ SetState("proxy", "STOPPED", TRUE) /\ Rebuilt("proxy")
              /\ UNCHANGED <<events, life, barrier, runs, recorder_in, proxy_in>>
           \/ /\ "sync" \notin starting /\ recorder_in' = TRUE
              /\ state \in {"PREPARING", "ACTIVE"} /\ start_session("proxy")
              /\ proxy_in' = TRUE
              /\ write_runtime_event("proxy", "ACTIVE", FALSE, Ready("proxy"))
              /\ Rebuilt("proxy") /\ UNCHANGED <<runs, barrier>>
           \/ /\ "sync" \notin starting /\ recorder_in' = TRUE
              /\ state \notin {"PREPARING", "ACTIVE"}
              /\ IF marked
                 THEN /\ barrier' = "proxy" /\ Refresh("op")
                      /\ op' = Op("reconcile", "policy") /\ UNCHANGED starting
                 ELSE Rebuilt("proxy") /\ UNCHANGED <<runs, barrier>>
              /\ UNCHANGED <<runtime, events, life, proxy_in>>
    /\ UNCHANGED <<phase, status, received, marked, transcripts, preflight, queue, mode, replay,
                   present, may_speak, counters>>

ReconcileSync ==
    /\ At({"reconcile"}, "begin") /\ starting = {"sync"}
    /\ start_session("sync")
    /\ recorder_in' = TRUE
    /\ runs' = [runs EXCEPT !["op"] = Run("list", "sync", {}, {}, "no runtime")]
    /\ op' = Op("reconcile", "policy")
    /\ UNCHANGED <<phase, rows, queue, startup, barrier, present, may_speak, proxy_in,
                   counters>>

(* Mutant: the commands are selected before the interrupted ones are requeued. *)
Pending_BeforeRequeue(c) == status[c] \in {"accepted", "failed"}

(* requeue_interrupted_commands and reconcile_pending: what was interrupted,  *)
(* and what has failed, runs again in the order of its arrival.               *)
Pending(c) == status[c] \in {"accepted", "processing", "failed"}
ReconcilePending ==
    /\ At({"reconcile"}, "begin") /\ starting = {}
    /\ op' = NoOp /\ mode' = "replaying"
    /\ replay' = {c \in Commands : Pending(c)}
    /\ status' = [c \in Commands |-> IF status[c] = "processing" THEN "accepted" ELSE status[c]]
    /\ UNCHANGED <<phase, received, runtime, marked, transcripts, events, preflight, queue,
                   starting, life, barrier, runs, room, counters>>

Serve ==
    /\ mode = "replaying" /\ replay = {} /\ op = NoOp
    /\ mode' = "serving"
    /\ UNCHANGED <<phase, rows, queue, replay, starting, op, life, barrier, runs, room, counters>>

-----------------------------------------------------------------------------
Proxy == StartProxy \/ ConnectRecorder \/ ConnectProxy
Sync == StartSync \/ FinalizePrevious \/ RetirePrevious \/ CreateSync \/ SyncApplied
End == EndCurrent \/ FinalizeMeeting \/ LeaveMeeting
Handoff == BeginHandoff \/ StopProxy \/ SetBarrier
Stop == StopSession \/ StopRooms
Policy(x) == ListRoom(x) \/ UpdatePermission(x) \/ UpdateFails(x) \/ Observe(x)
Reconcile == ReconcileProxy \/ ReconcileSync \/ ReconcilePending \/ StartFails \/ Serve
Service == StartOp \/ Proxy \/ Sync \/ End \/ Handoff \/ Stop \/ Reconcile

Next ==
    \/ Advance \/ DeviceStatus \/ \E c \in Commands : Issue(c)
    \/ Service \/ \E x \in Runners : Policy(x)
    \/ \E h \in Humans : Joins(h) \/ Leaves(h)
    \/ Crash

Spec == Init /\ [][Next]_vars
FairSpec == Spec /\ WF_vars(Service) /\ \A x \in Runners : WF_vars(Policy(x))

-----------------------------------------------------------------------------
(* X is not in the room once the synchronous meeting is reported ready.       *)
SyncWithoutProxy == "MEDIA_READY sync" \in events => ~proxy_in

(* X is in the room only while the row of its meeting says it is under way,   *)
(* and never beside a synchronous meeting: as long as no start that had      *)
(* failed was run again, by a repeated command or by reconcile_pending.      *)
ProxyOnlyInItsMeeting ==
    proxy_in /\ ~resumed =>
        runtime["proxy"].state \in {"ACTIVE", "ENDING"} /\ "MEDIA_READY sync" \notin events

(* When B reports the handoff complete X has left, no pipeline of the proxy   *)
(* meeting is open, and nobody may speak: with the same exception, and in the *)
(* phase in which A does not refuse the report.                              *)
HandoffIsQuiet ==
    [][("HANDOFF_COMPLETE" \in events' /\ "HANDOFF_COMPLETE" \notin events
            /\ phase = "HANDOFF" /\ ~resumed)
        => ~proxy_in' /\ life' # "proxy" /\ may_speak' = {}]_vars

CutOff(k) == k = "proxy" /\ cancelled

(* A meeting is reported ended when its transcript is written: not so if B    *)
(* has died while it was ENDING, for the pipeline is not opened again.       *)
EndedIsWritten ==
    \A k \in Kinds : Ended(k) \in events => k \in transcripts \/ CutOff(k)
EndedIsWrittenUnlessRestarted == crashes = 0 /\ ~resumed => EndedIsWritten

(* A meeting that has stopped was reported ended, unless A has stopped the    *)
(* session or forced the handoff of a meeting that had not ended: without    *)
(* the report A could not leave the phase.  The exception of a failed start  *)
(* that was run again holds here too.                                        *)
StoppedIsReported ==
    phase # "TERMINATED" /\ ~resumed =>
        \A k \in Kinds : runtime[k].state = "STOPPED" => Ended(k) \in events \/ CutOff(k)

(* Once a session is stopped B is out of the room and nothing is open, over   *)
(* restarts of B too, unless one of them runs a failed start again.           *)
StoppedIsOut ==
    status["STOP"] = "completed" /\ ~resumed => ~proxy_in /\ ~recorder_in /\ life = "none"

(* No command B has taken waits for ever, and none holds the lock for ever.   *)
CommandsEnd ==
    <>[](\A c \in Commands : status[c] # "accepted") /\ []<>(op = NoOp)

(* When everybody is there and stays, and the recorder sees the room, a       *)
(* handoff that B has begun completes.                                       *)
Waiting ==
    /\ phase = "HANDOFF" /\ status["BEGIN_HANDOFF"] = "completed"
    /\ present = Humans /\ recorder_in
HandoffCompletes == <>[]Waiting => <>("HANDOFF_COMPLETE" \in events)

(* Neither the work of B nor a handoff of people who wait for it stops.      *)
RuntimeGoesOn == CommandsEnd /\ HandoffCompletes

(* B is where the rows of its meetings say: X in the room only for a proxy   *)
(* meeting under way, and nobody and nothing there once the session stopped. *)
RoomFollowsMeetings == TypeOK /\ ProxyOnlyInItsMeeting /\ StoppedIsOut

(* A meeting that is over has its transcript, and A was told of the end.     *)
EndIsComplete == EndedIsWrittenUnlessRestarted /\ StoppedIsReported
=============================================================================
