---------------------------- MODULE SessionTimer ----------------------------
(***************************************************************************)
(* A session of the legacy platform, its countdown and its annotation        *)
(* checkpoints: the routes that start, pause, resume and reset it, the       *)
(* thread of its TimerService, and the popups that pause it until every      *)
(* participant has answered.  Nothing holds the session or the timer while   *)
(* a route or the thread is between two of its steps.                        *)
(***************************************************************************)
EXTENDS Integers, FiniteSets, Sequences, FiniteSetsExt

CONSTANTS
    Humans,         \* human participants
    Duration,       \* duration of the session, in ticks
    Windows,        \* ANNOTATION_CHECKPOINT_RANGES: <<lo, hi>> in percent
    Requests,       \* requests that may be in flight
    Slots,          \* countdown threads that may be alive
    MaxClock,       \* bound: ticks
    MaxControls,    \* bound: requests of the researcher
    MaxTimerRestarts, \* bound: restarts of the server
    MayCross        \* bound: two parties may be between their steps at once

ASSUME TimerAssumption ==
    /\ IsFiniteSet(Humans) /\ IsFiniteSet(Slots) /\ IsFiniteSet(Requests)
    /\ Slots \cap Requests = {} /\ "none" \notin Slots
    /\ Duration \in Nat \ {0} /\ {MaxClock, MaxControls, MaxTimerRestarts} \subseteq Nat
    /\ Windows \in Seq(Nat \X Nat)

VARIABLES
    clock,          \* time
    row,            \* the session: [status, left, annotating, checkpoint, submitted, triggered]
    timer,          \* TimerService: [made, running, paused, pausedAt, startedAt, lost, left, thread]
    countdowns,     \* slot -> where the countdown thread in it is
    requests,       \* the requests
    ran,            \* history: ticks the clock of this timer has run
    asked,          \* history: how often each checkpoint was asked since the session was made
    answered,       \* history: who answered each checkpoint
    expiredEarly,   \* history: the timer expired before its duration had run
    torn,           \* history: the thread looked at a timer that was being resumed
    crossed,        \* history: two parties were between their steps at once
    controls,       \* requests of the researcher so far
    serverRestarts

timerVars == <<clock, row, timer, countdowns, requests, ran, asked, answered,
               expiredEarly, torn, crossed, controls, serverRestarts>>

Never == -1
NoSlot == "none"
NoRequest == [at |-> "free"]
Dead == [at |-> "dead", ask |-> 0]
NoTimer == [made |-> FALSE, running |-> FALSE, paused |-> FALSE, pausedAt |-> Never,
            startedAt |-> Never, lost |-> 0, left |-> Duration, thread |-> NoSlot]
NewTimer == [NoTimer EXCEPT !.made = TRUE]
All == 1..Len(Windows)

TimerInit ==
    /\ clock = 0
    /\ row = [status |-> "waiting", left |-> Duration, annotating |-> FALSE,
              checkpoint |-> 0, submitted |-> {}, triggered |-> {}]
    /\ timer = NoTimer
    /\ countdowns = [s \in Slots |-> Dead]
    /\ requests = [r \in Requests |-> NoRequest]
    /\ ran = 0 /\ asked = [c \in All |-> 0] /\ answered = [c \in All |-> {}]
    /\ expiredEarly = FALSE /\ torn = FALSE /\ crossed = FALSE /\ controls = 0 /\ serverRestarts = 0

\* Who is between two of its steps.
Parties == {r \in Requests : requests[r] # NoRequest}
            \cup {s \in Slots : countdowns[s].at \in {"ask", "expire", "exit"}}

Enter(r, step) ==
    /\ requests[r] = NoRequest
    /\ requests' = [requests EXCEPT ![r] = step]
GoTo(r, at) == requests' = [requests EXCEPT ![r].at = at]
Done(r) == requests' = [requests EXCEPT ![r] = NoRequest]

-----------------------------------------------------------------------------
(* TimerService                                                              *)
Alive(t) == t.thread # NoSlot /\ countdowns[t.thread] # Dead

\* A countdown thread, unless the one of this timer is alive.
EnsureThread(t) ==
    IF Alive(t) THEN timer' = t /\ UNCHANGED countdowns
    ELSE \E s \in Slots :
            /\ countdowns[s] = Dead
            /\ timer' = [t EXCEPT !.thread = s]
            /\ countdowns' = [countdowns EXCEPT ![s].at = "top"]

PauseTime(t) == IF t.pausedAt = Never THEN 0 ELSE clock - t.pausedAt

\* start
StartClock(t) ==
    IF t.running THEN timer' = t /\ UNCHANGED countdowns
    ELSE EnsureThread([t EXCEPT
            !.lost = @ + IF t.paused THEN PauseTime(t) ELSE 0,
            !.pausedAt = IF t.paused THEN Never ELSE @,
            !.startedAt = IF @ = Never THEN clock ELSE @,
            !.running = TRUE, !.paused = FALSE])

\* pause
PausedTimer(t) ==
    IF t.running /\ ~t.paused THEN [t EXCEPT !.paused = TRUE, !.pausedAt = clock] ELSE t

\* reset, which leaves the thread to find out.
ResetTimer(t) ==
    [t EXCEPT !.running = FALSE, !.paused = FALSE, !.pausedAt = Never, !.startedAt = Never,
              !.lost = 0, !.left = Duration]

\* resume, which clears is_paused before it accounts for the pause; the request
\* goes on at "resumed".
ResumeClock(r) ==
    IF timer.made /\ timer.paused
    THEN /\ timer' = [timer EXCEPT !.paused = FALSE, !.running = TRUE]
         /\ GoTo(r, "resumed") /\ UNCHANGED countdowns
    ELSE /\ IF timer.made THEN StartClock(timer) ELSE UNCHANGED <<timer, countdowns>>
         /\ Done(r)

FinishResume(r) ==
    /\ requests[r].at = "resumed"
    /\ EnsureThread([timer EXCEPT !.lost = @ + PauseTime(timer), !.pausedAt = Never])
    /\ Done(r)
    /\ UNCHANGED <<clock, row, ran, asked, answered, expiredEarly, torn, controls, serverRestarts>>

Tick ==
    /\ clock < MaxClock
    /\ clock' = clock + 1
    /\ ran' = IF timer.running /\ ~timer.paused THEN ran + 1 ELSE ran
    /\ UNCHANGED <<row, timer, countdowns, requests, asked, answered, expiredEarly, torn, controls, serverRestarts>>

-----------------------------------------------------------------------------
(* Checkpoints, from what the session was last told of the time              *)
Progress(w) == Duration - w.left

\* get_current_checkpoint
CurrentCheckpoint(w) ==
    {c \in All : /\ Windows[c][1] * Duration <= 100 * Progress(w)
                /\ 100 * Progress(w) <= Windows[c][2] * Duration}

(* Mutant: checkpoints that were asked are not remembered. *)
Due_Again(w) == IF w.status = "running" /\ ~w.annotating THEN CurrentCheckpoint(w) ELSE {}

\* should_trigger_annotation
Due(w) == IF w.status = "running" /\ ~w.annotating THEN CurrentCheckpoint(w) \ w.triggered ELSE {}

\* check_and_force_trigger_annotation: only late in the window.
Late(w, c) ==
    2000 * Progress(w) >= Duration * (20 * Windows[c][2] - (Windows[c][2] - Windows[c][1]))

(* Mutant: the clock goes on during the popup. *)
Trigger_Unpaused(c) ==
    /\ timer' = timer
    /\ row' = [row EXCEPT !.annotating = TRUE, !.checkpoint = c, !.submitted = {},
                          !.status = "paused", !.triggered = @ \cup {c}]
    /\ asked' = [asked EXCEPT ![c] = @ + 1]

\* trigger_annotation
Trigger(c) ==
    /\ timer' = PausedTimer(timer)
    /\ row' = [row EXCEPT !.annotating = TRUE, !.checkpoint = c, !.submitted = {},
                          !.status = "paused", !.triggered = @ \cup {c}]
    /\ asked' = [asked EXCEPT ![c] = @ + 1]

-----------------------------------------------------------------------------
(* Routes                                                                    *)
\* update_session_status
SetStatus(status) == row' = [row EXCEPT !.status = status]

Control(r, op, status) ==
    /\ controls < MaxControls /\ controls' = controls + 1
    /\ Enter(r, [at |-> op])
    /\ SetStatus(status)
    /\ UNCHANGED <<clock, timer, countdowns, ran, asked, answered, expiredEarly, torn, serverRestarts>>

\* start_session; without the popups the clock starts at once.  The status it
\* compares with "paused" is the one it has just set.
FinishStart(r) ==
    LET found == timer.made
        t == IF found THEN timer ELSE NewTimer
    IN  /\ requests[r].at \in {"start", "start_delayed"}
        /\ IF requests[r].at = "start" THEN StartClock(t)
           ELSE timer' = t /\ UNCHANGED countdowns
        /\ row' = [row EXCEPT !.left = IF @ = 0 THEN Duration ELSE @]
        /\ ran' = IF found THEN ran ELSE 0
        /\ Done(r)
        /\ UNCHANGED <<clock, asked, answered, expiredEarly, torn, controls, serverRestarts>>

(* Mutant: the time of the pause is not remembered. *)
FinishPause_Untimed(r) ==
    /\ requests[r].at = "pause"
    /\ timer' = [PausedTimer(timer) EXCEPT !.pausedAt = Never]
    /\ Done(r)
    /\ UNCHANGED <<clock, row, countdowns, ran, asked, answered, expiredEarly, torn, controls, serverRestarts>>

FinishPause(r) ==
    /\ requests[r].at = "pause"
    /\ timer' = PausedTimer(timer)
    /\ Done(r)
    /\ UNCHANGED <<clock, row, countdowns, ran, asked, answered, expiredEarly, torn, controls, serverRestarts>>

\* resume_session; without a timer it makes one.
Resume(r) ==
    /\ requests[r].at = "resume"
    /\ IF timer.made THEN ResumeClock(r) /\ UNCHANGED ran
       ELSE StartClock(NewTimer) /\ ran' = 0 /\ Done(r)
    /\ UNCHANGED <<clock, row, asked, answered, expiredEarly, torn, controls, serverRestarts>>

\* reset_session: nothing of the annotations is reset.
FinishReset(r) ==
    /\ requests[r].at = "reset"
    /\ row' = [row EXCEPT !.left = Duration]
    /\ timer' = IF timer.made THEN ResetTimer(timer) ELSE timer
    /\ ran' = 0
    /\ Done(r)
    /\ UNCHANGED <<clock, countdowns, asked, answered, expiredEarly, torn, controls, serverRestarts>>

\* An action of a participant while a checkpoint is due.
BeginAct(r) ==
    \E c \in Due(row) :
        /\ Enter(r, [at |-> "act", checkpoint |-> c])
        /\ UNCHANGED <<clock, row, timer, countdowns, ran, asked, answered, expiredEarly, torn, controls, serverRestarts>>

FinishAct(r) ==
    /\ requests[r].at = "act"
    /\ Trigger(requests[r].checkpoint)
    /\ Done(r)
    /\ UNCHANGED <<clock, countdowns, ran, answered, expiredEarly, torn, controls, serverRestarts>>

\* submit_annotation: the answer, and then the end of the popup once all have
\* answered, as far as this request has seen.
BeginSubmit(r, p) ==
    LET submitted == row.submitted \cup {p}
    IN  /\ row.annotating
        /\ Enter(r, [at |-> "submit", submitted |-> submitted])
        /\ row' = [row EXCEPT !.submitted = submitted]
        /\ answered' = [answered EXCEPT ![row.checkpoint] = @ \cup {p}]
        /\ UNCHANGED <<clock, timer, countdowns, ran, asked, expiredEarly, torn, controls, serverRestarts>>

(* Mutant: the first answer ends the popup. *)
FinishSubmit_First(r) ==
    /\ requests[r].at = "submit"
    /\ row' = [row EXCEPT !.annotating = FALSE, !.checkpoint = 0, !.submitted = {},
                          !.status = "running"]
    /\ ResumeClock(r)
    /\ UNCHANGED <<clock, ran, asked, answered, expiredEarly, torn, controls, serverRestarts>>

FinishSubmit(r) ==
    /\ requests[r].at = "submit"
    /\ IF Humans \subseteq requests[r].submitted
       THEN /\ row' = [row EXCEPT !.annotating = FALSE, !.checkpoint = 0, !.submitted = {},
                                  !.status = "running"]
            /\ ResumeClock(r)
       ELSE Done(r) /\ UNCHANGED <<row, timer, countdowns>>
    /\ UNCHANGED <<clock, ran, asked, answered, expiredEarly, torn, controls, serverRestarts>>

-----------------------------------------------------------------------------
(* _countdown                                                                *)
Elapsed == (clock - timer.startedAt) - timer.lost

(* Mutant: the time left goes below zero. *)
Look_Unclamped(s) ==
    LET left == IF timer.startedAt = Never THEN timer.left - 1 ELSE Duration - Elapsed
    IN  /\ countdowns[s].at = "top"
        /\ \/ /\ ~timer.running
              /\ countdowns' = [countdowns EXCEPT ![s].at = "exit"]
              /\ UNCHANGED <<timer, torn>>
           \/ /\ timer.running /\ ~timer.paused
              /\ timer' = [timer EXCEPT !.left = left]
              /\ torn' = (torn \/ timer.pausedAt # Never)
              /\ \E at \in {"tell", "check"} : countdowns' = [countdowns EXCEPT ![s].at = at]
        /\ UNCHANGED <<clock, row, requests, ran, asked, answered, expiredEarly, controls, serverRestarts>>

Look(s) ==
    LET left == IF timer.startedAt = Never THEN timer.left - 1 ELSE Duration - Elapsed
    IN  /\ countdowns[s].at = "top"
        /\ \/ /\ ~timer.running
              /\ countdowns' = [countdowns EXCEPT ![s].at = "exit"]
              /\ UNCHANGED <<timer, torn>>
           \/ /\ timer.running /\ ~timer.paused
              /\ timer' = [timer EXCEPT !.left = Max({0, left})]
              /\ torn' = (torn \/ timer.pausedAt # Never)
              /\ \E at \in {"tell", "check"} : countdowns' = [countdowns EXCEPT ![s].at = at]
        /\ UNCHANGED <<clock, row, requests, ran, asked, answered, expiredEarly, controls, serverRestarts>>

\* _broadcast_update
Tell(s) ==
    /\ countdowns[s].at = "tell"
    /\ LET told == [row EXCEPT !.left = timer.left]
           late == {c \in Due(told) : Late(told, c)}
       IN  /\ row' = told
           /\ IF late = {} THEN countdowns' = [countdowns EXCEPT ![s].at = "check"]
              ELSE \E c \in late : countdowns' = [countdowns EXCEPT ![s] = [at |-> "ask", ask |-> c]]
    /\ UNCHANGED <<clock, timer, requests, ran, asked, answered, expiredEarly, torn, controls, serverRestarts>>

Ask(s) ==
    /\ countdowns[s].at = "ask"
    /\ Trigger(countdowns[s].ask)
    /\ countdowns' = [countdowns EXCEPT ![s] = [at |-> "check", ask |-> 0]]
    /\ UNCHANGED <<clock, requests, ran, answered, expiredEarly, torn, controls, serverRestarts>>

Check(s) ==
    /\ countdowns[s].at = "check"
    /\ countdowns' = [countdowns EXCEPT ![s].at = IF timer.left = 0 THEN "expire" ELSE "top"]
    /\ UNCHANGED <<clock, row, timer, requests, ran, asked, answered, expiredEarly, torn, controls, serverRestarts>>

\* _on_timeout
Expire(s) ==
    /\ countdowns[s].at = "expire"
    /\ row' = [row EXCEPT !.status = "paused", !.left = 0]
    /\ timer' = [timer EXCEPT !.running = FALSE]
    /\ countdowns' = [countdowns EXCEPT ![s].at = "exit"]
    /\ expiredEarly' = (expiredEarly \/ ran < Duration)
    /\ UNCHANGED <<clock, requests, ran, asked, answered, torn, controls, serverRestarts>>

Exit(s) ==
    /\ countdowns[s].at = "exit"
    /\ countdowns' = [countdowns EXCEPT ![s] = Dead]
    /\ UNCHANGED <<clock, row, timer, requests, ran, asked, answered, expiredEarly, torn, controls, serverRestarts>>

\* The server restarts: sessions are loaded, timers are not.
RestartTimer ==
    /\ serverRestarts < MaxTimerRestarts
    /\ serverRestarts' = serverRestarts + 1
    /\ timer' = NoTimer /\ ran' = 0
    /\ countdowns' = [s \in Slots |-> Dead]
    /\ requests' = [r \in Requests |-> NoRequest]
    /\ UNCHANGED <<clock, row, asked, answered, expiredEarly, torn, controls>>

TimerStep ==
    \/ Tick
    \/ \E r \in Requests :
        \/ \E op \in {"start", "start_delayed", "resume"} : Control(r, op, "running")
        \/ Control(r, "pause", "paused")
        \/ Control(r, "reset", "waiting")
        \/ FinishStart(r) \/ FinishPause(r) \/ Resume(r) \/ FinishResume(r) \/ FinishReset(r)
        \/ BeginAct(r) \/ FinishAct(r)
        \/ FinishSubmit(r)
        \/ \E p \in Humans : BeginSubmit(r, p)
    \/ \E s \in Slots : Look(s) \/ Tell(s) \/ Ask(s) \/ Check(s) \/ Expire(s) \/ Exit(s)
    \/ RestartTimer

TimerNext ==
    /\ TimerStep
    /\ crossed' = (crossed \/ Cardinality(Parties') > 1)
    /\ crossed' => MayCross

TimerSpec == TimerInit /\ [][TimerNext]_timerVars

-----------------------------------------------------------------------------
Counting == timer.running /\ ~timer.paused
Quiet == ~crossed /\ \A r \in Requests : requests[r] = NoRequest

\* Type correctness.
TimerTypeOK ==
    /\ row.status \in {"waiting", "running", "paused"}
    /\ row.left \in 0..Duration /\ timer.left \in 0..Duration
    /\ row.submitted \subseteq Humans /\ row.triggered \subseteq All
    /\ row.annotating <=> row.checkpoint # 0
    /\ timer.lost \in 0..clock

\* Requests one after the other: the clock runs only while the session does, and
\* then there is a thread that will see it expire.
ClockFollowsSession ==
    Quiet /\ Counting => /\ row.status = "running" \/ \E s \in Slots : countdowns[s].at = "expire"
                        /\ Alive(timer)

\* However often it was paused and resumed, a session does not end before its
\* clock has run for its duration, unless the thread looked at the timer between
\* the two writes of resume.
NoEarlyTimeout == ~crossed /\ ~torn => ~expiredEarly

\* A checkpoint is asked once, by an action or by the clock.
AskedOnce == ~crossed => \A c \in All : asked[c] <= 1

\* A popup ends when every human participant has answered it, whatever the
\* researcher, the clock and a restart do meanwhile.
AnsweredByAll ==
    ~crossed => \A c \in row.triggered : c = row.checkpoint \/ Humans \subseteq answered[c]

\* A session has the time it was given and the checkpoints it should: the clock
\* goes with the status, and each checkpoint is asked once and answered by all.
TimeIsKept ==
    TimerTypeOK /\ ClockFollowsSession /\ NoEarlyTimeout /\ AskedOnce /\ AnsweredByAll
=============================================================================
