---------------------------- MODULE Platform_proofs ----------------------------
(***************************************************************************)
(* Proofs about the parts of the legacy platform that work on their own:   *)
(* a session with its countdown and checkpoints, what participants answer  *)
(* in three tasks, the game of Shape Factory, and messages.                *)
(***************************************************************************)
EXTENDS SessionTimer, TaskAnswers, ShapeFactory, Messages, FiniteSetTheorems,
    SequenceTheorems, WellFoundedInduction, TLAPS

-----------------------------------------------------------------------------
(* SessionTimer, for any participants, duration, checkpoints, requests and   *)
(* threads.                                                                  *)

(* A request says how far it is; an action that found a checkpoint due names *)
(* it, and an answer remembers who had answered.                             *)
Requested ==
    [at : {"free", "start", "start_delayed", "pause", "resume", "resumed", "reset"}]
        \cup [at : {"act"}, checkpoint : All]
        \cup [at : {"submit", "resumed"}, submitted : SUBSET Humans]

Rows ==
    [status : {"waiting", "running", "paused"}, left : 0..Duration, annotating : BOOLEAN,
     checkpoint : 0..Len(Windows), submitted : SUBSET Humans, triggered : SUBSET All]

Timers ==
    [made : BOOLEAN, running : BOOLEAN, paused : BOOLEAN, pausedAt : Nat \cup {Never},
     startedAt : Nat \cup {Never}, lost : Nat, left : 0..Duration, thread : Slots \cup {NoSlot}]

Countdowns ==
    [at : {"dead", "top", "tell", "check", "ask", "expire", "exit"}, ask : 0..Len(Windows)]

TimerTypes ==
    /\ clock \in Nat /\ ran \in Nat
    /\ row \in Rows /\ timer \in Timers /\ countdowns \in [Slots -> Countdowns]
    /\ \A s \in Slots : countdowns[s].at = "ask" => countdowns[s].ask # 0
    /\ requests \in [Requests -> Requested]
    /\ asked \in [All -> Nat] /\ answered \in [All -> SUBSET Humans]
    /\ row.annotating <=> row.checkpoint # 0

(* What the timer counts as lost it has been paused for since it started.    *)
Until == IF timer.pausedAt = Never THEN clock ELSE timer.pausedAt

ClockInv ==
    /\ timer.running \/ timer.paused => timer.startedAt # Never
    /\ timer.startedAt = Never => timer.lost = 0 /\ timer.pausedAt = Never
    /\ timer.startedAt # Never => timer.startedAt + timer.lost <= Until
    /\ timer.pausedAt # Never => timer.pausedAt <= clock
    /\ ~timer.made => ~timer.running /\ ~timer.paused /\ timer.startedAt = Never /\ timer.left = Duration

(* One party at a time is between its steps.                                 *)
Busy == {"ask", "expire", "exit"}

OneParty ==
    /\ \A r, q \in Requests : requests[r].at # "free" /\ requests[q].at # "free" => r = q
    /\ \A s, u \in Slots : countdowns[s].at \in Busy /\ countdowns[u].at \in Busy => s = u
    /\ \A r \in Requests, s \in Slots : requests[r].at = "free" \/ countdowns[s].at \notin Busy

At(steps) == \E r \in Requests : requests[r].at \in steps

(* The clock goes with the status, but for a request that is about to stop   *)
(* it; a timer that runs has a thread, or gets one, and its thread ends      *)
(* after it was stopped.                                                     *)
StatusInv ==
    /\ Counting => row.status = "running" \/ At({"pause", "reset"})
    /\ At({"start", "start_delayed", "resume", "resumed"}) => row.status = "running"
    /\ timer.running => Alive(timer) \/ At({"resumed"})
    /\ At({"resumed"}) => timer.running /\ ~timer.paused
    /\ \A s \in Slots : countdowns[s].at = "exit" => ~timer.running
    /\ timer.paused => timer.pausedAt # Never
    /\ timer.pausedAt # Never => timer.paused \/ At({"resumed"})

(* The clock has run for what the timer makes of it, or for the whole        *)
(* duration; the time left is what is left of it.                            *)
RanInv ==
    /\ ran < Duration /\ timer.startedAt # Never =>
          /\ timer.running \/ timer.pausedAt # Never
          /\ ran >= (Until - timer.startedAt) - timer.lost
    /\ timer.left + ran >= Duration
    /\ \A s \in Slots : countdowns[s].at = "expire" => ran >= Duration
    /\ ~expiredEarly

(* A checkpoint that is about to be asked was not, and no popup is open.     *)
AskInv ==
    /\ \A c \in All : asked[c] = IF c \in row.triggered THEN 1 ELSE 0
    /\ \A r \in Requests : requests[r].at = "act" =>
          ~row.annotating /\ requests[r].checkpoint \notin row.triggered
    /\ \A s \in Slots : countdowns[s].at = "ask" =>
          ~row.annotating /\ countdowns[s].ask \notin row.triggered

(* Who the popup has answers of has answered its checkpoint.                 *)
AnswerInv ==
    /\ row.annotating => row.submitted \subseteq answered[row.checkpoint]
    /\ \A r \in Requests : requests[r].at = "submit" =>
          row.annotating /\ requests[r].submitted \subseteq answered[row.checkpoint]
    /\ \A c \in row.triggered : c = row.checkpoint \/ Humans \subseteq answered[c]

TimerInv ==
    /\ TimerTypes /\ ClockInv
    /\ ~crossed => OneParty /\ StatusInv /\ AskInv /\ AnswerInv
    /\ ~crossed /\ ~torn => RanInv
-----------------------------------------------------------------------------
(* What the helpers of the timer return.                                     *)

(* The windows are numbered from 1.                                          *)
LEMMA WindowsCounted == Len(Windows) \in Nat /\ All = 1..Len(Windows) /\ 0 \notin All
  BY TimerAssumption DEF All

LEMMA Bounds ==
  /\ 0 \in 0..Len(Windows) /\ \A c \in All : c \in 0..Len(Windows)
  /\ Duration \in Nat \ {0} /\ 0 \in 0..Duration /\ Duration \in 0..Duration
<1>1. Duration \in Nat \ {0}
  BY TimerAssumption
<1>2. QED
  BY <1>1, WindowsCounted

(* The larger of zero and a number.                                          *)
LEMMA Clamped == ASSUME NEW i \in Int PROVE Max({0, i}) = IF i > 0 THEN i ELSE 0
<1> DEFINE m == IF i > 0 THEN i ELSE 0
<1>1. m \in {0, i} /\ \A y \in {0, i} : m >= y
  OBVIOUS
<1>2. \A x \in {0, i} : (\A y \in {0, i} : x >= y) => x = m
  OBVIOUS
<1> HIDE DEF m
<1>3. QED
  BY <1>1, <1>2 DEF Max, m

(* A checkpoint that is due was not asked, while no popup is open.           *)
LEMMA DueIs ==
  ASSUME NEW w, NEW c \in Due(w)
  PROVE  c \in All /\ c \notin w.triggered /\ ~w.annotating
  BY DEF Due, CurrentCheckpoint

(* A request moves on to account for the pause.                              *)
LEMMA MovesOn ==
  ASSUME NEW q \in Requested, q.at \in {"resume", "submit"}
  PROVE  [q EXCEPT !.at = "resumed"] \in Requested
  BY DEF Requested

(* A thread is started only in an empty slot.                                *)
ThreadsStay == \A s \in Slots :
    \/ countdowns'[s] = countdowns[s]
    \/ countdowns[s].at = "dead" /\ countdowns'[s].at = "top" /\ countdowns'[s].ask = countdowns[s].ask

LEMMA Ensured ==
  ASSUME TimerTypes, NEW t \in Timers, EnsureThread(t)
  PROVE  /\ timer' \in Timers /\ Alive(timer)'
         /\ \A f \in {"made", "running", "paused", "pausedAt", "startedAt", "lost", "left"} : timer'[f] = t[f]
         /\ countdowns' \in [Slots -> Countdowns] /\ ThreadsStay
<1>1. CASE Alive(t)
  BY <1>1 DEF EnsureThread, ThreadsStay, TimerTypes, Alive
<1>2. CASE ~Alive(t)
  <2>1. PICK s \in Slots : /\ countdowns[s] = Dead
                           /\ timer' = [t EXCEPT !.thread = s]
                           /\ countdowns' = [countdowns EXCEPT ![s].at = "top"]
    BY <1>2 DEF EnsureThread
  <2>2. countdowns' \in [Slots -> Countdowns] /\ countdowns'[s] = [at |-> "top", ask |-> 0]
    BY <2>1, WindowsCounted DEF TimerTypes, Countdowns, Dead
  <2>3. countdowns'[s] # Dead /\ s # NoSlot /\ countdowns[s].at = "dead" /\ countdowns[s].ask = 0
    BY <2>1, <2>2, TimerAssumption DEF Dead, NoSlot
  <2>4. ThreadsStay
    BY <2>1, <2>2, <2>3 DEF TimerTypes, ThreadsStay
  <2>5. timer' \in Timers /\ timer'.thread = s
    BY <2>1 DEF Timers
  <2>6. \A f \in {"made", "running", "paused", "pausedAt", "startedAt", "lost", "left"} : timer'[f] = t[f]
    BY <2>1 DEF Timers
  <2>7. QED
    BY <2>2, <2>3, <2>4, <2>5, <2>6 DEF Alive
<1>3. QED
  BY <1>1, <1>2

(* start leaves a clock that runs, with the pause it ended accounted for.    *)
LEMMA ClockStarted ==
  ASSUME TimerTypes, NEW t \in Timers, t.pausedAt # Never => t.pausedAt <= clock, StartClock(t)
  PROVE  /\ timer' \in Timers /\ countdowns' \in [Slots -> Countdowns] /\ ThreadsStay
         /\ timer'.running /\ timer'.made = t.made /\ timer'.left = t.left
         /\ t.running => timer' = t /\ UNCHANGED countdowns
         /\ ~t.running =>
               /\ ~timer'.paused /\ Alive(timer)'
               /\ timer'.startedAt = IF t.startedAt = Never THEN clock ELSE t.startedAt
               /\ timer'.lost = t.lost + IF t.paused /\ t.pausedAt # Never THEN clock - t.pausedAt ELSE 0
               /\ timer'.pausedAt = IF t.paused THEN Never ELSE t.pausedAt
<1>1. CASE t.running
  BY <1>1 DEF StartClock, TimerTypes, ThreadsStay
<1>2. CASE ~t.running
  <2> DEFINE lost == t.lost + IF t.paused THEN PauseTime(t) ELSE 0
             pausedAt == IF t.paused THEN Never ELSE t.pausedAt
             startedAt == IF t.startedAt = Never THEN clock ELSE t.startedAt
             u == [t EXCEPT !.lost = lost, !.pausedAt = pausedAt, !.startedAt = startedAt,
                            !.running = TRUE, !.paused = FALSE]
  <2>1. lost \in Nat /\ lost = t.lost + IF t.paused /\ t.pausedAt # Never THEN clock - t.pausedAt ELSE 0
    BY DEF PauseTime, TimerTypes, Timers, Never
  <2>2. EnsureThread(u)
    BY <1>2 DEF StartClock
  <2>3. pausedAt \in Nat \cup {Never} /\ startedAt \in Nat \cup {Never}
    BY DEF TimerTypes, Timers
  <2> HIDE DEF lost, pausedAt, startedAt
  <2>4. u \in Timers
    BY <2>1, <2>3 DEF Timers
  <2>5. u.running = TRUE /\ u.paused = FALSE /\ u.made = t.made /\ u.left = t.left
        /\ u.lost = lost /\ u.pausedAt = pausedAt /\ u.startedAt = startedAt
    BY DEF Timers
  <2> HIDE DEF u
  <2>6. /\ timer' \in Timers /\ Alive(timer)' /\ countdowns' \in [Slots -> Countdowns] /\ ThreadsStay
        /\ \A f \in {"made", "running", "paused", "pausedAt", "startedAt", "lost", "left"} : timer'[f] = u[f]
    BY <2>2, <2>4, Ensured
  <2>7. timer'.running = TRUE /\ timer'.paused = FALSE /\ timer'.made = t.made /\ timer'.left = t.left
        /\ timer'.lost = lost /\ timer'.pausedAt = pausedAt /\ timer'.startedAt = startedAt
    BY <2>5, <2>6
  <2>8. QED
    BY <1>2, <2>1, <2>6, <2>7 DEF pausedAt, startedAt
<1>3. QED
  BY <1>1, <1>2

(* pause stops a clock that runs, and nothing else.                          *)
LEMMA ClockPaused ==
  ASSUME TimerTypes, NEW t \in Timers
  PROVE  /\ PausedTimer(t) \in Timers
         /\ PausedTimer(t).paused = (t.paused \/ t.running)
         /\ PausedTimer(t).pausedAt = IF t.running /\ ~t.paused THEN clock ELSE t.pausedAt
         /\ \A f \in {"made", "running", "startedAt", "lost", "left", "thread"} : PausedTimer(t)[f] = t[f]
<1>1. CASE t.running /\ ~t.paused
  BY <1>1 DEF PausedTimer, TimerTypes, Timers
<1>2. CASE ~(t.running /\ ~t.paused)
  BY <1>2 DEF PausedTimer, Timers
<1>3. QED
  BY <1>1, <1>2

-----------------------------------------------------------------------------
(* Every step keeps the types.                                               *)

LEMMA TimersMade == NoTimer \in Timers /\ NewTimer \in Timers /\ NewTimer.pausedAt = Never
<1>1. NoTimer \in Timers /\ NoTimer.pausedAt = Never
  BY Bounds DEF NoTimer, Timers
<1>2. QED
  BY <1>1 DEF NewTimer, Timers

LEMMA RequestsMade ==
  /\ NoRequest \in Requested
  /\ \A at \in {"start", "start_delayed", "pause", "resume", "resumed", "reset"} : [at |-> at] \in Requested
  /\ \A c \in All : [at |-> "act", checkpoint |-> c] \in Requested
  /\ \A S \in SUBSET Humans : [at |-> "submit", submitted |-> S] \in Requested
  BY DEF Requested, NoRequest

(* What a threads' step leaves of their types.                               *)
LEMMA StillAsks ==
  ASSUME TimerTypes, ThreadsStay
  PROVE  \A s \in Slots : countdowns'[s].at = "ask" => countdowns'[s].ask # 0
  BY DEF TimerTypes, ThreadsStay

LEMMA ResumeTypes ==
  ASSUME TimerTypes, ClockInv, NEW r \in Requests, requests[r].at \in {"resume", "submit"}, ResumeClock(r)
  PROVE  /\ timer' \in Timers /\ countdowns' \in [Slots -> Countdowns] /\ ThreadsStay
         /\ requests' \in [Requests -> Requested]
<1>1. CASE timer.made /\ timer.paused
  <2>1. timer' = [timer EXCEPT !.paused = FALSE, !.running = TRUE] /\ GoTo(r, "resumed") /\ UNCHANGED countdowns
    BY <1>1 DEF ResumeClock
  <2>2. requests' \in [Requests -> Requested]
    BY <2>1, MovesOn DEF GoTo, TimerTypes
  <2>3. QED
    BY <2>1, <2>2 DEF TimerTypes, Timers, ThreadsStay
<1>2. CASE ~(timer.made /\ timer.paused)
  <2>1. requests' \in [Requests -> Requested]
    BY <1>2, RequestsMade DEF ResumeClock, Done, TimerTypes
  <2>2. CASE timer.made
    <3>1. StartClock(timer)
      BY <1>2, <2>2 DEF ResumeClock
    <3>2. timer \in Timers /\ (timer.pausedAt # Never => timer.pausedAt <= clock)
      BY DEF TimerTypes, ClockInv
    <3>3. QED
      BY <2>1, <3>1, <3>2, ClockStarted
  <2>3. CASE ~timer.made
    BY <1>2, <2>1, <2>3 DEF ResumeClock, TimerTypes, ThreadsStay
  <2>4. QED
    BY <2>2, <2>3
<1>3. QED
  BY <1>1, <1>2

LEMMA TriggerTypes ==
  ASSUME TimerTypes, NEW c \in All, Trigger(c)
  PROVE  /\ timer' \in Timers /\ row' \in Rows /\ asked' \in [All -> Nat]
         /\ row'.annotating <=> row'.checkpoint # 0
         /\ UNCHANGED row.left
<1>1. timer' \in Timers
  BY ClockPaused DEF Trigger, TimerTypes
<1>2. row' \in Rows /\ row'.annotating /\ row'.checkpoint = c /\ row'.left = row.left
  <2>1. c \in 0..Len(Windows) /\ row.triggered \cup {c} \in SUBSET All
    BY Bounds DEF TimerTypes, Rows
  <2>2. QED
    BY <2>1 DEF Trigger, TimerTypes, Rows
<1>3. asked' \in [All -> Nat]
  BY DEF Trigger, TimerTypes
<1>4. QED
  BY <1>1, <1>2, <1>3, WindowsCounted

(* A request that acts, or a thread that asks, names a checkpoint.           *)
LEMMA NamesCheckpoint ==
  ASSUME TimerTypes
  PROVE  /\ \A r \in Requests : requests[r].at = "act" => requests[r].checkpoint \in All
         /\ \A r \in Requests : requests[r].at = "submit" => requests[r].submitted \subseteq Humans
         /\ \A s \in Slots : countdowns[s].at = "ask" => countdowns[s].ask \in All
<1>1. \A r \in Requests : requests[r] \in Requested
  BY DEF TimerTypes
<1>2. \A s \in Slots : countdowns[s].at = "ask" => countdowns[s].ask \in All
  BY WindowsCounted DEF TimerTypes, Countdowns
<1>3. QED
  BY <1>1, <1>2 DEF Requested

LEMMA TypesStay ==
  ASSUME TimerTypes, ClockInv, TimerStep
  PROVE  TimerTypes'
<1> USE DEF TimerTypes
<1>1. CASE Tick
  BY <1>1 DEF Tick
<1>2. ASSUME NEW r \in Requests, NEW op, NEW status,
             op \in {"start", "start_delayed", "resume", "pause", "reset"},
             status \in {"waiting", "running", "paused"}, Control(r, op, status)
      PROVE  TimerTypes'
  <2>1. row' \in Rows /\ (row'.annotating <=> row'.checkpoint # 0)
    BY <1>2 DEF Control, SetStatus, Rows
  <2>2. requests' \in [Requests -> Requested]
    BY <1>2, RequestsMade DEF Control, Enter
  <2>3. QED
    BY <1>2, <2>1, <2>2 DEF Control
<1>3. ASSUME NEW r \in Requests, FinishStart(r) PROVE TimerTypes'
  <2> DEFINE t == IF timer.made THEN timer ELSE NewTimer
  <2>1. t \in Timers /\ (t.pausedAt # Never => t.pausedAt <= clock)
    BY TimersMade DEF ClockInv
  <2>2. StartClock(t) \/ (timer' = t /\ UNCHANGED countdowns)
    BY <1>3 DEF FinishStart
  <2> HIDE DEF t
  <2>3. timer' \in Timers /\ countdowns' \in [Slots -> Countdowns] /\ ThreadsStay
    <3>1. CASE StartClock(t)
      BY <2>1, <3>1, ClockStarted
    <3>2. CASE timer' = t /\ UNCHANGED countdowns
      BY <2>1, <3>2 DEF ThreadsStay
    <3>3. QED
      BY <2>2, <3>1, <3>2
  <2>4. row' \in Rows /\ (row'.annotating <=> row'.checkpoint # 0)
    BY <1>3, Bounds DEF FinishStart, Rows
  <2>5. requests' \in [Requests -> Requested] /\ ran' \in Nat
    BY <1>3, RequestsMade DEF FinishStart, Done
  <2>6. QED
    BY <1>3, <2>3, <2>4, <2>5, StillAsks DEF FinishStart
<1>4. ASSUME NEW r \in Requests, FinishPause(r) PROVE TimerTypes'
  <2>1. timer' \in Timers
    BY <1>4, ClockPaused DEF FinishPause
  <2>2. requests' \in [Requests -> Requested]
    BY <1>4, RequestsMade DEF FinishPause, Done
  <2>3. QED
    BY <1>4, <2>1, <2>2 DEF FinishPause
<1>5. ASSUME NEW r \in Requests, Resume(r) PROVE TimerTypes'
  <2>1. timer' \in Timers /\ countdowns' \in [Slots -> Countdowns] /\ ThreadsStay
        /\ requests' \in [Requests -> Requested] /\ ran' \in Nat
    <3>1. CASE timer.made
      <4>1. ResumeClock(r) /\ UNCHANGED ran /\ requests[r].at \in {"resume", "submit"}
        BY <1>5, <3>1 DEF Resume
      <4>2. QED
        BY <4>1, ResumeTypes
    <3>2. CASE ~timer.made
      <4>1. StartClock(NewTimer) /\ ran' = 0 /\ Done(r)
        BY <1>5, <3>2 DEF Resume
      <4>2. timer' \in Timers /\ countdowns' \in [Slots -> Countdowns] /\ ThreadsStay
        BY <4>1, TimersMade, ClockStarted
      <4>3. QED
        BY <4>1, <4>2, RequestsMade DEF Done
    <3>3. QED
      BY <3>1, <3>2
  <2>2. QED
    BY <1>5, <2>1, StillAsks DEF Resume
<1>6. ASSUME NEW r \in Requests, FinishResume(r) PROVE TimerTypes'
  <2> DEFINE t == [timer EXCEPT !.lost = @ + PauseTime(timer), !.pausedAt = Never]
  <2>1. PauseTime(timer) \in Nat
    BY DEF PauseTime, ClockInv, Timers
  <2>2. t \in Timers
    <3>1. timer.lost + PauseTime(timer) \in Nat
      BY <2>1 DEF Timers
    <3>2. QED
      BY <3>1 DEF Timers
  <2>3. EnsureThread(t)
    BY <1>6 DEF FinishResume
  <2> HIDE DEF t
  <2>4. timer' \in Timers /\ countdowns' \in [Slots -> Countdowns] /\ ThreadsStay
    BY <2>2, <2>3, Ensured
  <2>5. requests' \in [Requests -> Requested]
    BY <1>6, RequestsMade DEF FinishResume, Done
  <2>6. QED
    BY <1>6, <2>4, <2>5, StillAsks DEF FinishResume
<1>7. ASSUME NEW r \in Requests, FinishReset(r) PROVE TimerTypes'
  <2>1. row' \in Rows /\ (row'.annotating <=> row'.checkpoint # 0)
    BY <1>7, Bounds DEF FinishReset, Rows
  <2>2. timer' \in Timers
    BY <1>7, Bounds DEF FinishReset, ResetTimer, Timers
  <2>3. requests' \in [Requests -> Requested]
    BY <1>7, RequestsMade DEF FinishReset, Done
  <2>4. QED
    BY <1>7, <2>1, <2>2, <2>3 DEF FinishReset
<1>8. ASSUME NEW r \in Requests, BeginAct(r) PROVE TimerTypes'
  <2>1. PICK c \in Due(row) : requests' = [requests EXCEPT ![r] = [at |-> "act", checkpoint |-> c]]
    BY <1>8 DEF BeginAct, Enter
  <2>2. requests' \in [Requests -> Requested]
    BY <2>1, RequestsMade, DueIs
  <2>3. QED
    BY <1>8, <2>2 DEF BeginAct
<1>9. ASSUME NEW r \in Requests, FinishAct(r) PROVE TimerTypes'
  <2>1. requests[r].checkpoint \in All /\ Trigger(requests[r].checkpoint)
    BY <1>9, NamesCheckpoint DEF FinishAct
  <2>2. requests' \in [Requests -> Requested]
    BY <1>9, RequestsMade DEF FinishAct, Done
  <2>3. QED
    BY <1>9, <2>1, <2>2, TriggerTypes DEF FinishAct
<1>10. ASSUME NEW r \in Requests, FinishSubmit(r) PROVE TimerTypes'
  <2>1. row' \in Rows /\ (row'.annotating <=> row'.checkpoint # 0)
    BY <1>10, Bounds, ZenonT(60) DEF FinishSubmit, Rows
  <2>2. timer' \in Timers /\ countdowns' \in [Slots -> Countdowns] /\ ThreadsStay
        /\ requests' \in [Requests -> Requested]
    <3>1. CASE ResumeClock(r)
      <4>1. requests[r].at \in {"resume", "submit"}
        BY <1>10 DEF FinishSubmit
      <4>2. QED
        BY <3>1, <4>1, ResumeTypes
    <3>2. CASE Done(r) /\ UNCHANGED <<row, timer, countdowns>>
      BY <3>2, RequestsMade DEF Done, ThreadsStay
    <3>3. QED
      BY <1>10, <3>1, <3>2 DEF FinishSubmit
  <2>3. QED
    BY <1>10, <2>1, <2>2, StillAsks DEF FinishSubmit
<1>11. ASSUME NEW r \in Requests, NEW p \in Humans, BeginSubmit(r, p) PROVE TimerTypes'
  <2> DEFINE submitted == row.submitted \cup {p}
  <2>1. submitted \subseteq Humans /\ row.checkpoint \in All
    BY <1>11, WindowsCounted DEF BeginSubmit, Rows
  <2>2. row' \in Rows /\ (row'.annotating <=> row'.checkpoint # 0)
    BY <1>11, <2>1 DEF BeginSubmit, Rows
  <2>3. requests' \in [Requests -> Requested]
    BY <1>11, <2>1, RequestsMade DEF BeginSubmit, Enter
  <2>4. answered' \in [All -> SUBSET Humans]
    BY <1>11 DEF BeginSubmit
  <2>5. QED
    BY <1>11, <2>2, <2>3, <2>4 DEF BeginSubmit
<1>12. ASSUME NEW s \in Slots, Look(s) PROVE TimerTypes'
  <2> DEFINE left == IF timer.startedAt = Never THEN timer.left - 1 ELSE Duration - Elapsed
  <2>1. CASE ~timer.running /\ countdowns' = [countdowns EXCEPT ![s].at = "exit"] /\ UNCHANGED <<timer, torn>>
    BY <1>12, <2>1 DEF Look, Countdowns
  <2>2. CASE timer.running /\ timer' = [timer EXCEPT !.left = Max({0, left})]
             /\ \E at \in {"tell", "check"} : countdowns' = [countdowns EXCEPT ![s].at = at]
    <3>1. left \in Int /\ left <= Duration
      BY <2>2, TimerAssumption, SMTT(30) DEF Elapsed, Timers, ClockInv, Until, Never
    <3>2. Max({0, left}) \in 0..Duration
      <4> HIDE DEF left
      <4>1. QED
        BY <3>1, Clamped, Bounds
    <3> HIDE DEF left
    <3>3. timer' \in Timers
      BY <2>2, <3>2 DEF Timers
    <3>4. countdowns' \in [Slots -> Countdowns] /\ \A u \in Slots : countdowns'[u].at = "ask" => countdowns'[u].ask # 0
      BY <2>2 DEF Countdowns
    <3>5. QED
      BY <1>12, <3>3, <3>4 DEF Look
  <2>3. QED
    BY <1>12, <2>1, <2>2 DEF Look
<1>13. ASSUME NEW s \in Slots, Tell(s) PROVE TimerTypes'
  <2>1. row' \in Rows /\ (row'.annotating <=> row'.checkpoint # 0)
    BY <1>13 DEF Tell, Rows, Timers
  <2>2. \/ countdowns' = [countdowns EXCEPT ![s].at = "check"]
        \/ \E c \in Due(row') : countdowns' = [countdowns EXCEPT ![s] = [at |-> "ask", ask |-> c]]
    BY <1>13 DEF Tell
  <2>3. countdowns' \in [Slots -> Countdowns] /\ \A u \in Slots : countdowns'[u].at = "ask" => countdowns'[u].ask # 0
    <3>1. CASE countdowns' = [countdowns EXCEPT ![s].at = "check"]
      BY <3>1 DEF Countdowns
    <3>2. ASSUME NEW c \in Due(row'), countdowns' = [countdowns EXCEPT ![s] = [at |-> "ask", ask |-> c]]
          PROVE  countdowns' \in [Slots -> Countdowns] /\ \A u \in Slots : countdowns'[u].at = "ask" => countdowns'[u].ask # 0
      <4>1. c \in All /\ c # 0
        BY DueIs, WindowsCounted
      <4>2. QED
        BY <3>2, <4>1, WindowsCounted DEF Countdowns
    <3>3. QED
      BY <2>2, <3>1, <3>2
  <2>4. QED
    BY <1>13, <2>1, <2>3 DEF Tell
<1>14. ASSUME NEW s \in Slots, Ask(s) PROVE TimerTypes'
  <2>1. countdowns[s].ask \in All /\ Trigger(countdowns[s].ask)
    BY <1>14, NamesCheckpoint DEF Ask
  <2>2. countdowns' \in [Slots -> Countdowns] /\ \A u \in Slots : countdowns'[u].at = "ask" => countdowns'[u].ask # 0
    BY <1>14, WindowsCounted DEF Ask, Countdowns
  <2>3. QED
    BY <1>14, <2>1, <2>2, TriggerTypes DEF Ask
<1>15. ASSUME NEW s \in Slots, Check(s) PROVE TimerTypes'
  BY <1>15 DEF Check, Countdowns
<1>16. ASSUME NEW s \in Slots, Expire(s) PROVE TimerTypes'
  <2>1. row' \in Rows /\ (row'.annotating <=> row'.checkpoint # 0)
    BY <1>16, Bounds DEF Expire, Rows
  <2>2. timer' \in Timers
    BY <1>16 DEF Expire, Timers
  <2>3. QED
    BY <1>16, <2>1, <2>2 DEF Expire, Countdowns
<1>17. ASSUME NEW s \in Slots, Exit(s) PROVE TimerTypes'
  BY <1>17, WindowsCounted DEF Exit, Countdowns, Dead
<1>18. CASE RestartTimer
  BY <1>18, TimersMade, RequestsMade, WindowsCounted DEF RestartTimer, Countdowns, Dead
<1>19. QED
  BY <1>1, <1>2, <1>3, <1>4, <1>5, <1>6, <1>7, <1>8, <1>9, <1>10, <1>11, <1>12, <1>13, <1>14,
     <1>15, <1>16, <1>17, <1>18 DEF TimerStep

-----------------------------------------------------------------------------
(* The timer never counts more time as lost than went by.                    *)
SameClock(t) == timer'.running = t.running /\ timer'.paused = t.paused /\ timer'.pausedAt = t.pausedAt
                /\ timer'.startedAt = t.startedAt /\ timer'.lost = t.lost /\ timer'.made = t.made
                /\ timer'.left = t.left

LEMMA SameClockStays ==
  ASSUME ClockInv, SameClock(timer), UNCHANGED clock
  PROVE  ClockInv'
  BY DEF ClockInv, SameClock, Until

LEMMA StartStays ==
  ASSUME TimerTypes, ClockInv, UNCHANGED clock, NEW t \in Timers,
         t = timer \/ t = NewTimer, StartClock(t), t.made
  PROVE  ClockInv'
<1>1. /\ t.pausedAt # Never => t.pausedAt <= clock
      /\ t.startedAt = Never => t.lost = 0 /\ t.pausedAt = Never
      /\ t.startedAt # Never => t.startedAt + t.lost <= IF t.pausedAt = Never THEN clock ELSE t.pausedAt
      /\ t.running => t.startedAt # Never
  <2>1. CASE t = timer
    BY <2>1 DEF ClockInv, Until
  <2>2. CASE t = NewTimer
    BY <2>2 DEF NewTimer, NoTimer, Never
  <2>3. QED
    BY <2>1, <2>2
<1> HIDE DEF ClockInv
<1>2. /\ timer' \in Timers /\ timer'.running /\ timer'.made
      /\ t.running => timer' = t
      /\ ~t.running =>
               /\ timer'.startedAt = IF t.startedAt = Never THEN clock ELSE t.startedAt
               /\ timer'.lost = t.lost + IF t.paused /\ t.pausedAt # Never THEN clock - t.pausedAt ELSE 0
               /\ timer'.pausedAt = IF t.paused THEN Never ELSE t.pausedAt
  BY <1>1, ClockStarted
<1>3. clock \in Nat
  BY DEF TimerTypes
<1>4. QED
  BY <1>1, <1>2, <1>3 DEF ClockInv, Until, Timers, Never

LEMMA PauseStays ==
  ASSUME TimerTypes, ClockInv, UNCHANGED clock, timer' = PausedTimer(timer)
  PROVE  ClockInv'
<1>1. timer \in Timers /\ clock \in Nat
  BY DEF TimerTypes
<1>2. /\ timer'.pausedAt = IF timer.running /\ ~timer.paused THEN clock ELSE timer.pausedAt
      /\ timer'.running = timer.running /\ timer'.startedAt = timer.startedAt /\ timer'.made = timer.made
      /\ timer'.lost = timer.lost /\ timer'.left = timer.left
      /\ timer'.paused = (timer.paused \/ timer.running)
  BY <1>1, ClockPaused
<1>3. QED
  BY <1>1, <1>2 DEF ClockInv, Until, Timers, Never

LEMMA ResumeStays ==
  ASSUME TimerTypes, ClockInv, UNCHANGED clock, NEW r, ResumeClock(r)
  PROVE  ClockInv'
<1>1. timer \in Timers
  BY DEF TimerTypes
<1>2. CASE timer.made /\ timer.paused /\ timer.startedAt # Never
  <2>1. timer' = [timer EXCEPT !.paused = FALSE, !.running = TRUE]
    BY <1>2 DEF ResumeClock
  <2>2. QED
    BY <1>1, <1>2, <2>1 DEF ClockInv, Until, Timers
<1>3. CASE ~timer.made
  BY <1>3 DEF ResumeClock, ClockInv, Until
<1>4. CASE timer.made /\ ~timer.paused
  <2>1. StartClock(timer)
    BY <1>4 DEF ResumeClock
  <2>2. QED
    BY <1>1, <1>4, <2>1, StartStays
<1>5. QED
  BY <1>2, <1>3, <1>4 DEF ClockInv

LEMMA ClockStays ==
  ASSUME TimerTypes, ClockInv, TimerStep
  PROVE  ClockInv'
<1> USE DEF TimerTypes
<1>1. CASE Tick
  BY <1>1 DEF Tick, ClockInv, Until, Timers, Never
<1>2. ASSUME NEW r \in Requests, NEW op, NEW status, Control(r, op, status) PROVE ClockInv'
  BY <1>2, SameClockStays DEF Control, SameClock
<1>3. ASSUME NEW r \in Requests, FinishStart(r) PROVE ClockInv'
  <2> DEFINE t == IF timer.made THEN timer ELSE NewTimer
  <2>1. t \in Timers /\ (t = timer \/ t = NewTimer) /\ t.made
    BY TimersMade DEF NewTimer, NoTimer
  <2>2. StartClock(t) \/ (timer' = t /\ UNCHANGED countdowns)
    BY <1>3 DEF FinishStart
  <2>3. UNCHANGED clock
    BY <1>3 DEF FinishStart
  <2> HIDE DEF t
  <2>4. CASE StartClock(t)
    BY <2>1, <2>3, <2>4, StartStays
  <2>5. CASE timer' = t
    <3>1. CASE t = timer
      BY <2>3, <2>5, <3>1, SameClockStays DEF SameClock
    <3>2. CASE t = NewTimer
      BY <2>3, <2>5, <3>2 DEF ClockInv, NewTimer, NoTimer, Never
    <3>3. QED
      BY <2>1, <3>1, <3>2
  <2>6. QED
    BY <2>2, <2>4, <2>5
<1>4. ASSUME NEW r \in Requests, FinishPause(r) PROVE ClockInv'
  BY <1>4, PauseStays DEF FinishPause
<1>5. ASSUME NEW r \in Requests, Resume(r) PROVE ClockInv'
  <2>1. UNCHANGED clock
    BY <1>5 DEF Resume
  <2>2. CASE timer.made
    <3>1. ResumeClock(r)
      BY <1>5, <2>2 DEF Resume
    <3>2. QED
      BY <2>1, <3>1, ResumeStays
  <2>3. CASE ~timer.made
    <3>1. StartClock(NewTimer)
      BY <1>5, <2>3 DEF Resume
    <3>2. NewTimer \in Timers /\ NewTimer.made
      BY TimersMade DEF NewTimer, NoTimer
    <3>3. QED
      BY <2>1, <3>1, <3>2, StartStays
  <2>4. QED
    BY <2>2, <2>3
<1>6. ASSUME NEW r \in Requests, FinishResume(r) PROVE ClockInv'
  <2> DEFINE t == [timer EXCEPT !.lost = @ + PauseTime(timer), !.pausedAt = Never]
  <2>1. PauseTime(timer) = (IF timer.pausedAt = Never THEN 0 ELSE clock - timer.pausedAt) /\ PauseTime(timer) \in Nat
    BY DEF PauseTime, ClockInv, Timers
  <2>2. t \in Timers
    <3>1. timer.lost + PauseTime(timer) \in Nat
      BY <2>1 DEF Timers
    <3>2. QED
      BY <3>1 DEF Timers
  <2>3. EnsureThread(t) /\ UNCHANGED clock
    BY <1>6 DEF FinishResume
  <2>4. t.lost = timer.lost + PauseTime(timer) /\ t.pausedAt = Never /\ t.startedAt = timer.startedAt
        /\ t.running = timer.running /\ t.paused = timer.paused /\ t.made = timer.made /\ t.left = timer.left
    BY DEF Timers
  <2> HIDE DEF t
  <2>5. \A f \in {"made", "running", "paused", "pausedAt", "startedAt", "lost", "left"} : timer'[f] = t[f]
    BY <2>2, <2>3, Ensured
  <2>6. SameClock(t)
    BY <2>5 DEF SameClock
  <2>7. timer.lost \in Nat /\ clock \in Nat /\ timer.startedAt \in Nat \cup {Never} /\ timer.pausedAt \in Nat \cup {Never}
    BY DEF Timers
  <2>8. QED
    BY <2>1, <2>3, <2>4, <2>6, <2>7 DEF ClockInv, SameClock, Until, Never
<1>7. ASSUME NEW r \in Requests, FinishReset(r) PROVE ClockInv'
  <2>1. UNCHANGED clock /\ timer \in Timers /\ timer' = IF timer.made THEN ResetTimer(timer) ELSE timer
    BY <1>7 DEF FinishReset
  <2>2. CASE timer.made
    BY <2>1, <2>2 DEF ClockInv, ResetTimer, Timers, Never
  <2>3. CASE ~timer.made
    BY <2>1, <2>3, SameClockStays DEF SameClock
  <2>4. QED
    BY <2>2, <2>3
<1>8. ASSUME NEW r \in Requests, BeginAct(r) PROVE ClockInv'
  BY <1>8, SameClockStays DEF BeginAct, SameClock
<1>9. ASSUME NEW r \in Requests, FinishAct(r) PROVE ClockInv'
  BY <1>9, PauseStays DEF FinishAct, Trigger
<1>10. ASSUME NEW r \in Requests, FinishSubmit(r) PROVE ClockInv'
  <2>1. UNCHANGED clock /\ (ResumeClock(r) \/ UNCHANGED timer)
    BY <1>10 DEF FinishSubmit
  <2>2. CASE ResumeClock(r)
    BY <2>1, <2>2, ResumeStays
  <2>3. CASE UNCHANGED timer
    BY <2>1, <2>3, SameClockStays DEF SameClock
  <2>4. QED
    BY <2>1, <2>2, <2>3
<1>11. ASSUME NEW r \in Requests, NEW p \in Humans, BeginSubmit(r, p) PROVE ClockInv'
  BY <1>11, SameClockStays DEF BeginSubmit, SameClock
<1>12. ASSUME NEW s \in Slots, Look(s) PROVE ClockInv'
  <2>1. UNCHANGED clock
    BY <1>12 DEF Look
  <2>2. CASE UNCHANGED timer
    BY <2>1, <2>2, SameClockStays DEF SameClock
  <2>3. CASE timer.running /\ \E n : timer' = [timer EXCEPT !.left = n]
    BY <2>1, <2>3 DEF ClockInv, Until, Timers
  <2>4. QED
    BY <1>12, <2>2, <2>3 DEF Look
<1>13. ASSUME NEW s \in Slots, Tell(s) PROVE ClockInv'
  BY <1>13, SameClockStays DEF Tell, SameClock
<1>14. ASSUME NEW s \in Slots, Ask(s) PROVE ClockInv'
  BY <1>14, PauseStays DEF Ask, Trigger
<1>15. ASSUME NEW s \in Slots, Check(s) PROVE ClockInv'
  BY <1>15, SameClockStays DEF Check, SameClock
<1>16. ASSUME NEW s \in Slots, Expire(s) PROVE ClockInv'
  BY <1>16 DEF Expire, ClockInv, Until, Timers
<1>17. ASSUME NEW s \in Slots, Exit(s) PROVE ClockInv'
  BY <1>17, SameClockStays DEF Exit, SameClock
<1>18. CASE RestartTimer
  BY <1>18 DEF RestartTimer, ClockInv, NoTimer, Never
<1>19. QED
  BY <1>1, <1>2, <1>3, <1>4, <1>5, <1>6, <1>7, <1>8, <1>9, <1>10, <1>11, <1>12, <1>13, <1>14,
     <1>15, <1>16, <1>17, <1>18 DEF TimerStep

-----------------------------------------------------------------------------
(* While nobody crosses, one party is between its steps.                     *)
LEMMA AtMostOne ==
  ASSUME NEW S, IsFiniteSet(S), ~(Cardinality(S) > 1)
  PROVE  \A x, y \in S : x = y
<1>1. Cardinality(S) = 0 \/ Cardinality(S) = 1
  <2>1. Cardinality(S) \in Nat
    BY FS_CardinalityType
  <2>2. QED
    BY <2>1
<1>2. S = {} \/ \E x : S = {x}
  BY <1>1, FS_EmptySet, FS_Singleton
<1>3. QED
  BY <1>2

LEMMA OneLeft ==
  ASSUME ~(Cardinality(Parties') > 1)
  PROVE  OneParty'
<1>1. IsFiniteSet(Parties')
  <2>1. IsFiniteSet(Requests \cup Slots)
    BY TimerAssumption, FS_Union
  <2>2. Parties' \in SUBSET (Requests \cup Slots)
    BY DEF Parties
  <2>3. QED
    BY <2>1, <2>2, FS_Subset
<1>2. \A x, y \in Parties' : x = y
  BY <1>1, AtMostOne
<1>3. \A r \in Requests : requests'[r].at # "free" => r \in Parties'
  BY DEF Parties, NoRequest
<1>4. \A s \in Slots : countdowns'[s].at \in Busy => s \in Parties'
  BY DEF Parties, Busy
<1>5. Slots \cap Requests = {}
  BY TimerAssumption
<1>6. QED
  BY <1>2, <1>3, <1>4, <1>5 DEF OneParty

(* The only request on its way is r.                                         *)
LEMMA OnlyRequest ==
  ASSUME OneParty, NEW r \in Requests, requests[r].at # "free"
  PROVE  /\ \A q \in Requests : q # r => requests[q].at = "free"
         /\ \A s \in Slots : countdowns[s].at \notin Busy
  BY DEF OneParty

LEMMA OnlyThread ==
  ASSUME OneParty, NEW s \in Slots, countdowns[s].at \in Busy
  PROVE  /\ \A r \in Requests : requests[r].at = "free"
         /\ \A u \in Slots : u # s => countdowns[u].at \notin Busy
  BY DEF OneParty

-----------------------------------------------------------------------------
(* The clock follows the status.                                             *)

(* A request that has just entered is the only one.                          *)
LEMMA Entered ==
  ASSUME TimerTypes, OneParty', NEW r \in Requests, NEW step, step.at # "free", Enter(r, step), UNCHANGED countdowns
  PROVE  /\ requests'[r] = step /\ \A q \in Requests : q # r => requests'[q].at = "free"
         /\ \A q \in Requests : requests[q].at = "free"
         /\ \A s \in Slots : countdowns[s].at \notin Busy
<1>1. requests'[r] = step /\ \A q \in Requests : q # r => requests'[q] = requests[q]
  BY DEF Enter, TimerTypes
<1>2. \A q \in Requests : q # r => requests'[q].at = "free"
  BY <1>1 DEF OneParty
<1>3. \A s \in Slots : countdowns'[s].at \notin Busy
  BY <1>1 DEF OneParty
<1>4. requests[r].at = "free"
  BY DEF Enter, NoRequest
<1>5. QED
  BY <1>1, <1>2, <1>3, <1>4

(* When the request on its way is done, none is.                             *)
LEMMA Finished ==
  ASSUME TimerTypes, OneParty, NEW r \in Requests, requests[r].at # "free", Done(r)
  PROVE  \A q \in Requests : requests'[q].at = "free"
  BY OnlyRequest DEF Done, TimerTypes, NoRequest

(* The timer, the status and the requests are what they were, and a thread   *)
(* dies when the timer is stopped.                                           *)
LEMMA StatusSame ==
  ASSUME TimerTypes, StatusInv, UNCHANGED <<timer, requests>>, UNCHANGED row.status,
         \A s \in Slots : countdowns'[s] = Dead => countdowns[s] = Dead \/ countdowns[s].at = "exit",
         \A s \in Slots : countdowns'[s].at = "exit" => countdowns[s].at = "exit" \/ ~timer.running
  PROVE  StatusInv'
<1>1. timer.running /\ Alive(timer) => Alive(timer)'
  BY DEF Alive, StatusInv, TimerTypes, Timers
<1>2. QED
  BY <1>1 DEF StatusInv, At, Counting

(* When no request is on its way, and no thread ends.                        *)
LEMMA StatusRests ==
  ASSUME \A q \in Requests : requests'[q].at = "free",
         \A s \in Slots : countdowns'[s].at # "exit",
         timer'.running => Alive(timer)',
         timer'.running /\ ~timer'.paused => row'.status = "running",
         timer'.paused <=> timer'.pausedAt # Never
  PROVE  StatusInv'
  BY DEF StatusInv, At, Counting

(* A clock that was started has a thread.                                    *)
LEMMA StartAlive ==
  ASSUME TimerTypes, ClockInv, StatusInv, NEW t \in Timers, t = timer \/ t = NewTimer, StartClock(t),
         \A q \in Requests : requests[q].at # "resumed",
         \A s \in Slots : countdowns[s].at # "exit"
  PROVE  /\ timer'.running /\ Alive(timer)'
         /\ timer'.paused <=> timer'.pausedAt # Never
         /\ \A s \in Slots : countdowns'[s].at # "exit"
<1>1. t.pausedAt # Never => t.pausedAt <= clock
  BY TimersMade DEF ClockInv
<1>2. /\ timer'.running /\ ThreadsStay
      /\ t.running => timer' = t /\ UNCHANGED countdowns
      /\ ~t.running => /\ ~timer'.paused /\ Alive(timer)'
                        /\ timer'.pausedAt = IF t.paused THEN Never ELSE t.pausedAt
  BY <1>1, ClockStarted
<1>3. ~NewTimer.running
  BY DEF NewTimer, NoTimer
<1>4. \A s \in Slots : countdowns'[s].at # "exit"
  BY <1>2 DEF ThreadsStay
<1>5. CASE t.running
  BY <1>2, <1>3, <1>4, <1>5 DEF StatusInv, At, Alive
<1>6. CASE ~t.running
  BY <1>2, <1>3, <1>4, <1>6, TimersMade DEF StatusInv, At
<1>7. QED
  BY <1>5, <1>6

(* After a pause nothing counts.                                             *)
LEMMA PauseAlive ==
  ASSUME TimerTypes, StatusInv, timer' = PausedTimer(timer),
         \A s \in Slots : countdowns'[s] = Dead => countdowns[s] = Dead,
         \A q \in Requests : requests[q].at # "resumed"
  PROVE  /\ timer'.running => timer'.paused /\ Alive(timer)'
         /\ timer'.paused <=> timer'.pausedAt # Never
<1>1. timer \in Timers
  BY DEF TimerTypes
<1>2. /\ timer'.paused = (timer.paused \/ timer.running)
      /\ timer'.pausedAt = IF timer.running /\ ~timer.paused THEN clock ELSE timer.pausedAt
      /\ timer'.running = timer.running /\ timer'.thread = timer.thread
  BY <1>1, ClockPaused
<1>3. timer.running => Alive(timer)
  BY DEF StatusInv, At
<1>4. timer'.running => Alive(timer)'
  BY <1>1, <1>2, <1>3 DEF Alive, Timers
<1>5. clock # Never
  BY DEF TimerTypes, Never
<1>6. QED
  BY <1>2, <1>4, <1>5 DEF StatusInv

(* resume, of the request that is the only one on its way.                   *)
LEMMA ResumeAlive ==
  ASSUME TimerTypes, ClockInv, OneParty, StatusInv, NEW r \in Requests, requests[r].at \in {"resume", "submit"},
         ResumeClock(r), row'.status = "running"
  PROVE  StatusInv'
<1>1. /\ \A q \in Requests : q # r => requests[q].at = "free"
      /\ \A s \in Slots : countdowns[s].at \notin Busy
  BY OnlyRequest
<1>2. \A q \in Requests : requests[q].at # "resumed"
  BY <1>1
<1>3. \A s \in Slots : countdowns[s].at # "exit"
  BY <1>1 DEF Busy
<1>4. timer \in Timers
  BY DEF TimerTypes
<1>5. CASE timer.made /\ timer.paused
  <2>1. timer' = [timer EXCEPT !.paused = FALSE, !.running = TRUE] /\ GoTo(r, "resumed") /\ UNCHANGED countdowns
    BY <1>5 DEF ResumeClock
  <2>2. requests'[r].at = "resumed" /\ \A q \in Requests : q # r => requests'[q].at = "free"
    <3>1. requests[r] \in Requested
      BY DEF TimerTypes
    <3>2. [requests[r] EXCEPT !.at = "resumed"].at = "resumed"
      BY <3>1 DEF Requested
    <3>3. QED
      BY <1>1, <2>1, <3>2 DEF GoTo, TimerTypes
  <2>3. timer'.running /\ ~timer'.paused
    BY <1>4, <2>1 DEF Timers
  <2>4. QED
    BY <1>3, <2>1, <2>2, <2>3 DEF StatusInv, At, Counting
<1>6. CASE timer.made /\ ~timer.paused
  <2>1. StartClock(timer) /\ Done(r)
    BY <1>6 DEF ResumeClock
  <2>2. \A q \in Requests : requests'[q].at = "free"
    BY <2>1, Finished
  <2>3. /\ timer'.running /\ Alive(timer)'
        /\ timer'.paused <=> timer'.pausedAt # Never
        /\ \A s \in Slots : countdowns'[s].at # "exit"
    BY <1>2, <1>3, <1>4, <2>1, StartAlive
  <2>4. QED
    BY <2>2, <2>3, StatusRests
<1>7. CASE ~timer.made
  <2>1. UNCHANGED <<timer, countdowns>> /\ Done(r)
    BY <1>7 DEF ResumeClock
  <2>2. \A q \in Requests : requests'[q].at = "free"
    BY <2>1, Finished
  <2>3. ~timer'.running /\ ~timer'.paused /\ timer'.pausedAt = Never
    BY <1>7, <2>1 DEF ClockInv
  <2>4. QED
    BY <1>3, <2>1, <2>2, <2>3, StatusRests
<1>8. QED
  BY <1>5, <1>6, <1>7

LEMMA StatusStays ==
  ASSUME TimerTypes, TimerTypes', ClockInv, OneParty, OneParty', StatusInv, TimerStep
  PROVE  StatusInv'
<1> USE DEF Busy
<1>1. CASE Tick
  BY <1>1, StatusSame DEF Tick
<1>2. ASSUME NEW r \in Requests, NEW op, NEW status, Control(r, op, status),
             \/ op \in {"start", "start_delayed", "resume"} /\ status = "running"
             \/ op \in {"pause", "reset"}
      PROVE  StatusInv'
  <2>1. Enter(r, [at |-> op]) /\ UNCHANGED <<timer, countdowns>> /\ row'.status = status
    BY <1>2 DEF Control, SetStatus, TimerTypes, Rows
  <2> DEFINE step == [at |-> op]
  <2>2. step.at = op /\ op # "free" /\ op # "resumed"
    BY <1>2
  <2> HIDE DEF step
  <2>3. /\ requests'[r].at = op /\ \A q \in Requests : q # r => requests'[q].at = "free"
        /\ \A q \in Requests : requests[q].at = "free"
        /\ \A s \in Slots : countdowns[s].at \notin Busy
    BY <2>1, <2>2, Entered DEF step
  <2>4. timer.running => Alive(timer)'
    BY <2>1, <2>3 DEF StatusInv, At, Alive
  <2>5. QED
    BY <1>2, <2>1, <2>2, <2>3, <2>4 DEF StatusInv, At, Counting
<1>3. ASSUME NEW r \in Requests, FinishStart(r) PROVE StatusInv'
  <2>1. requests[r].at \in {"start", "start_delayed"} /\ Done(r) /\ row'.status = row.status
    BY <1>3 DEF FinishStart, TimerTypes, Rows
  <2>2. /\ \A q \in Requests : requests'[q].at = "free"
        /\ \A q \in Requests : requests[q].at # "resumed"
        /\ \A s \in Slots : countdowns[s].at \notin Busy
    BY <2>1, Finished, OnlyRequest
  <2> DEFINE t == IF timer.made THEN timer ELSE NewTimer
  <2>3. t \in Timers /\ (t = timer \/ t = NewTimer)
    BY TimersMade DEF TimerTypes
  <2>4. StartClock(t) \/ (timer' = t /\ UNCHANGED countdowns)
    BY <1>3 DEF FinishStart
  <2> HIDE DEF t
  <2>5. row'.status = "running"
    BY <2>1 DEF StatusInv, At
  <2>6. CASE StartClock(t)
    <3>1. /\ timer'.running /\ Alive(timer)'
          /\ timer'.paused <=> timer'.pausedAt # Never
          /\ \A s \in Slots : countdowns'[s].at # "exit"
      BY <2>2, <2>3, <2>6, StartAlive
    <3>2. QED
      BY <2>2, <2>5, <3>1, StatusRests
  <2>7. CASE timer' = t /\ UNCHANGED countdowns
    <3>1. timer'.running => Alive(timer)'
      BY <2>2, <2>3, <2>7 DEF StatusInv, At, Alive, NewTimer, NoTimer
    <3>2. timer'.paused <=> timer'.pausedAt # Never
      BY <2>2, <2>3, <2>7, TimersMade DEF StatusInv, At, NewTimer, NoTimer
    <3>3. QED
      BY <2>2, <2>5, <2>7, <3>1, <3>2, StatusRests
  <2>8. QED
    BY <2>4, <2>6, <2>7
<1>4. ASSUME NEW r \in Requests, FinishPause(r) PROVE StatusInv'
  <2>1. requests[r].at = "pause" /\ Done(r) /\ timer' = PausedTimer(timer) /\ UNCHANGED countdowns
    BY <1>4 DEF FinishPause
  <2>2. /\ \A q \in Requests : requests'[q].at = "free"
        /\ \A q \in Requests : requests[q].at # "resumed"
        /\ \A s \in Slots : countdowns'[s].at # "exit"
    BY <2>1, Finished, OnlyRequest
  <2>3. /\ timer'.running => timer'.paused /\ Alive(timer)'
        /\ timer'.paused <=> timer'.pausedAt # Never
    BY <2>1, <2>2, PauseAlive
  <2>4. QED
    BY <2>2, <2>3, StatusRests
<1>5. ASSUME NEW r \in Requests, Resume(r) PROVE StatusInv'
  <2>1. requests[r].at = "resume" /\ UNCHANGED row
    BY <1>5 DEF Resume
  <2>2. row'.status = "running"
    BY <2>1 DEF StatusInv, At
  <2>3. CASE timer.made
    <3>1. ResumeClock(r) /\ requests[r].at \in {"resume", "submit"}
      BY <1>5, <2>1, <2>3 DEF Resume
    <3>2. QED
      BY <2>2, <3>1, ResumeAlive
  <2>4. CASE ~timer.made
    <3>1. StartClock(NewTimer) /\ Done(r)
      BY <1>5, <2>4 DEF Resume
    <3>2. /\ \A q \in Requests : requests'[q].at = "free"
          /\ \A q \in Requests : requests[q].at # "resumed"
          /\ \A s \in Slots : countdowns[s].at # "exit"
      BY <2>1, <3>1, Finished, OnlyRequest
    <3>3. /\ timer'.running /\ Alive(timer)'
          /\ timer'.paused <=> timer'.pausedAt # Never
          /\ \A s \in Slots : countdowns'[s].at # "exit"
      BY <3>1, <3>2, TimersMade, StartAlive
    <3>4. QED
      BY <2>2, <3>2, <3>3, StatusRests
  <2>5. QED
    BY <2>3, <2>4
<1>6. ASSUME NEW r \in Requests, FinishResume(r) PROVE StatusInv'
  <2> DEFINE t == [timer EXCEPT !.lost = @ + PauseTime(timer), !.pausedAt = Never]
  <2>1. requests[r].at = "resumed" /\ EnsureThread(t) /\ Done(r) /\ UNCHANGED row
    BY <1>6 DEF FinishResume
  <2>2. t \in Timers /\ t.paused = timer.paused /\ t.pausedAt = Never
    <3>1. timer.lost + PauseTime(timer) \in Nat
      BY DEF TimerTypes, ClockInv, PauseTime, Timers
    <3>2. QED
      BY <3>1 DEF TimerTypes, Timers
  <2> HIDE DEF t
  <2>3. Alive(timer)' /\ ThreadsStay /\ timer'.paused = t.paused /\ timer'.pausedAt = t.pausedAt
    BY <2>1, <2>2, Ensured
  <2>4. row'.status = "running" /\ ~timer.paused
    BY <2>1 DEF StatusInv, At
  <2>5. /\ \A q \in Requests : requests'[q].at = "free"
        /\ \A s \in Slots : countdowns[s].at # "exit"
    BY <2>1, Finished, OnlyRequest
  <2>6. \A s \in Slots : countdowns'[s].at # "exit"
    BY <2>3, <2>5 DEF ThreadsStay
  <2>7. QED
    BY <2>2, <2>3, <2>4, <2>5, <2>6, StatusRests
<1>7. ASSUME NEW r \in Requests, FinishReset(r) PROVE StatusInv'
  <2>1. requests[r].at = "reset" /\ Done(r) /\ UNCHANGED countdowns
        /\ timer' = IF timer.made THEN ResetTimer(timer) ELSE timer
    BY <1>7 DEF FinishReset
  <2>2. /\ \A q \in Requests : requests'[q].at = "free"
        /\ \A s \in Slots : countdowns'[s].at # "exit"
    BY <2>1, Finished, OnlyRequest
  <2>3. ~timer'.running /\ ~timer'.paused /\ timer'.pausedAt = Never
    BY <2>1 DEF ClockInv, ResetTimer, TimerTypes, Timers
  <2>4. QED
    BY <2>2, <2>3, StatusRests
<1>8. ASSUME NEW r \in Requests, BeginAct(r) PROVE StatusInv'
  <2>1. PICK c \in Due(row) : Enter(r, [at |-> "act", checkpoint |-> c])
    BY <1>8 DEF BeginAct
  <2>2. UNCHANGED <<timer, countdowns, row>> /\ row.status = "running"
    BY <1>8 DEF BeginAct, Due
  <2> DEFINE step == [at |-> "act", checkpoint |-> c]
  <2>3. step.at = "act"
    OBVIOUS
  <2> HIDE DEF step
  <2>4. /\ requests'[r].at = "act" /\ \A q \in Requests : q # r => requests'[q].at = "free"
        /\ \A q \in Requests : requests[q].at = "free"
        /\ \A s \in Slots : countdowns[s].at \notin Busy
    BY <2>1, <2>2, <2>3, Entered DEF step
  <2>5. timer.running => Alive(timer)'
    BY <2>2, <2>4 DEF StatusInv, At, Alive
  <2>6. QED
    BY <2>2, <2>4, <2>5 DEF StatusInv, At, Counting
<1>9. ASSUME NEW r \in Requests, FinishAct(r) PROVE StatusInv'
  <2>1. requests[r].at = "act" /\ Done(r) /\ timer' = PausedTimer(timer) /\ UNCHANGED countdowns
    BY <1>9 DEF FinishAct, Trigger
  <2>2. /\ \A q \in Requests : requests'[q].at = "free"
        /\ \A q \in Requests : requests[q].at # "resumed"
        /\ \A s \in Slots : countdowns'[s].at # "exit"
    BY <2>1, Finished, OnlyRequest
  <2>3. /\ timer'.running => timer'.paused /\ Alive(timer)'
        /\ timer'.paused <=> timer'.pausedAt # Never
    BY <2>1, <2>2, PauseAlive
  <2>4. QED
    BY <2>2, <2>3, StatusRests
<1>10. ASSUME NEW r \in Requests, FinishSubmit(r) PROVE StatusInv'
  <2>1. requests[r].at \in {"resume", "submit"} /\ requests[r].at # "free" /\ requests[r].at # "resumed"
    BY <1>10 DEF FinishSubmit
  <2>2. CASE ResumeClock(r) /\ Humans \subseteq requests[r].submitted
    <3>1. row'.status = "running"
      BY <1>10, <2>2 DEF FinishSubmit, TimerTypes, Rows
    <3>2. QED
      BY <2>1, <2>2, <3>1, ResumeAlive
  <2>3. CASE Done(r) /\ UNCHANGED <<row, timer, countdowns>>
    <3>1. /\ \A q \in Requests : requests'[q].at = "free"
          /\ \A q \in Requests : q # r => requests[q].at = "free"
          /\ \A s \in Slots : countdowns[s].at \notin Busy
      BY <2>1, <2>3, Finished, OnlyRequest
    <3>2. requests[r].at = "submit"
      BY <1>10 DEF FinishSubmit
    <3>3. timer.running => Alive(timer)'
      BY <2>3, <3>1, <3>2 DEF StatusInv, At, Alive
    <3>4. timer.running /\ ~timer.paused => row.status = "running"
      BY <3>1, <3>2 DEF StatusInv, At, Counting
    <3>5. timer.paused <=> timer.pausedAt # Never
      BY <3>1, <3>2 DEF StatusInv, At
    <3>6. QED
      BY <2>3, <3>1, <3>3, <3>4, <3>5, StatusRests
  <2>4. QED
    BY <1>10, <2>2, <2>3 DEF FinishSubmit
<1>11. ASSUME NEW r \in Requests, NEW p \in Humans, BeginSubmit(r, p) PROVE StatusInv'
  <2> DEFINE step == [at |-> "submit", submitted |-> row.submitted \cup {p}]
  <2>1. Enter(r, step) /\ UNCHANGED <<timer, countdowns>> /\ row'.status = row.status /\ step.at = "submit"
    BY <1>11 DEF BeginSubmit, TimerTypes, Rows
  <2> HIDE DEF step
  <2>2. /\ requests'[r].at = "submit" /\ \A q \in Requests : q # r => requests'[q].at = "free"
        /\ \A q \in Requests : requests[q].at = "free"
        /\ \A s \in Slots : countdowns[s].at \notin Busy
    BY <2>1, Entered
  <2>3. timer.running => Alive(timer)'
    BY <2>1, <2>2 DEF StatusInv, At, Alive
  <2>4. timer.running /\ ~timer.paused => row.status = "running"
    BY <2>2 DEF StatusInv, At, Counting
  <2>5. QED
    BY <2>1, <2>2, <2>3, <2>4 DEF StatusInv, At, Counting
<1>12. ASSUME NEW s \in Slots, Look(s) PROVE StatusInv'
  <2>1. UNCHANGED <<row, requests>>
    BY <1>12 DEF Look
  <2>2. CASE ~timer.running /\ UNCHANGED timer /\ countdowns' = [countdowns EXCEPT ![s].at = "exit"]
    <3>1. \A u \in Slots : countdowns'[u] = Dead => countdowns[u] = Dead
      BY <2>2 DEF TimerTypes, Countdowns, Dead
    <3>2. QED
      BY <2>1, <2>2, <3>1, StatusSame
  <2>3. CASE timer.running /\ (\E n : timer' = [timer EXCEPT !.left = n])
             /\ \E at \in {"tell", "check"} : countdowns' = [countdowns EXCEPT ![s].at = at]
    <3>1. timer'.running = timer.running /\ timer'.paused = timer.paused /\ timer'.thread = timer.thread
          /\ timer'.pausedAt = timer.pausedAt
      BY <2>3 DEF TimerTypes, Timers
    <3>2. /\ \A u \in Slots : countdowns'[u] = Dead => countdowns[u] = Dead
          /\ \A u \in Slots : countdowns'[u].at = "exit" => countdowns[u].at = "exit"
      BY <2>3 DEF TimerTypes, Countdowns, Dead
    <3>3. Alive(timer) => Alive(timer)'
      BY <3>1, <3>2 DEF Alive, TimerTypes, Timers
    <3>4. QED
      BY <2>1, <3>1, <3>2, <3>3 DEF StatusInv, At, Counting
  <2>4. QED
    BY <1>12, <2>2, <2>3 DEF Look
<1>13. ASSUME NEW s \in Slots, Tell(s) PROVE StatusInv'
  <2>1. UNCHANGED <<timer, requests>> /\ row'.status = row.status
    BY <1>13 DEF Tell, TimerTypes, Rows
  <2>2. \A u \in Slots : u # s => countdowns'[u] = countdowns[u]
    BY <1>13 DEF Tell, TimerTypes
  <2>3. countdowns'[s].at \in {"check", "ask"}
    BY <1>13 DEF Tell, TimerTypes, Countdowns
  <2>4. QED
    BY <2>1, <2>2, <2>3, StatusSame DEF Dead
<1>14. ASSUME NEW s \in Slots, Ask(s) PROVE StatusInv'
  <2>1. countdowns[s].at = "ask" /\ UNCHANGED requests /\ timer' = PausedTimer(timer)
        /\ countdowns' = [countdowns EXCEPT ![s] = [at |-> "check", ask |-> 0]]
    BY <1>14 DEF Ask, Trigger
  <2>2. /\ \A q \in Requests : requests[q].at = "free"
        /\ \A u \in Slots : u # s => countdowns[u].at \notin Busy
    BY <2>1, OnlyThread
  <2>3. \A u \in Slots : countdowns'[u].at # "exit" /\ (countdowns'[u] = Dead => countdowns[u] = Dead)
    BY <2>1, <2>2 DEF TimerTypes, Dead
  <2>4. /\ timer'.running => timer'.paused /\ Alive(timer)'
        /\ timer'.paused <=> timer'.pausedAt # Never
    BY <2>1, <2>2, <2>3, PauseAlive
  <2>5. QED
    BY <2>1, <2>2, <2>3, <2>4, StatusRests
<1>15. ASSUME NEW s \in Slots, Check(s) PROVE StatusInv'
  <2>1. UNCHANGED <<timer, requests, row>>
    BY <1>15 DEF Check
  <2>2. \A u \in Slots : u # s => countdowns'[u] = countdowns[u]
    BY <1>15 DEF Check, TimerTypes
  <2>3. countdowns'[s].at \in {"expire", "top"}
    BY <1>15 DEF Check, TimerTypes, Countdowns
  <2>4. QED
    BY <2>1, <2>2, <2>3, StatusSame DEF Dead
<1>16. ASSUME NEW s \in Slots, Expire(s) PROVE StatusInv'
  <2>1. countdowns[s].at = "expire" /\ UNCHANGED requests /\ timer' = [timer EXCEPT !.running = FALSE]
    BY <1>16 DEF Expire
  <2>2. \A q \in Requests : requests'[q].at = "free"
    BY <2>1, OnlyThread
  <2>3. timer'.running = FALSE /\ timer'.paused = timer.paused /\ timer'.pausedAt = timer.pausedAt
    BY <2>1 DEF TimerTypes, Timers
  <2>4. QED
    BY <2>1, <2>2, <2>3 DEF StatusInv, At, Counting
<1>17. ASSUME NEW s \in Slots, Exit(s) PROVE StatusInv'
  <2>1. countdowns[s].at = "exit" /\ UNCHANGED <<timer, requests, row>> /\ countdowns' = [countdowns EXCEPT ![s] = Dead]
    BY <1>17 DEF Exit
  <2>2. \A u \in Slots : u # s => countdowns'[u] = countdowns[u]
    BY <2>1 DEF TimerTypes
  <2>3. countdowns'[s] = Dead
    BY <2>1 DEF TimerTypes
  <2>4. Dead.at = "dead"
    BY DEF Dead
  <2>5. QED
    BY <2>1, <2>2, <2>3, <2>4, StatusSame
<1>18. CASE RestartTimer
  BY <1>18, StatusRests DEF RestartTimer, NoTimer, NoRequest, Dead
<1>19. QED
  BY <1>1, <1>2, <1>3, <1>4, <1>5, <1>6, <1>7, <1>8, <1>9, <1>10, <1>11, <1>12, <1>13, <1>14,
     <1>15, <1>16, <1>17, <1>18 DEF TimerStep

-----------------------------------------------------------------------------
(* A checkpoint is asked once and answered by all.                           *)

(* The popup is what it was, and no action, answer or thread that asks is    *)
(* new.                                                                      *)
LEMMA PopupSame ==
  ASSUME AskInv, AnswerInv, UNCHANGED <<asked, answered>>,
         row'.annotating = row.annotating, row'.checkpoint = row.checkpoint,
         row'.submitted = row.submitted, row'.triggered = row.triggered,
         \A q \in Requests : requests'[q].at \in {"act", "submit"} => requests'[q] = requests[q],
         \A u \in Slots : countdowns'[u].at = "ask" => countdowns[u].at = "ask" /\ countdowns'[u].ask = countdowns[u].ask
  PROVE  AskInv' /\ AnswerInv'
<1>1. AskInv'
  BY DEF AskInv
<1>2. AnswerInv'
  BY DEF AnswerInv
<1>3. QED
  BY <1>1, <1>2

(* What ends a request leaves of the others.                                 *)
LEMMA DoneSame ==
  ASSUME TimerTypes, NEW r \in Requests, Done(r)
  PROVE  \A q \in Requests : requests'[q].at \in {"act", "submit"} => requests'[q] = requests[q]
  BY DEF Done, TimerTypes, NoRequest

LEMMA ResumeSame ==
  ASSUME TimerTypes, NEW r \in Requests, requests[r].at \in {"resume", "submit"}, ResumeClock(r)
  PROVE  /\ \A q \in Requests : requests'[q].at \in {"act", "submit"} => requests'[q] = requests[q]
         /\ requests'[r].at \in {"free", "resumed"}
<1>1. requests[r] \in Requested
  BY DEF TimerTypes
<1>2. [requests[r] EXCEPT !.at = "resumed"].at = "resumed"
  BY <1>1 DEF Requested
<1>3. GoTo(r, "resumed") \/ Done(r)
  BY DEF ResumeClock
<1>4. CASE GoTo(r, "resumed")
  <2>1. \A q \in Requests : q # r => requests'[q] = requests[q]
    BY <1>4 DEF GoTo, TimerTypes
  <2>2. requests'[r].at = "resumed"
    BY <1>2, <1>4 DEF GoTo, TimerTypes
  <2>3. QED
    BY <2>1, <2>2
<1>5. CASE Done(r)
  BY <1>5, DoneSame DEF Done, TimerTypes, NoRequest
<1>6. QED
  BY <1>3, <1>4, <1>5

(* A thread that is started asks nothing.                                    *)
LEMMA EnsureThreads ==
  ASSUME TimerTypes, NEW t, EnsureThread(t)
  PROVE  \A u \in Slots : countdowns'[u].at = "ask" => countdowns[u].at = "ask" /\ countdowns'[u].ask = countdowns[u].ask
<1>1. UNCHANGED countdowns \/ \E s \in Slots : countdowns' = [countdowns EXCEPT ![s].at = "top"]
  BY DEF EnsureThread
<1>2. QED
  BY <1>1 DEF TimerTypes, Countdowns

LEMMA ClockThreads ==
  ASSUME TimerTypes, NEW t, StartClock(t) \/ UNCHANGED countdowns
  PROVE  \A u \in Slots : countdowns'[u].at = "ask" => countdowns[u].at = "ask" /\ countdowns'[u].ask = countdowns[u].ask
<1> DEFINE u == [t EXCEPT !.lost = @ + IF t.paused THEN PauseTime(t) ELSE 0,
                          !.pausedAt = IF t.paused THEN Never ELSE @,
                          !.startedAt = IF @ = Never THEN clock ELSE @,
                          !.running = TRUE, !.paused = FALSE]
<1>1. UNCHANGED countdowns \/ EnsureThread(u)
  BY DEF StartClock
<1> HIDE DEF u
<1>2. QED
  BY <1>1, EnsureThreads

LEMMA TriggerAsks ==
  ASSUME TimerTypes, AskInv, AnswerInv, NEW c \in All, c \notin row.triggered, ~row.annotating,
         Trigger(c), UNCHANGED answered,
         \A q \in Requests : requests'[q].at \notin {"act", "submit"},
         \A u \in Slots : countdowns'[u].at # "ask"
  PROVE  AskInv' /\ AnswerInv'
<1>1. /\ row'.annotating = TRUE /\ row'.checkpoint = c /\ row'.submitted = {}
      /\ row'.triggered = row.triggered \cup {c}
      /\ asked' = [asked EXCEPT ![c] = @ + 1]
  BY DEF Trigger, TimerTypes, Rows
<1>2. \A d \in row.triggered : Humans \subseteq answered[d]
  BY WindowsCounted DEF AnswerInv, TimerTypes, Rows
<1>3. \A d \in All : asked'[d] = IF d \in row'.triggered THEN 1 ELSE 0
  BY <1>1 DEF AskInv, TimerTypes
<1>4. QED
  BY <1>1, <1>2, <1>3 DEF AskInv, AnswerInv

LEMMA PopupStays ==
  ASSUME TimerTypes, TimerTypes', OneParty, OneParty', AskInv, AnswerInv, TimerStep
  PROVE  AskInv' /\ AnswerInv'
<1> DEFINE Popup == AskInv /\ AnswerInv
<1> USE DEF Busy
<1>1. CASE Tick
  BY <1>1, PopupSame DEF Tick
<1>2. ASSUME NEW r \in Requests, NEW op, NEW status, Control(r, op, status),
             op \in {"start", "start_delayed", "resume", "pause", "reset"}
      PROVE  Popup'
  <2>1. UNCHANGED <<asked, answered, countdowns>> /\ row' = [row EXCEPT !.status = status]
        /\ requests' = [requests EXCEPT ![r] = [at |-> op]]
    BY <1>2 DEF Control, SetStatus, Enter
  <2>2. row'.annotating = row.annotating /\ row'.checkpoint = row.checkpoint
        /\ row'.submitted = row.submitted /\ row'.triggered = row.triggered
    BY <2>1 DEF TimerTypes, Rows
  <2>3. \A q \in Requests : requests'[q].at \in {"act", "submit"} => requests'[q] = requests[q]
    BY <1>2, <2>1 DEF TimerTypes
  <2>4. QED
    BY <2>1, <2>2, <2>3, PopupSame
<1>3. ASSUME NEW r \in Requests, FinishStart(r) PROVE Popup'
  <2>1. UNCHANGED <<asked, answered>> /\ row'.annotating = row.annotating /\ row'.checkpoint = row.checkpoint
        /\ row'.submitted = row.submitted /\ row'.triggered = row.triggered /\ Done(r)
    BY <1>3 DEF FinishStart, TimerTypes, Rows
  <2> DEFINE t == IF timer.made THEN timer ELSE NewTimer
  <2>2. StartClock(t) \/ UNCHANGED countdowns
    BY <1>3 DEF FinishStart
  <2> HIDE DEF t
  <2>3. \A u \in Slots : countdowns'[u].at = "ask" => countdowns[u].at = "ask" /\ countdowns'[u].ask = countdowns[u].ask
    BY <2>2, ClockThreads
  <2>4. QED
    BY <2>1, <2>3, DoneSame, PopupSame
<1>4. ASSUME NEW r \in Requests, FinishPause(r) PROVE Popup'
  <2>1. UNCHANGED <<asked, answered, countdowns, row>> /\ Done(r)
    BY <1>4 DEF FinishPause
  <2>2. QED
    BY <2>1, DoneSame, PopupSame
<1>5. ASSUME NEW r \in Requests, Resume(r) PROVE Popup'
  <2>1. UNCHANGED <<asked, answered, row>> /\ requests[r].at \in {"resume", "submit"}
    BY <1>5 DEF Resume
  <2>2. \A q \in Requests : requests'[q].at \in {"act", "submit"} => requests'[q] = requests[q]
    <3>1. ResumeClock(r) \/ Done(r)
      BY <1>5 DEF Resume
    <3>2. QED
      BY <2>1, <3>1, ResumeSame, DoneSame
  <2>3. \A u \in Slots : countdowns'[u].at = "ask" => countdowns[u].at = "ask" /\ countdowns'[u].ask = countdowns[u].ask
    <3>1. UNCHANGED countdowns \/ StartClock(timer) \/ StartClock(NewTimer)
      BY <1>5 DEF Resume, ResumeClock
    <3>2. QED
      BY <3>1, ClockThreads
  <2>4. QED
    BY <2>1, <2>2, <2>3, PopupSame
<1>6. ASSUME NEW r \in Requests, FinishResume(r) PROVE Popup'
  <2> DEFINE t == [timer EXCEPT !.lost = @ + PauseTime(timer), !.pausedAt = Never]
  <2>1. UNCHANGED <<asked, answered, row>> /\ Done(r) /\ EnsureThread(t)
    BY <1>6 DEF FinishResume
  <2> HIDE DEF t
  <2>2. \A u \in Slots : countdowns'[u].at = "ask" => countdowns[u].at = "ask" /\ countdowns'[u].ask = countdowns[u].ask
    BY <2>1, EnsureThreads
  <2>3. QED
    BY <2>1, <2>2, DoneSame, PopupSame
<1>7. ASSUME NEW r \in Requests, FinishReset(r) PROVE Popup'
  <2>1. UNCHANGED <<asked, answered, countdowns>> /\ row'.annotating = row.annotating /\ row'.checkpoint = row.checkpoint
        /\ row'.submitted = row.submitted /\ row'.triggered = row.triggered /\ Done(r)
    BY <1>7 DEF FinishReset, TimerTypes, Rows
  <2>2. QED
    BY <2>1, DoneSame, PopupSame
<1>8. ASSUME NEW r \in Requests, BeginAct(r) PROVE Popup'
  <2>1. PICK c \in Due(row) : Enter(r, [at |-> "act", checkpoint |-> c])
    BY <1>8 DEF BeginAct
  <2>2. UNCHANGED <<countdowns, row, asked, answered>>
    BY <1>8 DEF BeginAct
  <2> DEFINE step == [at |-> "act", checkpoint |-> c]
  <2>3. step.at = "act" /\ step.checkpoint = c /\ c \notin row.triggered /\ ~row.annotating
    BY DueIs
  <2> HIDE DEF step
  <2>4. /\ requests'[r] = step /\ \A q \in Requests : q # r => requests'[q].at = "free"
        /\ \A s \in Slots : countdowns[s].at \notin Busy
    BY <2>1, <2>2, <2>3, Entered DEF step
  <2>5. QED
    BY <2>2, <2>3, <2>4 DEF AskInv, AnswerInv
<1>9. ASSUME NEW r \in Requests, FinishAct(r) PROVE Popup'
  <2> DEFINE c == requests[r].checkpoint
  <2>1. requests[r].at = "act" /\ Done(r) /\ Trigger(c) /\ UNCHANGED <<countdowns, answered>>
    BY <1>9 DEF FinishAct
  <2>2. c \in All /\ c \notin row.triggered /\ ~row.annotating
    BY <2>1, NamesCheckpoint DEF AskInv
  <2>3. /\ \A q \in Requests : requests'[q].at = "free"
        /\ \A s \in Slots : countdowns[s].at \notin Busy
    BY <2>1, Finished, OnlyRequest
  <2> HIDE DEF c
  <2>4. QED
    BY <2>1, <2>2, <2>3, TriggerAsks
<1>10. ASSUME NEW r \in Requests, FinishSubmit(r) PROVE Popup'
  <2>1. requests[r].at = "submit" /\ UNCHANGED <<asked, answered>>
    BY <1>10 DEF FinishSubmit
  <2>2. requests[r].at \in {"resume", "submit"}
    BY <2>1
  <2>3. CASE ResumeClock(r) /\ Humans \subseteq requests[r].submitted
    <3>1. row'.annotating = FALSE /\ row'.checkpoint = 0 /\ row'.submitted = {} /\ row'.triggered = row.triggered
      BY <1>10, <2>3 DEF FinishSubmit, TimerTypes, Rows
    <3>2. /\ \A q \in Requests : q # r => requests[q].at = "free"
          /\ \A s \in Slots : countdowns[s].at \notin Busy
      BY <2>1, OnlyRequest
    <3>3. \A q \in Requests : requests'[q].at \notin {"act", "submit"}
      BY <2>2, <2>3, <3>2, ResumeSame
    <3>4. \A u \in Slots : countdowns'[u].at # "ask"
      <4>1. UNCHANGED countdowns \/ StartClock(timer)
        BY <2>3 DEF ResumeClock
      <4>2. QED
        BY <3>2, <4>1, ClockThreads
    <3>5. Humans \subseteq answered[row.checkpoint]
      BY <2>1, <2>3 DEF AnswerInv
    <3>6. AskInv'
      BY <2>1, <3>1, <3>3, <3>4 DEF AskInv
    <3>7. AnswerInv'
      BY <2>1, <3>1, <3>3, <3>5 DEF AnswerInv
    <3>8. QED
      BY <3>6, <3>7
  <2>4. CASE Done(r) /\ UNCHANGED <<row, timer, countdowns>>
    BY <2>1, <2>4, DoneSame, PopupSame
  <2>5. QED
    BY <1>10, <2>3, <2>4 DEF FinishSubmit
<1>11. ASSUME NEW r \in Requests, NEW p \in Humans, BeginSubmit(r, p) PROVE Popup'
  <2> DEFINE submitted == row.submitted \cup {p}
             step == [at |-> "submit", submitted |-> submitted]
  <2>1. /\ Enter(r, step) /\ UNCHANGED <<countdowns, asked>> /\ row.annotating /\ row.checkpoint \in All
        /\ step.at = "submit" /\ step.submitted = submitted
        /\ answered' = [answered EXCEPT ![row.checkpoint] = @ \cup {p}]
    BY <1>11, WindowsCounted DEF BeginSubmit, TimerTypes, Rows
  <2>2. row'.annotating = row.annotating /\ row'.checkpoint = row.checkpoint
        /\ row'.submitted = submitted /\ row'.triggered = row.triggered
    BY <1>11 DEF BeginSubmit, TimerTypes, Rows
  <2>3. row.submitted \subseteq answered[row.checkpoint]
    BY <2>1 DEF AnswerInv
  <2>4. /\ submitted \subseteq answered'[row.checkpoint]
        /\ \A d \in All : answered[d] \subseteq answered'[d]
    BY <2>1, <2>3 DEF TimerTypes
  <2> HIDE DEF submitted, step
  <2>5. /\ requests'[r] = step /\ \A q \in Requests : q # r => requests'[q].at = "free"
        /\ \A s \in Slots : countdowns[s].at \notin Busy
    BY <2>1, Entered
  <2>6. AskInv'
    BY <2>1, <2>2, <2>5 DEF AskInv
  <2>7. AnswerInv'
    <3>1. \A d \in row'.triggered : d = row'.checkpoint \/ Humans \subseteq answered'[d]
      BY <2>2, <2>4 DEF AnswerInv, TimerTypes, Rows
    <3>2. QED
      BY <2>1, <2>2, <2>4, <2>5, <3>1 DEF AnswerInv
  <2>8. QED
    BY <2>6, <2>7
<1>12. ASSUME NEW s \in Slots, Look(s) PROVE Popup'
  <2>1. UNCHANGED <<asked, answered, row, requests>>
    BY <1>12 DEF Look
  <2>2. \A u \in Slots : countdowns'[u].at = "ask" => countdowns'[u] = countdowns[u]
    BY <1>12 DEF Look, TimerTypes, Countdowns
  <2>3. QED
    BY <2>1, <2>2, PopupSame
<1>13. ASSUME NEW s \in Slots, Tell(s) PROVE Popup'
  <2>1. UNCHANGED <<asked, answered, requests>> /\ row'.annotating = row.annotating /\ row'.checkpoint = row.checkpoint
        /\ row'.submitted = row.submitted /\ row'.triggered = row.triggered
    BY <1>13 DEF Tell, TimerTypes, Rows
  <2>2. CASE countdowns' = [countdowns EXCEPT ![s].at = "check"]
    <3>1. \A u \in Slots : countdowns'[u].at = "ask" => countdowns'[u] = countdowns[u]
      BY <2>2 DEF TimerTypes, Countdowns
    <3>2. QED
      BY <2>1, <3>1, PopupSame
  <2>3. ASSUME NEW c \in Due(row'), countdowns' = [countdowns EXCEPT ![s] = [at |-> "ask", ask |-> c]]
        PROVE  Popup'
    <3>1. c \notin row'.triggered /\ ~row'.annotating
      BY DueIs
    <3>2. /\ \A u \in Slots : u # s => countdowns'[u] = countdowns[u]
          /\ countdowns'[s].ask = c
      BY <2>3 DEF TimerTypes
    <3>3. AskInv'
      BY <2>1, <3>1, <3>2 DEF AskInv
    <3>4. AnswerInv'
      BY <2>1 DEF AnswerInv
    <3>5. QED
      BY <3>3, <3>4
  <2>4. QED
    BY <1>13, <2>2, <2>3 DEF Tell
<1>14. ASSUME NEW s \in Slots, Ask(s) PROVE Popup'
  <2> DEFINE c == countdowns[s].ask
  <2>1. countdowns[s].at = "ask" /\ UNCHANGED <<requests, answered>> /\ Trigger(c)
        /\ countdowns' = [countdowns EXCEPT ![s] = [at |-> "check", ask |-> 0]]
    BY <1>14 DEF Ask
  <2>2. c \in All /\ c \notin row.triggered /\ ~row.annotating
    BY <2>1, NamesCheckpoint DEF AskInv
  <2>3. /\ \A q \in Requests : requests[q].at = "free"
        /\ \A u \in Slots : u # s => countdowns[u].at \notin Busy
    BY <2>1, OnlyThread
  <2>4. \A u \in Slots : countdowns'[u].at # "ask"
    BY <2>1, <2>3 DEF TimerTypes
  <2> HIDE DEF c
  <2>5. QED
    BY <2>1, <2>2, <2>3, <2>4, TriggerAsks
<1>15. ASSUME NEW s \in Slots, Check(s) PROVE Popup'
  <2>1. UNCHANGED <<asked, answered, row, requests>>
    BY <1>15 DEF Check
  <2>2. \A u \in Slots : countdowns'[u].at = "ask" => countdowns'[u] = countdowns[u]
    BY <1>15 DEF Check, TimerTypes, Countdowns
  <2>3. QED
    BY <2>1, <2>2, PopupSame
<1>16. ASSUME NEW s \in Slots, Expire(s) PROVE Popup'
  <2>1. UNCHANGED <<asked, answered, requests>> /\ row'.annotating = row.annotating /\ row'.checkpoint = row.checkpoint
        /\ row'.submitted = row.submitted /\ row'.triggered = row.triggered
    BY <1>16 DEF Expire, TimerTypes, Rows
  <2>2. \A u \in Slots : countdowns'[u].at = "ask" => countdowns'[u] = countdowns[u]
    BY <1>16 DEF Expire, TimerTypes, Countdowns
  <2>3. QED
    BY <2>1, <2>2, PopupSame
<1>17. ASSUME NEW s \in Slots, Exit(s) PROVE Popup'
  <2>1. UNCHANGED <<asked, answered, row, requests>>
    BY <1>17 DEF Exit
  <2>2. \A u \in Slots : countdowns'[u].at = "ask" => countdowns'[u] = countdowns[u]
    BY <1>17 DEF Exit, TimerTypes, Dead
  <2>3. QED
    BY <2>1, <2>2, PopupSame
<1>18. CASE RestartTimer
  BY <1>18, PopupSame DEF RestartTimer, NoRequest, Dead
<1>19. QED
  BY <1>1, <1>2, <1>3, <1>4, <1>5, <1>6, <1>7, <1>8, <1>9, <1>10, <1>11, <1>12, <1>13, <1>14,
     <1>15, <1>16, <1>17, <1>18 DEF TimerStep

-----------------------------------------------------------------------------
(* No early end: the clock has run for what the timer makes of it.           *)

NoneExpires == \A s \in Slots : countdowns[s].at # "expire"

LEMMA RanSame ==
  ASSUME RanInv, UNCHANGED <<ran, clock, expiredEarly>>, SameClock(timer),
         \A s \in Slots : countdowns'[s].at = "expire" => countdowns[s].at = "expire"
  PROVE  RanInv'
  BY DEF RanInv, SameClock, Until

(* A clock that was started, with what it has run.                           *)
LEMMA RanStart ==
  ASSUME TimerTypes, ClockInv, StatusInv, RanInv, NEW t \in Timers, StartClock(t),
         (t = timer /\ ran' = ran) \/ (t = NewTimer /\ ran' = 0), UNCHANGED <<clock, expiredEarly>>,
         \A q \in Requests : requests[q].at # "resumed", NoneExpires
  PROVE  RanInv'
<1>1. /\ t.pausedAt # Never => t.pausedAt <= clock
      /\ t.startedAt = Never => t.lost = 0 /\ t.pausedAt = Never
      /\ t.paused <=> t.pausedAt # Never
      /\ ran' \in Nat
      /\ ran' < Duration /\ t.startedAt # Never =>
            /\ t.running \/ t.pausedAt # Never
            /\ ran' >= ((IF t.pausedAt = Never THEN clock ELSE t.pausedAt) - t.startedAt) - t.lost
      /\ t.left + ran' >= Duration
  <2>1. CASE t = timer /\ ran' = ran
    BY <2>1 DEF TimerTypes, ClockInv, StatusInv, At, RanInv, Until
  <2>2. CASE t = NewTimer /\ ran' = 0
    BY <2>2, Bounds DEF NewTimer, NoTimer
  <2>3. QED
    BY <2>1, <2>2
<1>2. /\ timer' \in Timers /\ timer'.running /\ timer'.left = t.left /\ ThreadsStay
      /\ t.running => timer' = t
      /\ ~t.running =>
               /\ timer'.startedAt = IF t.startedAt = Never THEN clock ELSE t.startedAt
               /\ timer'.lost = t.lost + IF t.paused /\ t.pausedAt # Never THEN clock - t.pausedAt ELSE 0
               /\ timer'.pausedAt = IF t.paused THEN Never ELSE t.pausedAt
  BY <1>1, ClockStarted
<1>3. clock \in Nat
  BY DEF TimerTypes
<1>4. \A s \in Slots : countdowns'[s].at # "expire"
  BY <1>2 DEF ThreadsStay, NoneExpires
<1>5. ~expiredEarly
  BY DEF RanInv
<1>6. timer'.left + ran' >= Duration
  BY <1>1, <1>2
<1>7. ran' < Duration /\ timer'.startedAt # Never =>
        ran' >= ((IF timer'.pausedAt = Never THEN clock ELSE timer'.pausedAt) - timer'.startedAt) - timer'.lost
  <2>1. CASE t.running
    BY <1>1, <1>2, <2>1
  <2>2. CASE ~t.running
    BY <1>1, <1>2, <1>3, <2>2 DEF Timers, Never
  <2>3. QED
    BY <2>1, <2>2
<1>8. QED
  BY <1>2, <1>4, <1>5, <1>6, <1>7 DEF RanInv, Until

LEMMA RanPause ==
  ASSUME TimerTypes, ClockInv, StatusInv, RanInv, timer' = PausedTimer(timer),
         UNCHANGED <<ran, clock, expiredEarly>>,
         \A q \in Requests : requests[q].at # "resumed",
         \A s \in Slots : countdowns'[s].at = "expire" => countdowns[s].at = "expire"
  PROVE  RanInv'
<1>1. timer \in Timers /\ clock \in Nat /\ ran \in Nat
  BY DEF TimerTypes
<1>2. timer.paused <=> timer.pausedAt # Never
  BY DEF StatusInv, At
<1>3. /\ timer'.pausedAt = IF timer.running /\ ~timer.paused THEN clock ELSE timer.pausedAt
      /\ timer'.running = timer.running /\ timer'.startedAt = timer.startedAt
      /\ timer'.lost = timer.lost /\ timer'.left = timer.left
  BY <1>1, ClockPaused
<1>4. QED
  BY <1>1, <1>2, <1>3 DEF RanInv, Until, Never

LEMMA RanResume ==
  ASSUME TimerTypes, ClockInv, OneParty, StatusInv, RanInv, NEW r \in Requests,
         requests[r].at \in {"resume", "submit"}, ResumeClock(r), UNCHANGED <<ran, clock, expiredEarly>>
  PROVE  RanInv'
<1>1. /\ \A q \in Requests : requests[q].at # "resumed"
      /\ NoneExpires
  BY OnlyRequest DEF Busy, NoneExpires
<1>2. timer \in Timers
  BY DEF TimerTypes
<1>3. CASE timer.made /\ timer.paused
  <2>1. timer' = [timer EXCEPT !.paused = FALSE, !.running = TRUE] /\ UNCHANGED countdowns
    BY <1>3 DEF ResumeClock
  <2>2. /\ timer'.running /\ timer'.pausedAt = timer.pausedAt /\ timer'.startedAt = timer.startedAt
        /\ timer'.lost = timer.lost /\ timer'.left = timer.left
    BY <1>2, <2>1 DEF Timers
  <2>3. QED
    BY <2>1, <2>2 DEF RanInv, Until
<1>4. CASE timer.made /\ ~timer.paused
  <2>1. StartClock(timer)
    BY <1>4 DEF ResumeClock
  <2>2. QED
    BY <1>1, <1>2, <2>1, RanStart
<1>5. CASE ~timer.made
  <2>1. UNCHANGED <<timer, countdowns>>
    BY <1>5 DEF ResumeClock
  <2>2. QED
    BY <2>1, RanSame DEF SameClock
<1>6. QED
  BY <1>3, <1>4, <1>5

LEMMA RanStays ==
  ASSUME TimerTypes, TimerTypes', ClockInv, OneParty, StatusInv, RanInv, TimerStep, ~torn'
  PROVE  RanInv'
<1> USE DEF Busy
<1>1. CASE Tick
  <2>1. clock' = clock + 1 /\ ran' = (IF timer.running /\ ~timer.paused THEN ran + 1 ELSE ran)
        /\ UNCHANGED <<timer, countdowns, expiredEarly>>
    BY <1>1 DEF Tick
  <2>2. timer \in Timers /\ clock \in Nat /\ ran \in Nat
    BY DEF TimerTypes
  <2>3. timer.paused => timer.pausedAt # Never
    BY DEF StatusInv
  <2>4. timer.startedAt \in Nat \cup {Never} /\ timer.pausedAt \in Nat \cup {Never} /\ timer.lost \in Nat
        /\ timer.left \in Nat /\ Duration \in Nat
    BY <2>2, Bounds DEF Timers
  <2>5. ran' \in Nat /\ ran <= ran'
    BY <2>1, <2>2
  <2>6. ASSUME ran' < Duration, timer.startedAt # Never
        PROVE  /\ timer.running \/ timer.pausedAt # Never
               /\ ran' >= (Until' - timer.startedAt) - timer.lost
    <3>1. /\ timer.running \/ timer.pausedAt # Never
          /\ ran >= (Until - timer.startedAt) - timer.lost
      BY <2>2, <2>4, <2>5, <2>6 DEF RanInv
    <3>2. CASE timer.pausedAt = Never
      <4>1. ran' = ran + 1
        BY <2>1, <2>3, <3>1, <3>2
      <4>2. Until = clock /\ Until' = clock + 1
        BY <2>1, <3>2 DEF Until
      <4>3. QED
        BY <2>2, <2>4, <2>6, <3>1, <4>1, <4>2
    <3>3. CASE timer.pausedAt # Never
      <4>1. Until = timer.pausedAt /\ Until' = timer.pausedAt
        BY <2>1, <3>3 DEF Until
      <4>2. QED
        BY <2>2, <2>4, <2>5, <2>6, <3>1, <3>3, <4>1
    <3>4. QED
      BY <3>2, <3>3
  <2>7. timer.left + ran' >= Duration
    BY <2>2, <2>4, <2>5 DEF RanInv
  <2>8. \A s \in Slots : countdowns[s].at = "expire" => ran' >= Duration
    BY <2>2, <2>4, <2>5 DEF RanInv
  <2>9. QED
    BY <2>1, <2>6, <2>7, <2>8 DEF RanInv
<1>2. ASSUME NEW r \in Requests, NEW op, NEW status, Control(r, op, status) PROVE RanInv'
  BY <1>2, RanSame DEF Control, SameClock
<1>3. ASSUME NEW r \in Requests, FinishStart(r) PROVE RanInv'
  <2>1. requests[r].at \in {"start", "start_delayed"} /\ UNCHANGED <<clock, expiredEarly>>
        /\ ran' = IF timer.made THEN ran ELSE 0
    BY <1>3 DEF FinishStart
  <2>2. (\A q \in Requests : requests[q].at # "resumed") /\ NoneExpires
    BY <2>1, OnlyRequest DEF NoneExpires
  <2> DEFINE t == IF timer.made THEN timer ELSE NewTimer
  <2>3. t \in Timers /\ ((t = timer /\ ran' = ran) \/ (t = NewTimer /\ ran' = 0))
    BY <2>1, TimersMade DEF TimerTypes
  <2>4. StartClock(t) \/ (timer' = t /\ UNCHANGED countdowns)
    BY <1>3 DEF FinishStart
  <2> HIDE DEF t
  <2>5. CASE StartClock(t)
    BY <2>1, <2>2, <2>3, <2>5, RanStart
  <2>6. CASE timer' = t /\ UNCHANGED countdowns
    <3>1. CASE t = timer /\ ran' = ran
      BY <2>1, <2>6, <3>1, RanSame DEF SameClock
    <3>2. CASE t = NewTimer /\ ran' = 0
      BY <2>1, <2>2, <2>6, <3>2, Bounds DEF RanInv, NoneExpires, NewTimer, NoTimer
    <3>3. QED
      BY <2>3, <3>1, <3>2
  <2>7. QED
    BY <2>4, <2>5, <2>6
<1>4. ASSUME NEW r \in Requests, FinishPause(r) PROVE RanInv'
  <2>1. requests[r].at = "pause" /\ timer' = PausedTimer(timer) /\ UNCHANGED <<ran, clock, expiredEarly, countdowns>>
    BY <1>4 DEF FinishPause
  <2>2. \A q \in Requests : requests[q].at # "resumed"
    BY <2>1, OnlyRequest
  <2>3. QED
    BY <2>1, <2>2, RanPause
<1>5. ASSUME NEW r \in Requests, Resume(r) PROVE RanInv'
  <2>1. requests[r].at = "resume" /\ UNCHANGED <<clock, expiredEarly>>
    BY <1>5 DEF Resume
  <2>2. CASE timer.made
    <3>1. ResumeClock(r) /\ UNCHANGED ran /\ requests[r].at \in {"resume", "submit"}
      BY <1>5, <2>1, <2>2 DEF Resume
    <3>2. QED
      BY <2>1, <3>1, RanResume
  <2>3. CASE ~timer.made
    <3>1. StartClock(NewTimer) /\ ran' = 0
      BY <1>5, <2>3 DEF Resume
    <3>2. (\A q \in Requests : requests[q].at # "resumed") /\ NoneExpires
      BY <2>1, OnlyRequest DEF NoneExpires
    <3>3. QED
      BY <2>1, <3>1, <3>2, TimersMade, RanStart
  <2>4. QED
    BY <2>2, <2>3
<1>6. ASSUME NEW r \in Requests, FinishResume(r) PROVE RanInv'
  <2> DEFINE t == [timer EXCEPT !.lost = @ + PauseTime(timer), !.pausedAt = Never]
  <2>1. requests[r].at = "resumed" /\ EnsureThread(t) /\ UNCHANGED <<ran, clock, expiredEarly>>
    BY <1>6 DEF FinishResume
  <2>2. PauseTime(timer) = (IF timer.pausedAt = Never THEN 0 ELSE clock - timer.pausedAt) /\ PauseTime(timer) \in Nat
    BY DEF TimerTypes, PauseTime, ClockInv, Timers
  <2>3. t \in Timers
    <3>1. timer.lost + PauseTime(timer) \in Nat
      BY <2>2 DEF TimerTypes, Timers
    <3>2. QED
      BY <3>1 DEF TimerTypes, Timers
  <2>4. t.lost = timer.lost + PauseTime(timer) /\ t.pausedAt = Never /\ t.startedAt = timer.startedAt
        /\ t.running = timer.running /\ t.left = timer.left
    BY DEF TimerTypes, Timers
  <2> HIDE DEF t
  <2>5. timer'.running = t.running /\ timer'.pausedAt = t.pausedAt /\ timer'.startedAt = t.startedAt
        /\ timer'.lost = t.lost /\ timer'.left = t.left /\ ThreadsStay
    BY <2>1, <2>3, Ensured
  <2>6. timer.running /\ NoneExpires
    BY <2>1, OnlyRequest DEF StatusInv, At, NoneExpires
  <2>7. \A s \in Slots : countdowns'[s].at # "expire"
    BY <2>5, <2>6 DEF ThreadsStay, NoneExpires
  <2>8. timer.lost \in Nat /\ clock \in Nat /\ ran \in Nat
        /\ timer.startedAt \in Nat \cup {Never} /\ timer.pausedAt \in Nat \cup {Never}
    BY DEF TimerTypes, Timers
  <2>9. QED
    BY <2>1, <2>2, <2>4, <2>5, <2>6, <2>7, <2>8 DEF RanInv, Until, Never
<1>7. ASSUME NEW r \in Requests, FinishReset(r) PROVE RanInv'
  <2>1. requests[r].at = "reset" /\ UNCHANGED <<countdowns, expiredEarly>> /\ ran' = 0
        /\ timer' = IF timer.made THEN ResetTimer(timer) ELSE timer
    BY <1>7 DEF FinishReset
  <2>2. NoneExpires
    BY <2>1, OnlyRequest DEF NoneExpires
  <2>3. timer'.startedAt = Never /\ timer'.left = Duration
    BY <2>1 DEF ClockInv, ResetTimer, TimerTypes, Timers
  <2>4. QED
    BY <2>1, <2>2, <2>3, Bounds DEF RanInv, NoneExpires
<1>8. ASSUME NEW r \in Requests, BeginAct(r) PROVE RanInv'
  BY <1>8, RanSame DEF BeginAct, SameClock
<1>9. ASSUME NEW r \in Requests, FinishAct(r) PROVE RanInv'
  <2>1. requests[r].at = "act" /\ timer' = PausedTimer(timer) /\ UNCHANGED <<ran, clock, expiredEarly, countdowns>>
    BY <1>9 DEF FinishAct, Trigger
  <2>2. \A q \in Requests : requests[q].at # "resumed"
    BY <2>1, OnlyRequest
  <2>3. QED
    BY <2>1, <2>2, RanPause
<1>10. ASSUME NEW r \in Requests, FinishSubmit(r) PROVE RanInv'
  <2>1. requests[r].at \in {"resume", "submit"} /\ UNCHANGED <<ran, clock, expiredEarly>>
    BY <1>10 DEF FinishSubmit
  <2>2. CASE ResumeClock(r)
    BY <2>1, <2>2, RanResume
  <2>3. CASE UNCHANGED <<timer, countdowns>>
    BY <2>1, <2>3, RanSame DEF SameClock
  <2>4. QED
    BY <1>10, <2>2, <2>3 DEF FinishSubmit
<1>11. ASSUME NEW r \in Requests, NEW p \in Humans, BeginSubmit(r, p) PROVE RanInv'
  BY <1>11, RanSame DEF BeginSubmit, SameClock
<1>12. ASSUME NEW s \in Slots, Look(s) PROVE RanInv'
  <2> DEFINE left == IF timer.startedAt = Never THEN timer.left - 1 ELSE Duration - Elapsed
  <2>1. UNCHANGED <<clock, ran, expiredEarly>>
    BY <1>12 DEF Look
  <2>2. \A u \in Slots : countdowns'[u].at = "expire" => countdowns[u].at = "expire"
    BY <1>12 DEF Look, TimerTypes, Countdowns
  <2>3. CASE UNCHANGED timer
    BY <2>1, <2>2, <2>3, RanSame DEF SameClock
  <2>4. CASE timer.running /\ timer.pausedAt = Never /\ timer' = [timer EXCEPT !.left = Max({0, left})]
    <3>1. left \in Int /\ (left + ran >= Duration \/ ran >= Duration)
      <4>1. timer.startedAt # Never /\ Until = clock
        BY <2>4 DEF ClockInv, Until
      <4>2. timer.startedAt \in Nat /\ timer.lost \in Nat /\ clock \in Nat /\ ran \in Nat /\ Duration \in Nat
        BY <4>1, Bounds DEF TimerTypes, Timers
      <4>3. left = Duration - ((clock - timer.startedAt) - timer.lost)
        BY <4>1 DEF Elapsed
      <4>4. ran >= Duration \/ ran >= (clock - timer.startedAt) - timer.lost
        BY <4>1, <4>2 DEF RanInv
      <4>5. (clock - timer.startedAt) - timer.lost >= 0
        BY <4>1, <4>2 DEF ClockInv
      <4> HIDE DEF left
      <4>6. QED
        BY <4>2, <4>3, <4>4, <4>5
    <3>2. Max({0, left}) + ran >= Duration
      <4> HIDE DEF left
      <4>1. ran \in Nat /\ Duration \in Nat
        BY Bounds DEF TimerTypes
      <4>2. QED
        BY <3>1, <4>1, Clamped
    <3> HIDE DEF left
    <3>3. timer'.left = Max({0, left}) /\ timer'.running = timer.running /\ timer'.pausedAt = timer.pausedAt
          /\ timer'.startedAt = timer.startedAt /\ timer'.lost = timer.lost
      BY <2>4 DEF TimerTypes, Timers
    <3>4. QED
      BY <2>1, <2>2, <3>2, <3>3 DEF RanInv, Until
  <2>5. QED
    BY <1>12, <2>3, <2>4 DEF Look
<1>13. ASSUME NEW s \in Slots, Tell(s) PROVE RanInv'
  <2>1. \A u \in Slots : countdowns'[u].at = "expire" => countdowns[u].at = "expire"
    <3>1. \/ countdowns' = [countdowns EXCEPT ![s].at = "check"]
          \/ \E c \in Due(row') : countdowns' = [countdowns EXCEPT ![s] = [at |-> "ask", ask |-> c]]
      BY <1>13 DEF Tell
    <3>2. countdowns'[s].at # "expire" /\ \A u \in Slots : u # s => countdowns'[u] = countdowns[u]
      BY <3>1 DEF TimerTypes, Countdowns
    <3>3. QED
      BY <3>2
  <2>2. QED
    BY <1>13, <2>1, RanSame DEF Tell, SameClock
<1>14. ASSUME NEW s \in Slots, Ask(s) PROVE RanInv'
  <2>1. countdowns[s].at = "ask" /\ timer' = PausedTimer(timer) /\ UNCHANGED <<ran, clock, expiredEarly>>
        /\ countdowns' = [countdowns EXCEPT ![s] = [at |-> "check", ask |-> 0]]
    BY <1>14 DEF Ask, Trigger
  <2>2. \A q \in Requests : requests[q].at # "resumed"
    BY <2>1, OnlyThread
  <2>3. \A u \in Slots : countdowns'[u].at = "expire" => countdowns[u].at = "expire"
    BY <2>1 DEF TimerTypes
  <2>4. QED
    BY <2>1, <2>2, <2>3, RanPause
<1>15. ASSUME NEW s \in Slots, Check(s) PROVE RanInv'
  <2>1. UNCHANGED <<timer, ran, clock, expiredEarly>>
    BY <1>15 DEF Check
  <2>2. /\ \A u \in Slots : u # s => countdowns'[u] = countdowns[u]
        /\ countdowns'[s].at = IF timer.left = 0 THEN "expire" ELSE "top"
    BY <1>15 DEF Check, TimerTypes, Countdowns
  <2>3. timer.left = 0 => ran >= Duration
    BY Bounds DEF RanInv, TimerTypes
  <2>4. QED
    BY <2>1, <2>2, <2>3 DEF RanInv, Until
<1>16. ASSUME NEW s \in Slots, Expire(s) PROVE RanInv'
  <2>1. countdowns[s].at = "expire" /\ UNCHANGED <<ran, clock>> /\ timer' = [timer EXCEPT !.running = FALSE]
        /\ expiredEarly' = (expiredEarly \/ ran < Duration)
    BY <1>16 DEF Expire
  <2>2. ran >= Duration /\ ran \in Nat /\ Duration \in Nat
    BY <2>1, Bounds DEF RanInv, TimerTypes
  <2>3. timer'.left = timer.left /\ timer.left \in Nat
    BY <2>1, Bounds DEF TimerTypes, Timers
  <2>4. ~(ran < Duration) /\ timer'.left + ran' >= Duration
    BY <2>1, <2>2, <2>3
  <2>5. ~expiredEarly
    BY DEF RanInv
  <2>6. QED
    BY <2>1, <2>2, <2>4, <2>5 DEF RanInv
<1>17. ASSUME NEW s \in Slots, Exit(s) PROVE RanInv'
  <2>1. \A u \in Slots : countdowns'[u].at = "expire" => countdowns[u].at = "expire"
    BY <1>17 DEF Exit, TimerTypes, Dead
  <2>2. QED
    BY <1>17, <2>1, RanSame DEF Exit, SameClock
<1>18. CASE RestartTimer
  BY <1>18, Bounds DEF RestartTimer, RanInv, NoTimer, Dead
<1>19. QED
  BY <1>1, <1>2, <1>3, <1>4, <1>5, <1>6, <1>7, <1>8, <1>9, <1>10, <1>11, <1>12, <1>13, <1>14,
     <1>15, <1>16, <1>17, <1>18 DEF TimerStep

-----------------------------------------------------------------------------
LEMMA TimerBegins == TimerInit => TimerInv
<1> SUFFICES ASSUME TimerInit PROVE TimerInv
  OBVIOUS
<1>1. /\ clock = 0 /\ ran = 0 /\ timer = NoTimer /\ ~expiredEarly
      /\ row = [status |-> "waiting", left |-> Duration, annotating |-> FALSE,
                checkpoint |-> 0, submitted |-> {}, triggered |-> {}]
      /\ countdowns = [s \in Slots |-> Dead] /\ requests = [r \in Requests |-> NoRequest]
      /\ asked = [c \in All |-> 0] /\ answered = [c \in All |-> {}]
  BY DEF TimerInit
<1>2. TimerTypes
  BY <1>1, TimersMade, RequestsMade, Bounds DEF TimerTypes, Rows, Countdowns, Dead
<1>3. ClockInv
  BY <1>1 DEF ClockInv, NoTimer
<1>4. OneParty /\ StatusInv
  BY <1>1 DEF OneParty, Busy, StatusInv, At, Counting, Dead, NoRequest, NoTimer
<1>5. AskInv /\ AnswerInv
  BY <1>1 DEF AskInv, AnswerInv, Dead, NoRequest
<1>6. RanInv
  BY <1>1, Bounds DEF RanInv, NoTimer, Dead
<1>7. QED
  BY <1>2, <1>3, <1>4, <1>5, <1>6 DEF TimerInv

(* torn stays.                                                               *)
LEMMA TornStays ==
  ASSUME TimerStep, ~torn'
  PROVE  ~torn
  BY DEF TimerStep, Tick, Control, FinishStart, FinishPause, Resume, FinishResume, FinishReset, BeginAct,
         FinishAct, FinishSubmit, BeginSubmit, Look, Tell, Ask, Check, Expire, Exit, RestartTimer

LEMMA TimerStays == TimerInv /\ [TimerNext]_timerVars => TimerInv'
<1> SUFFICES ASSUME TimerInv, [TimerNext]_timerVars PROVE TimerInv'
  OBVIOUS
<1>1. CASE TimerNext
  <2>1. TimerStep /\ crossed' = (crossed \/ Cardinality(Parties') > 1)
    BY <1>1 DEF TimerNext
  <2>2. TimerTypes /\ ClockInv
    BY DEF TimerInv
  <2>3. TimerTypes' /\ ClockInv'
    BY <2>1, <2>2, TypesStay, ClockStays
  <2>4. ASSUME ~crossed' PROVE (OneParty /\ StatusInv /\ AskInv /\ AnswerInv)'
    <3>1. ~crossed /\ ~(Cardinality(Parties') > 1)
      BY <2>1, <2>4
    <3>2. OneParty /\ StatusInv /\ AskInv /\ AnswerInv
      BY <3>1 DEF TimerInv
    <3>3. OneParty'
      BY <3>1, OneLeft
    <3>4. StatusInv'
      BY <2>1, <2>2, <2>3, <3>2, <3>3, StatusStays
    <3>5. AskInv' /\ AnswerInv'
      BY <2>1, <2>2, <2>3, <3>2, <3>3, PopupStays
    <3>6. QED
      BY <3>3, <3>4, <3>5
  <2>5. ASSUME ~crossed', ~torn' PROVE RanInv'
    <3>1. ~crossed /\ ~torn
      BY <2>1, <2>5, TornStays
    <3>2. OneParty /\ StatusInv /\ RanInv
      BY <3>1 DEF TimerInv
    <3>3. QED
      BY <2>1, <2>2, <2>3, <2>5, <3>2, RanStays
  <2>6. QED
    BY <2>3, <2>4, <2>5 DEF TimerInv
<1>2. CASE UNCHANGED timerVars
  <2>1. TimerTypes' /\ ClockInv'
    BY <1>2 DEF TimerInv, timerVars, TimerTypes, ClockInv, Until
  <2>2. ~crossed' => OneParty' /\ StatusInv' /\ AskInv' /\ AnswerInv'
    BY <1>2 DEF TimerInv, timerVars, OneParty, StatusInv, AskInv, AnswerInv, At, Counting, Alive
  <2>3. ~crossed' /\ ~torn' => RanInv'
    BY <1>2 DEF TimerInv, timerVars, RanInv, Until
  <2>4. QED
    BY <2>1, <2>2, <2>3 DEF TimerInv
<1>3. QED
  BY <1>1, <1>2

LEMMA TimerSuffices == TimerInv => TimeIsKept
<1> SUFFICES ASSUME TimerInv PROVE TimeIsKept
  OBVIOUS
<1>1. TimerTypeOK
  <2>1. timer.lost \in 0..clock
    BY DEF TimerInv, TimerTypes, ClockInv, Until, Timers, Never
  <2>2. QED
    BY <2>1 DEF TimerInv, TimerTypes, TimerTypeOK, Rows, Timers
<1>2. ClockFollowsSession
  <2> SUFFICES ASSUME Quiet, Counting PROVE row.status = "running" /\ Alive(timer)
    BY DEF ClockFollowsSession
  <2>1. StatusInv /\ \A r \in Requests : requests[r].at = "free"
    BY DEF Quiet, TimerInv, NoRequest
  <2>2. QED
    BY <2>1 DEF StatusInv, At, Counting
<1>3. NoEarlyTimeout
  BY DEF TimerInv, NoEarlyTimeout, RanInv
<1>4. AskedOnce
  BY DEF TimerInv, AskedOnce, AskInv
<1>5. AnsweredByAll
  BY DEF TimerInv, AnsweredByAll, AnswerInv
<1>6. QED
  BY <1>1, <1>2, <1>3, <1>4, <1>5 DEF TimeIsKept

(* A session of the platform has the time it was given and the checkpoints   *)
(* it should, for any participants, duration and checkpoints, and any number *)
(* of requests, threads and restarts (SessionTimer.TimeIsKept).              *)
THEOREM TimeKept == TimerSpec => []TimeIsKept
<1>1. TimerSpec => []TimerInv
  BY TimerBegins, TimerStays, PTL DEF TimerSpec
<1>2. QED
  BY <1>1, TimerSuffices, PTL
-----------------------------------------------------------------------------
(* TaskAnswers, for any participants, capital, essays, ranks, requests and   *)
(* handlers.                                                                 *)

Ranking == Seq([essay : Essays, rank : Ranks])

Participants ==
    [money : Nat, history : Seq([amount : Nat, before : Nat, after : Nat]), same : BOOLEAN,
     own : SUBSET Essays, ranks : Ranking, read : SUBSET Essays]

Sessions ==
    [status : {"waiting", "running", "paused"}, clock : {"off", "on", "held"},
     confirmed : SUBSET Persons, drawn : 0..1, essays : SUBSET Essays,
     member : [Members -> Participants]]

Steps ==
    [at : {"free", "start"}]
        \cup [at : {"store"}, row : Sessions]
        \cup [at : {"invest"}, who : Members, amount : Nat, money : Nat]
        \cup [at : {"rank"}, who : Persons, essay : Essays, rank : Ranks, places : SUBSET Nat]
        \cup [at : {"ranking"}, who : Bots, ranks : Ranking]
        \cup [at : {"confirm"}, who : Persons, list : SUBSET Persons]

(* What a participant has after j records.                                   *)
Left(m, j) == IF j = 0 THEN Capital ELSE m.history[j].after

Chained(m) ==
    /\ m.money = Left(m, Len(m.history))
    /\ \A i \in 1..Len(m.history) :
        /\ m.history[i].after = m.history[i].before - m.history[i].amount
        /\ \E j \in 0..(i - 1) : m.history[i].before = Left(m, j)

Spent(m) == \A i \in 1..Len(m.history) : m.history[i].before = Left(m, i - 1)

OnceEach(m) == \A i, j \in 1..Len(m.ranks) : m.ranks[i].essay = m.ranks[j].essay => i = j

(* What an agent ranked is what the session had at a time, at places of      *)
(* their own.                                                                *)
Whole(ranks, sets) ==
    /\ {ranks[i].essay : i \in 1..Len(ranks)} \in sets
    /\ \A i, j \in 1..Len(ranks) : i # j => ranks[i].rank # ranks[j].rank

(* A copy of the session is sound, given the sets of essays there were, how  *)
(* many requests overlapped and whether an upload was refused half-way.      *)
SoundMember(m, list, essays, overlapping, partial) ==
    /\ Chained(m)
    /\ overlapping = 0 => Spent(m)
    /\ list \subseteq essays
    /\ partial = 0 => list = essays
    /\ \A i \in 1..Len(m.ranks) : m.ranks[i].essay \in essays

Sound(d, sets, overlapping, partial) ==
    /\ d \in Sessions /\ d.essays \in sets
    /\ \A p \in Members :
        SoundMember(d.member[p], Listed(d, p), d.essays, overlapping, partial)
    /\ overlapping = 0 => \A p \in Persons : OnceEach(d.member[p])
    /\ \A p \in Bots : d.member[p].ranks # <<>> => Whole(d.member[p].ranks, sets)

Halves == IF refused THEN 1 ELSE 0
Storing(h) == work[h].at = "store"

(* The session in memory, its row, and the rows that are to be written.      *)
CopiesInv ==
    /\ Sound(desk, had, together, Halves)
    /\ Sound(stored, had, together, Halves) /\ Row(stored) = stored
    /\ \A h \in Handlers : Storing(h) =>
        Sound(work[h].row, had, together, Halves) /\ Row(work[h].row) = work[h].row

(* An answer that was checked still holds, and is the latest unless requests *)
(* overlapped.                                                               *)
InFlight(r, d, sets, overlapping) ==
    /\ r.at = "invest" =>
        /\ r.amount <= r.money
        /\ \E j \in 0..Len(d.member[r.who].history) : r.money = Left(d.member[r.who], j)
        /\ overlapping = 0 => r.money = d.member[r.who].money
    /\ r.at = "rank" =>
        /\ r.essay \in d.essays
        /\ overlapping = 0 => r.places = Places(d.member[r.who].ranks, r.essay)
    /\ r.at = "ranking" =>
        /\ Whole(r.ranks, sets)
        /\ \A i \in 1..Len(r.ranks) : r.ranks[i].essay \in d.essays

FlightInv == \A h \in Handlers : InFlight(work[h], desk, had, together)

Alone ==
    together = 0 => \A g, h \in Handlers : g = h \/ work[g].at = "free" \/ work[h].at = "free"

(* Who is confirmed said so, unless the list was cleared in between; and     *)
(* without overlaps and restarts nobody is forgotten.                        *)
ConfirmInv ==
    /\ late = FALSE =>
        /\ desk.confirmed \subseteq said
        /\ announced = TRUE => Persons \subseteq said
        /\ \A h \in Handlers : work[h].at = "confirm" => work[h].list \subseteq said
    /\ together = 0 /\ reloads = 0 =>
        /\ desk.confirmed = said
        /\ desk.status = "paused" => desk.clock # "on"
        /\ \A h \in Handlers :
            /\ work[h].at = "confirm" => work[h].list = desk.confirmed
            /\ work[h].at = "start" => desk.status = "running"

StoreInv ==
    together = 0 /\ refused = FALSE =>
        /\ \A h \in Handlers : Storing(h) => work[h].row = Row(desk)
        /\ (\A h \in Handlers : work[h].at = "free") => stored = Row(desk)

AnswersTypes ==
    /\ work \in [Handlers -> Steps]
    /\ together \in Nat /\ answers \in Nat /\ reloads \in Nat
    /\ {late, refused, announced} \subseteq BOOLEAN /\ said \subseteq Persons

AnswersInv == AnswersTypes /\ CopiesInv /\ FlightInv /\ Alone /\ ConfirmInv /\ StoreInv

-----------------------------------------------------------------------------
(* What the helpers on a session return.                                     *)

LEMMA RowIs ==
    ASSUME NEW d \in Sessions
    PROVE  /\ Row(d) \in Sessions
           /\ Row(d).essays = d.essays /\ Row(d).confirmed = d.confirmed
           /\ Row(d).status = d.status /\ Row(d).drawn = d.drawn /\ Row(d).clock = "off"
           /\ \A p \in Members :
                /\ Row(d).member[p] \in Participants
                /\ Row(d).member[p].money = d.member[p].money
                /\ Row(d).member[p].history = d.member[p].history
                /\ Row(d).member[p].ranks = d.member[p].ranks
                /\ Row(d).member[p].read = d.member[p].read
                /\ Row(d).member[p].same = FALSE /\ Row(d).member[p].own = Listed(d, p)
           /\ \A p \in Members : Listed(Row(d), p) = Listed(d, p)
<1> DEFINE member == [p \in Members |-> [d.member[p] EXCEPT !.same = FALSE, !.own = Listed(d, p)]]
<1>1. \A p \in Members : d.member[p] \in Participants /\ Listed(d, p) \in SUBSET Essays
  BY DEF Sessions, Participants, Listed
<1>2. \A p \in Members :
        /\ member[p] \in Participants
        /\ member[p].money = d.member[p].money /\ member[p].history = d.member[p].history
        /\ member[p].ranks = d.member[p].ranks /\ member[p].read = d.member[p].read
        /\ member[p].same = FALSE /\ member[p].own = Listed(d, p)
  BY <1>1 DEF Participants
<1>3. member \in [Members -> Participants]
  BY <1>2
<1> HIDE DEF member
<1>4. Row(d) = [d EXCEPT !.clock = "off", !.member = member]
  BY DEF Row, member
<1>5. Row(d) \in Sessions /\ Row(d).member = member /\ Row(d).clock = "off"
      /\ Row(d).essays = d.essays /\ Row(d).confirmed = d.confirmed
      /\ Row(d).status = d.status /\ Row(d).drawn = d.drawn
  BY <1>3, <1>4 DEF Sessions
<1>6. QED
  BY <1>2, <1>5 DEF Listed

(* A participant and a session are told by their fields.                     *)
LEMMA SameMember ==
    ASSUME NEW k \in Participants, NEW m \in Participants,
           k.money = m.money, k.history = m.history, k.ranks = m.ranks,
           k.read = m.read, k.same = m.same, k.own = m.own
    PROVE  k = m
<1>1. k = [x \in {"money", "history", "same", "own", "ranks", "read"} |-> k[x]]
  BY DEF Participants
<1>2. m = [x \in {"money", "history", "same", "own", "ranks", "read"} |-> m[x]]
  BY DEF Participants
<1>3. \A x \in {"money", "history", "same", "own", "ranks", "read"} : k[x] = m[x]
  OBVIOUS
<1>4. QED
  BY <1>1, <1>2, <1>3, Zenon

LEMMA SameSession ==
    ASSUME NEW c \in Sessions, NEW d \in Sessions,
           c.status = d.status, c.clock = d.clock, c.confirmed = d.confirmed,
           c.drawn = d.drawn, c.essays = d.essays,
           \A p \in Members :
                /\ c.member[p].money = d.member[p].money /\ c.member[p].history = d.member[p].history
                /\ c.member[p].ranks = d.member[p].ranks /\ c.member[p].read = d.member[p].read
                /\ c.member[p].same = d.member[p].same /\ c.member[p].own = d.member[p].own
    PROVE  c = d
<1>1. \A p \in Members : c.member[p] \in Participants /\ d.member[p] \in Participants
  BY DEF Sessions
<1>2. \A p \in Members : c.member[p] = d.member[p]
  BY <1>1, SameMember
<1>3. c.member = d.member
  BY <1>2 DEF Sessions
<1>4. QED
  BY <1>3 DEF Sessions

(* A row of a row is that row.                                               *)
LEMMA RowOfRow == ASSUME NEW d \in Sessions PROVE Row(Row(d)) = Row(d)
<1>1. Row(d) \in Sessions
  BY RowIs
<1> DEFINE c == Row(d)
<1>2. /\ Row(c) \in Sessions
      /\ Row(c).essays = c.essays /\ Row(c).confirmed = c.confirmed
      /\ Row(c).status = c.status /\ Row(c).drawn = c.drawn /\ Row(c).clock = "off"
      /\ \A p \in Members :
           /\ Row(c).member[p].money = c.member[p].money
           /\ Row(c).member[p].history = c.member[p].history
           /\ Row(c).member[p].ranks = c.member[p].ranks
           /\ Row(c).member[p].read = c.member[p].read
           /\ Row(c).member[p].same = FALSE /\ Row(c).member[p].own = Listed(c, p)
  BY <1>1, RowIs
<1>3. \A p \in Members : c.member[p].same = FALSE /\ c.member[p].own = Listed(c, p)
  <2>1. \A p \in Members : c.member[p].same = FALSE /\ c.member[p].own = Listed(d, p)
    BY RowIs
  <2>2. \A p \in Members : Listed(c, p) = Listed(d, p)
    BY RowIs
  <2>3. QED
    BY <2>1, <2>2
<1>4. c.clock = "off"
  BY RowIs
<1> HIDE DEF c
<1>5. Row(c) = c
  <2> DEFINE e == Row(c)
  <2>1. c \in Sessions /\ e \in Sessions
    BY <1>1, <1>2 DEF c
  <2>2. /\ e.status = c.status /\ e.clock = c.clock /\ e.confirmed = c.confirmed
        /\ e.drawn = c.drawn /\ e.essays = c.essays
    BY <1>2, <1>4
  <2>3. \A p \in Members :
          /\ e.member[p].money = c.member[p].money /\ e.member[p].history = c.member[p].history
          /\ e.member[p].ranks = c.member[p].ranks /\ e.member[p].read = c.member[p].read
    BY <1>2
  <2>4. \A p \in Members : e.member[p].same = c.member[p].same /\ e.member[p].own = c.member[p].own
    BY <1>2, <1>3, Zenon
  <2> HIDE DEF e
  <2>5. e = c
    BY <2>1, <2>2, <2>3, <2>4, SameSession
  <2>6. QED
    BY <2>5 DEF e
<1>6. QED
  BY <1>5 DEF c

(* Bringing the essays of a participant up to date leaves its answers.       *)
LEMMA SyncedIs ==
    ASSUME NEW d \in Sessions, NEW p \in Members
    PROVE  /\ Synced(d, p) \in Sessions
           /\ Synced(d, p).essays = d.essays /\ Synced(d, p).confirmed = d.confirmed
           /\ Synced(d, p).status = d.status /\ Synced(d, p).drawn = d.drawn
           /\ Synced(d, p).clock = d.clock
           /\ \A q \in Members :
                /\ Synced(d, p).member[q].money = d.member[q].money
                /\ Synced(d, p).member[q].history = d.member[q].history
                /\ Synced(d, p).member[q].ranks = d.member[q].ranks
                /\ Synced(d, p).member[q].read = d.member[q].read
                /\ Listed(Synced(d, p), q) \in {Listed(d, q), Listed(d, q) \cup d.essays}
<1> DEFINE own == IF d.member[p].same THEN d.member[p].own ELSE d.member[p].own \cup d.essays
           m == [d.member[p] EXCEPT !.own = own]
<1>1. d.member[p] \in Participants /\ own \in SUBSET Essays
  BY DEF Sessions, Participants
<1>2. /\ m \in Participants /\ m.own = own /\ m.money = d.member[p].money
      /\ m.history = d.member[p].history /\ m.ranks = d.member[p].ranks
      /\ m.read = d.member[p].read /\ m.same = d.member[p].same
  BY <1>1 DEF Participants
<1>3. own \in {d.member[p].own, d.member[p].own \cup d.essays}
  OBVIOUS
<1>4. Synced(d, p) = [d EXCEPT !.member[p].own = own]
  BY DEF Synced
<1>a. own = d.member[p].own \/ ~d.member[p].same
  OBVIOUS
<1> HIDE DEF own
<1>5. Synced(d, p) = [d EXCEPT !.member = [d.member EXCEPT ![p] = m]]
  BY <1>4 DEF Sessions
<1> HIDE DEF m
<1>6. [d.member EXCEPT ![p] = m] \in [Members -> Participants]
  BY <1>2 DEF Sessions
<1>7. /\ Synced(d, p) \in Sessions /\ Synced(d, p).member = [d.member EXCEPT ![p] = m]
      /\ Synced(d, p).essays = d.essays /\ Synced(d, p).confirmed = d.confirmed
      /\ Synced(d, p).status = d.status /\ Synced(d, p).drawn = d.drawn
      /\ Synced(d, p).clock = d.clock
  BY <1>5, <1>6 DEF Sessions
<1>8. \A q \in Members : Synced(d, p).member[q] = IF q = p THEN m ELSE d.member[q]
  BY <1>7 DEF Sessions
<1>9. QED
  BY <1>2, <1>3, <1>7, <1>8, <1>a DEF Listed

LEMMA Appended ==
    ASSUME NEW S, NEW seq \in Seq(S), NEW x \in S
    PROVE  /\ Append(seq, x) \in Seq(S) /\ Len(seq) \in Nat
           /\ Len(Append(seq, x)) = Len(seq) + 1 /\ Append(seq, x)[Len(seq) + 1] = x
           /\ \A i \in 1..Len(seq) : Append(seq, x)[i] = seq[i]
  OBVIOUS

LEMMA Numbered == ASSUME NEW S, NEW k \in Nat, NEW f \in [1..k -> S] PROVE f \in Seq(S)
  OBVIOUS

(* What the answers of a participant are.                                    *)
Alike(k, m) == k.money = m.money /\ k.history = m.history /\ k.ranks = m.ranks

LEMMA AlikeSound ==
    ASSUME NEW k, NEW m, Alike(k, m)
    PROVE  /\ Chained(m) => Chained(k)
           /\ Spent(m) => Spent(k)
           /\ OnceEach(m) => OnceEach(k)
  BY DEF Alike, Chained, Spent, OnceEach, Left

(* A copy of a sound session with the answers of that session is sound,      *)
(* with as many essays or more.                                              *)
LEMMA CopySound ==
    ASSUME NEW c \in Sessions, NEW d, NEW sets, NEW later, NEW n \in Nat, NEW k \in Nat,
           NEW b \in Nat, NEW e \in Nat,
           Sound(d, sets, n, b), sets \subseteq later, k = 0 => n = 0,
           c.essays \in later, d.essays \subseteq c.essays,
           \A p \in Members : Alike(c.member[p], d.member[p]),
           \A p \in Members : Listed(c, p) \subseteq c.essays,
           e = 0 => \A p \in Members : Listed(c, p) = c.essays
    PROVE  Sound(c, later, k, e)
<1>1. ASSUME NEW p \in Members
      PROVE  SoundMember(c.member[p], Listed(c, p), c.essays, k, e)
  <2>1. SoundMember(d.member[p], Listed(d, p), d.essays, n, b) /\ Alike(c.member[p], d.member[p])
    BY DEF Sound
  <2>2. Chained(c.member[p]) /\ (k = 0 => Spent(c.member[p]))
    BY <2>1, AlikeSound DEF SoundMember
  <2>3. \A i \in 1..Len(c.member[p].ranks) : c.member[p].ranks[i].essay \in c.essays
    BY <2>1 DEF SoundMember, Alike
  <2>4. QED
    BY <2>2, <2>3 DEF SoundMember
<1>2. k = 0 => \A p \in Persons : OnceEach(c.member[p])
  <2> SUFFICES ASSUME k = 0, NEW p \in Persons PROVE OnceEach(c.member[p])
    OBVIOUS
  <2>1. p \in Members /\ OnceEach(d.member[p])
    BY DEF Sound, Members
  <2>2. QED
    BY <2>1, AlikeSound
<1>3. \A p \in Bots : c.member[p].ranks # <<>> => Whole(c.member[p].ranks, later)
  <2> SUFFICES ASSUME NEW p \in Bots, c.member[p].ranks # <<>> PROVE Whole(c.member[p].ranks, later)
    OBVIOUS
  <2>1. p \in Members /\ c.member[p].ranks = d.member[p].ranks
    BY DEF Members, Alike
  <2>2. Whole(c.member[p].ranks, sets)
    BY <2>1 DEF Sound
  <2>3. QED
    BY <2>2 DEF Whole
<1>4. QED
  BY <1>1, <1>2, <1>3 DEF Sound

(* In particular one with the same lists, and later on.                      *)
LEMMA SameSound ==
    ASSUME NEW c \in Sessions, NEW d, NEW sets, NEW later, NEW n \in Nat, NEW k \in Nat,
           NEW b \in Nat, NEW e \in Nat,
           Sound(d, sets, n, b), sets \subseteq later, k = 0 => n = 0, e = 0 => b = 0,
           c.essays = d.essays,
           \A p \in Members : Alike(c.member[p], d.member[p]) /\ Listed(c, p) = Listed(d, p)
    PROVE  Sound(c, later, k, e)
<1>1. c.essays \in later /\ d.essays \subseteq c.essays
  BY DEF Sound
<1>2. \A p \in Members : Listed(c, p) \subseteq c.essays
  BY DEF Sound, SoundMember
<1>3. e = 0 => \A p \in Members : Listed(c, p) = c.essays
  BY DEF Sound, SoundMember
<1>4. \A p \in Members : Alike(c.member[p], d.member[p])
  OBVIOUS
<1>5. sets \subseteq later /\ (k = 0 => n = 0) /\ Sound(d, sets, n, b)
  OBVIOUS
<1>6. QED
  BY <1>1, <1>2, <1>3, <1>4, <1>5, CopySound

LEMMA LaterSound ==
    ASSUME NEW d, NEW sets, NEW later, NEW n \in Nat, NEW k \in Nat,
           NEW b \in Nat, NEW e \in Nat,
           Sound(d, sets, n, b), sets \subseteq later, k = 0 => n = 0, e = 0 => b = 0
    PROVE  Sound(d, later, k, e)
<1>1. d \in Sessions
  BY DEF Sound
<1>2. \A p \in Members : Alike(d.member[p], d.member[p]) /\ Listed(d, p) = Listed(d, p)
  BY DEF Alike
<1>3. QED
  BY <1>1, <1>2, SameSound

LEMMA RowSound ==
    ASSUME NEW d, NEW sets, NEW n \in Nat, NEW b \in Nat, Sound(d, sets, n, b)
    PROVE  Sound(Row(d), sets, n, b)
<1>1. d \in Sessions
  BY DEF Sound
<1>2. Row(d) \in Sessions /\ Row(d).essays = d.essays
  BY <1>1, RowIs
<1>3. \A p \in Members : Alike(Row(d).member[p], d.member[p]) /\ Listed(Row(d), p) = Listed(d, p)
  BY <1>1, RowIs DEF Alike
<1>4. QED
  BY <1>2, <1>3, SameSound

LEMMA SyncedSound ==
    ASSUME NEW d, NEW p \in Members, NEW sets, NEW n \in Nat, NEW b \in Nat, Sound(d, sets, n, b)
    PROVE  Sound(Synced(d, p), sets, n, b)
<1>1. d \in Sessions /\ d.essays \in sets
  BY DEF Sound
<1>2. Synced(d, p) \in Sessions /\ Synced(d, p).essays = d.essays
  BY <1>1, SyncedIs
<1>3. \A q \in Members : Alike(Synced(d, p).member[q], d.member[q])
  BY <1>1, SyncedIs DEF Alike
<1>4. \A q \in Members : Listed(Synced(d, p), q) \in {Listed(d, q), Listed(d, q) \cup d.essays}
  BY <1>1, SyncedIs
<1>5. \A q \in Members : Listed(Synced(d, p), q) \subseteq d.essays
  BY <1>4 DEF Sound, SoundMember
<1>6. b = 0 => \A q \in Members : Listed(Synced(d, p), q) = d.essays
  BY <1>4 DEF Sound, SoundMember
<1>7. QED
  BY <1>1, <1>2, <1>3, <1>5, <1>6, CopySound

(* One participant has new answers.                                          *)
LEMMA AnswerSound ==
    ASSUME NEW c \in Sessions, NEW d, NEW who \in Members, NEW sets, NEW n \in Nat, NEW b \in Nat,
           Sound(d, sets, n, b), c.essays = d.essays,
           \A p \in Members : p # who => c.member[p] = d.member[p],
           c.member[who].same = d.member[who].same, c.member[who].own = d.member[who].own,
           Chained(c.member[who]), n = 0 => Spent(c.member[who]),
           \A i \in 1..Len(c.member[who].ranks) : c.member[who].ranks[i].essay \in d.essays,
           who \in Persons /\ n = 0 => OnceEach(c.member[who]),
           who \in Bots /\ c.member[who].ranks # <<>> => Whole(c.member[who].ranks, sets)
    PROVE  Sound(c, sets, n, b)
<1>1. \A p \in Members : Listed(c, p) = Listed(d, p)
  BY DEF Listed
<1>2. ASSUME NEW p \in Members
      PROVE  SoundMember(c.member[p], Listed(c, p), c.essays, n, b)
  <2>1. SoundMember(d.member[p], Listed(d, p), d.essays, n, b)
    BY DEF Sound
  <2>2. CASE p # who
    BY <1>1, <2>1, <2>2
  <2>3. CASE p = who
    BY <1>1, <2>1, <2>3 DEF SoundMember
  <2>4. QED
    BY <2>2, <2>3
<1>3. n = 0 => \A p \in Persons : OnceEach(c.member[p])
  BY DEF Sound, Members
<1>4. \A p \in Bots : c.member[p].ranks # <<>> => Whole(c.member[p].ranks, sets)
  BY DEF Sound, Members
<1>5. c.essays \in sets
  BY DEF Sound
<1>6. QED
  BY <1>2, <1>3, <1>4, <1>5 DEF Sound

-----------------------------------------------------------------------------
(* What a request does to a sound session.                                   *)

(* The session with one participant's answers replaced.                      *)
With(d, who, m) == [d EXCEPT !.member = [d.member EXCEPT ![who] = m]]

LEMMA WithIs ==
    ASSUME NEW d \in Sessions, NEW who \in Members, NEW m \in Participants
    PROVE  /\ With(d, who, m) \in Sessions
           /\ With(d, who, m).essays = d.essays /\ With(d, who, m).confirmed = d.confirmed
           /\ With(d, who, m).status = d.status /\ With(d, who, m).clock = d.clock
           /\ With(d, who, m).member[who] = m
           /\ \A p \in Members : p # who => With(d, who, m).member[p] = d.member[p]
<1>1. [d.member EXCEPT ![who] = m] \in [Members -> Participants]
  BY DEF Sessions
<1> DEFINE member == [d.member EXCEPT ![who] = m]
<1>2. member[who] = m /\ \A p \in Members : p # who => member[p] = d.member[p]
  BY DEF Sessions
<1> HIDE DEF member
<1>3. With(d, who, m) = [d EXCEPT !.member = member]
  BY DEF With, member
<1>4. QED
  BY <1>1, <1>2, <1>3 DEF Sessions, member

(* What a participant had at a time it has had since.                        *)
Grown(d, c) ==
    \A p \in Members : \A j \in 0..Len(d.member[p].history) :
        j \in 0..Len(c.member[p].history) /\ Left(c.member[p], j) = Left(d.member[p], j)

Invest == [at : {"invest"}, who : Members, amount : Nat, money : Nat]

LEMMA InvestedIs ==
    ASSUME NEW r \in Invest, desk \in Sessions
    PROVE  Invested(r) = With(desk, r.who, [desk.member[r.who] EXCEPT
                !.history = Append(@, [amount |-> r.amount, before |-> r.money, after |-> r.money - r.amount]),
                !.money = r.money - r.amount])
  BY DEF Invested, With, Sessions, Invest, Participants

(* An investment that was checked is recorded.                               *)
LEMMA InvestedSound ==
    ASSUME NEW r \in Invest, together \in Nat, Sound(desk, had, together, Halves),
           r.amount <= r.money,
           \E j \in 0..Len(desk.member[r.who].history) : r.money = Left(desk.member[r.who], j),
           together = 0 => r.money = desk.member[r.who].money
    PROVE  Sound(Invested(r), had, together, Halves) /\ Invested(r).confirmed = desk.confirmed
           /\ Invested(r).status = desk.status /\ Invested(r).clock = desk.clock
           /\ Invested(r).essays = desk.essays /\ Grown(desk, Invested(r))
<1> DEFINE m == desk.member[r.who]
           rec == [amount |-> r.amount, before |-> r.money, after |-> r.money - r.amount]
           k == [m EXCEPT !.history = Append(@, rec), !.money = r.money - r.amount]
           n == Len(m.history)
<1>1. desk \in Sessions /\ r.who \in Members /\ r.amount \in Nat /\ r.money \in Nat
      /\ SoundMember(m, Listed(desk, r.who), desk.essays, together, Halves)
  BY DEF Sound, Invest
<1>2. m \in Participants /\ n \in Nat /\ r.money - r.amount \in Nat /\ Capital \in Nat
  BY <1>1, AnswersAssumption DEF Sessions, Participants
<1>3. rec \in [amount : Nat, before : Nat, after : Nat]
      /\ rec.amount = r.amount /\ rec.before = r.money /\ rec.after = r.money - r.amount
  BY <1>1, <1>2
<1> HIDE DEF rec
<1> DEFINE T == [amount : Nat, before : Nat, after : Nat]
           old == m.history
           longer == Append(old, rec)
<1>a. old \in Seq(T) /\ rec \in T
  BY <1>2, <1>3 DEF Participants
<1> HIDE DEF T, old
<1>b. /\ longer \in Seq(T) /\ Len(longer) = Len(old) + 1 /\ longer[Len(old) + 1] = rec
      /\ \A i \in 1..Len(old) : longer[i] = old[i]
  BY <1>a, Appended
<1> USE DEF old
<1> HIDE DEF longer
<1>c. k = [m EXCEPT !.history = longer, !.money = r.money - r.amount]
  BY <1>2 DEF longer, Participants
<1> HIDE DEF k
<1>4. /\ k \in Participants /\ k.history = longer /\ k.money = r.money - r.amount
      /\ k.ranks = m.ranks /\ k.same = m.same /\ k.own = m.own
  BY <1>2, <1>b, <1>c DEF Participants, T
<1>5. /\ Len(k.history) = n + 1 /\ k.history[n + 1] = rec
      /\ \A i \in 1..n : k.history[i] = m.history[i]
  BY <1>4, <1>b
<1>6. Left(k, n + 1) = r.money - r.amount /\ \A j \in 0..n : Left(k, j) = Left(m, j)
  <2>1. n + 1 # 0 /\ k.history[n + 1].after = r.money - r.amount
    BY <1>2, <1>3, <1>5
  <2>2. ASSUME NEW j \in 0..n PROVE Left(k, j) = Left(m, j)
    BY <1>2, <1>5, SMTT(30) DEF Left
  <2>3. QED
    BY <2>1, <2>2 DEF Left
<1>7. Chained(m) /\ (together = 0 => Spent(m))
  BY <1>1 DEF SoundMember
<1> HIDE DEF m, n
<1>8. Chained(k)
  <2>1. k.money = Left(k, Len(k.history))
    BY <1>4, <1>5, <1>6
  <2>2. ASSUME NEW i \in 1..Len(k.history)
        PROVE  /\ k.history[i].after = k.history[i].before - k.history[i].amount
               /\ \E j \in 0..(i - 1) : k.history[i].before = Left(k, j)
    <3>1. CASE i = n + 1
      <4>1. PICK j \in 0..n : r.money = Left(m, j)
        BY DEF m, n
      <4>2. r.money = Left(k, j) /\ j \in 0..(i - 1)
        BY <1>2, <1>6, <3>1, <4>1
      <4>3. QED
        BY <1>3, <1>5, <3>1, <4>2
    <3>2. CASE i # n + 1
      <4>1. i \in 1..n /\ k.history[i] = m.history[i]
        BY <1>2, <1>5, <3>2
      <4>2. PICK j \in 0..(i - 1) : m.history[i].before = Left(m, j)
        BY <1>7, <4>1 DEF Chained, n
      <4>3. j \in 0..n
        BY <1>2, <4>1, <4>2
      <4>4. k.history[i].before = Left(k, j)
        BY <1>6, <4>1, <4>2, <4>3
      <4>5. k.history[i].after = k.history[i].before - k.history[i].amount
        BY <1>7, <4>1 DEF Chained, n
      <4>6. QED
        BY <4>2, <4>4, <4>5
    <3>3. QED
      BY <3>1, <3>2
  <2>3. QED
    BY <2>1, <2>2 DEF Chained
<1>9. together = 0 => Spent(k)
  <2> SUFFICES ASSUME together = 0, NEW i \in 1..Len(k.history)
      PROVE  k.history[i].before = Left(k, i - 1)
    BY DEF Spent
  <2>1. CASE i = n + 1
    <3>1. r.money = Left(m, n)
      BY <1>7 DEF m, n, Chained
    <3>2. r.money = Left(k, i - 1)
      BY <1>2, <1>6, <2>1, <3>1
    <3>3. QED
      BY <1>3, <1>5, <2>1, <3>2
  <2>2. CASE i # n + 1
    <3>1. i \in 1..n /\ k.history[i] = m.history[i] /\ i - 1 \in 0..n
      BY <1>2, <1>5, <2>2
    <3>2. m.history[i].before = Left(m, i - 1)
      BY <1>7, <3>1 DEF Spent, n
    <3>3. QED
      BY <1>6, <3>1, <3>2
  <2>3. QED
    BY <2>1, <2>2
<1>10. Invested(r) = With(desk, r.who, k)
  BY <1>1, InvestedIs DEF k, m, rec
<1> DEFINE c == With(desk, r.who, k)
<1>11. /\ c \in Sessions /\ c.essays = desk.essays /\ c.member[r.who] = k
       /\ c.confirmed = desk.confirmed /\ c.status = desk.status /\ c.clock = desk.clock
       /\ \A p \in Members : p # r.who => c.member[p] = desk.member[p]
  BY <1>1, <1>4, WithIs
<1> HIDE DEF c
<1>12. \A i \in 1..Len(k.ranks) : k.ranks[i].essay \in desk.essays
  BY <1>1, <1>4 DEF SoundMember
<1>13. r.who \in Persons /\ together = 0 => OnceEach(k)
  BY <1>1, <1>4 DEF Sound, OnceEach, m
<1>14. r.who \in Bots /\ k.ranks # <<>> => Whole(k.ranks, had)
  BY <1>1, <1>4 DEF Sound, m
<1>15. k.same = desk.member[r.who].same /\ k.own = desk.member[r.who].own /\ Halves \in Nat
  BY <1>4 DEF m, Halves
<1>16. Sound(c, had, together, Halves)
  BY <1>1, <1>8, <1>9, <1>11, <1>12, <1>13, <1>14, <1>15, AnswerSound
<1>17. Grown(desk, c)
  <2>1. \A j \in 0..n : j \in 0..Len(k.history) /\ Left(k, j) = Left(m, j)
    BY <1>2, <1>5, <1>6
  <2>2. \A p \in Members : p # r.who => c.member[p] = desk.member[p]
    BY <1>11
  <2>3. \A j \in 0..Len(desk.member[r.who].history) :
          j \in 0..Len(c.member[r.who].history) /\ Left(c.member[r.who], j) = Left(desk.member[r.who], j)
    BY <1>11, <2>1 DEF m, n
  <2>4. QED
    BY <2>2, <2>3 DEF Grown
<1>18. QED
  BY <1>10, <1>11, <1>16, <1>17 DEF c

Rank == [at : {"rank"}, who : Persons, essay : Essays, rank : Ranks, places : SUBSET Nat]
Entry == [essay : Essays, rank : Ranks]

(* What FinishRank makes of the session, before the essays are brought up to *)
(* date.                                                                     *)
Ranked(r) ==
    IF r.places = {}
    THEN [desk EXCEPT !.member[r.who].ranks = Append(@, [essay |-> r.essay, rank |-> r.rank])]
    ELSE [desk EXCEPT !.member[r.who].ranks[Min(r.places)].rank = r.rank]

(* A rank that is replaced, wherever it is, leaves the essays ranked.        *)
LEMMA Replaced ==
    ASSUME NEW seq \in Seq(Entry), NEW at, NEW n \in Ranks
    PROVE  /\ [seq EXCEPT ![at].rank = n] \in Seq(Entry)
           /\ Len([seq EXCEPT ![at].rank = n]) = Len(seq)
           /\ \A i \in 1..Len(seq) : [seq EXCEPT ![at].rank = n][i].essay = seq[i].essay
<1> DEFINE new == [seq[at] EXCEPT !.rank = n]
           out == [seq EXCEPT ![at] = new]
<1>1. Len(seq) \in Nat /\ seq \in [1..Len(seq) -> Entry]
  OBVIOUS
<1>2. at \in 1..Len(seq) => new \in Entry /\ new.essay = seq[at].essay
  BY <1>1 DEF Entry
<1> HIDE DEF new
<1>3. out \in [1..Len(seq) -> Entry]
  BY <1>1, <1>2
<1>4. \A i \in 1..Len(seq) : out[i].essay = seq[i].essay
  BY <1>1, <1>2
<1>5. out \in Seq(Entry) /\ Len(out) = Len(seq)
  BY <1>1, <1>3
<1>6. out = [seq EXCEPT ![at].rank = n]
  BY DEF new
<1>7. QED
  BY <1>4, <1>5, <1>6

LEMMA AppendedRank ==
    ASSUME NEW r \in Rank, desk \in Sessions, r.places = {}
    PROVE  Ranked(r) = With(desk, r.who, [desk.member[r.who] EXCEPT
                !.ranks = Append(@, [essay |-> r.essay, rank |-> r.rank])])
  BY DEF Ranked, With, Sessions, Rank, Participants, Members

LEMMA ReplacedRank ==
    ASSUME NEW r \in Rank, desk \in Sessions, r.places # {}
    PROVE  Ranked(r) = With(desk, r.who, [desk.member[r.who] EXCEPT
                !.ranks = [desk.member[r.who].ranks EXCEPT ![Min(r.places)].rank = r.rank]])
<1> DEFINE at == Min(r.places)
<1>1. Ranked(r) = [desk EXCEPT !.member[r.who].ranks[at].rank = r.rank]
  BY DEF Ranked
<1> HIDE DEF at
<1>2. [desk EXCEPT !.member[r.who].ranks[at].rank = r.rank]
        = With(desk, r.who, [desk.member[r.who] EXCEPT
                !.ranks = [desk.member[r.who].ranks EXCEPT ![at].rank = r.rank]])
  BY DEF With, Sessions, Rank, Participants, Members
<1>3. QED
  BY <1>1, <1>2 DEF at

(* New ranks of a participant, with what a sound session needs of them.      *)
LEMMA RanksSound ==
    ASSUME NEW who \in Members, NEW ranks \in Ranking, together \in Nat,
           Sound(desk, had, together, Halves),
           \A i \in 1..Len(ranks) : ranks[i].essay \in desk.essays,
           who \in Persons /\ together = 0 =>
                \A i, j \in 1..Len(ranks) : ranks[i].essay = ranks[j].essay => i = j,
           who \in Bots /\ ranks # <<>> => Whole(ranks, had)
    PROVE  LET c == With(desk, who, [desk.member[who] EXCEPT !.ranks = ranks])
           IN  /\ Sound(c, had, together, Halves) /\ c.essays = desk.essays
               /\ c.confirmed = desk.confirmed /\ c.status = desk.status /\ c.clock = desk.clock
               /\ \A p \in Members : c.member[p].history = desk.member[p].history
<1> DEFINE m == desk.member[who]
           k == [m EXCEPT !.ranks = ranks]
           c == With(desk, who, k)
<1>1. desk \in Sessions /\ m \in Participants
  BY DEF Sound, Sessions
<1>2. /\ k \in Participants /\ k.ranks = ranks /\ k.money = m.money
      /\ k.history = m.history /\ k.same = m.same /\ k.own = m.own
  BY <1>1 DEF Participants
<1> HIDE DEF k
<1>3. /\ c \in Sessions /\ c.essays = desk.essays /\ c.member[who] = k
      /\ c.confirmed = desk.confirmed /\ c.status = desk.status /\ c.clock = desk.clock
      /\ \A p \in Members : p # who => c.member[p] = desk.member[p]
  BY <1>1, <1>2, WithIs
<1> HIDE DEF c
<1>4. Chained(m) /\ (together = 0 => Spent(m))
  BY DEF Sound, SoundMember
<1>5. Chained(k) /\ (together = 0 => Spent(k))
  BY <1>2, <1>4, SMTT(30) DEF Chained, Spent, Left
<1>6. \A i \in 1..Len(k.ranks) : k.ranks[i].essay \in desk.essays
  BY <1>2
<1>7. who \in Persons /\ together = 0 => OnceEach(k)
  BY <1>2 DEF OnceEach
<1>8. who \in Bots /\ k.ranks # <<>> => Whole(k.ranks, had)
  BY <1>2
<1>9. k.same = desk.member[who].same /\ k.own = desk.member[who].own /\ Halves \in Nat
  BY <1>2 DEF Halves
<1>10. Sound(c, had, together, Halves)
  BY <1>3, <1>5, <1>6, <1>7, <1>8, <1>9, AnswerSound
<1>11. \A p \in Members : c.member[p].history = desk.member[p].history
  BY <1>2, <1>3
<1>12. QED
  BY <1>3, <1>10, <1>11 DEF c, k

(* A person's rank is recorded, in the record it has if it was found.        *)
LEMMA RankedSound ==
    ASSUME NEW r \in Rank, together \in Nat, Sound(desk, had, together, Halves),
           r.essay \in desk.essays,
           together = 0 => r.places = Places(desk.member[r.who].ranks, r.essay)
    PROVE  /\ Sound(Ranked(r), had, together, Halves) /\ Ranked(r).essays = desk.essays
           /\ Ranked(r).confirmed = desk.confirmed /\ Ranked(r).status = desk.status
           /\ Ranked(r).clock = desk.clock
           /\ \A p \in Members : Ranked(r).member[p].history = desk.member[p].history
<1> DEFINE m == desk.member[r.who]
           old == m.ranks
<1>1. /\ desk \in Sessions /\ r.who \in Persons /\ r.who \in Members /\ r.who \notin Bots
      /\ SoundMember(m, Listed(desk, r.who), desk.essays, together, Halves)
      /\ together = 0 => OnceEach(m)
  BY AnswersAssumption DEF Sound, Rank, Members
<1>2. old \in Ranking /\ Ranking = Seq(Entry)
  BY <1>1 DEF Sessions, Participants, Ranking, Entry
<1>3. \A i \in 1..Len(old) : old[i].essay \in desk.essays
  BY <1>1 DEF SoundMember
<1>4. together = 0 => \A i, j \in 1..Len(old) : old[i].essay = old[j].essay => i = j
  BY <1>1 DEF OnceEach
<1>5. CASE r.places = {}
  <2> DEFINE x == [essay |-> r.essay, rank |-> r.rank]
             new == Append(old, x)
  <2>1. x \in Entry /\ x.essay = r.essay
    BY DEF Rank, Entry
  <2> HIDE DEF x, old
  <2>2. /\ new \in Seq(Entry) /\ Len(old) \in Nat /\ Len(new) = Len(old) + 1
        /\ new[Len(old) + 1] = x /\ \A i \in 1..Len(old) : new[i] = old[i]
    BY <1>2, <2>1, Appended
  <2> HIDE DEF new
  <2>3. \A i \in 1..Len(new) : i \in 1..Len(old) \/ i = Len(old) + 1
    BY <2>2
  <2>4. \A i \in 1..Len(new) : new[i].essay \in desk.essays
    BY <1>3, <2>1, <2>2, <2>3
  <2>5. together = 0 => \A i \in 1..Len(old) : old[i].essay # r.essay
    BY <1>5 DEF Places, old
  <2>6. together = 0 => \A i, j \in 1..Len(new) : new[i].essay = new[j].essay => i = j
    BY <1>4, <2>1, <2>2, <2>3, <2>5
  <2>7. new \in Ranking
    BY <1>2, <2>2
  <2>8. Ranked(r) = With(desk, r.who, [m EXCEPT !.ranks = new])
    BY <1>1, <1>5, AppendedRank DEF new, old, x
  <2> DEFINE c == With(desk, r.who, [m EXCEPT !.ranks = new])
  <2>a. /\ Sound(c, had, together, Halves) /\ c.essays = desk.essays
        /\ c.confirmed = desk.confirmed /\ c.status = desk.status /\ c.clock = desk.clock
        /\ \A p \in Members : c.member[p].history = desk.member[p].history
    BY <1>1, <2>4, <2>6, <2>7, RanksSound
  <2> HIDE DEF c
  <2>b. Ranked(r) = c
    BY <2>8 DEF c
  <2>9. QED
    BY <2>a, <2>b
<1>6. CASE r.places # {}
  <2> DEFINE at == Min(r.places)
             n == r.rank
             new == [old EXCEPT ![at].rank = n]
  <2>1. n \in Ranks
    BY DEF Rank
  <2> HIDE DEF at, n, old
  <2>2. /\ new \in Seq(Entry) /\ Len(new) = Len(old)
        /\ \A i \in 1..Len(old) : new[i].essay = old[i].essay
    BY <1>2, <2>1, Replaced
  <2>3. Ranked(r) = With(desk, r.who, [m EXCEPT !.ranks = new])
    BY <1>1, <1>6, ReplacedRank DEF at, n, old
  <2> HIDE DEF new
  <2>4. \A i \in 1..Len(new) : new[i].essay \in desk.essays
    BY <1>3, <2>2
  <2>5. together = 0 => \A i, j \in 1..Len(new) : new[i].essay = new[j].essay => i = j
    BY <1>4, <2>2
  <2>6. new \in Ranking
    BY <1>2, <2>2
  <2> DEFINE c == With(desk, r.who, [m EXCEPT !.ranks = new])
  <2>a. /\ Sound(c, had, together, Halves) /\ c.essays = desk.essays
        /\ c.confirmed = desk.confirmed /\ c.status = desk.status /\ c.clock = desk.clock
        /\ \A p \in Members : c.member[p].history = desk.member[p].history
    BY <1>1, <2>4, <2>5, <2>6, RanksSound
  <2> HIDE DEF c
  <2>b. Ranked(r) = c
    BY <2>3 DEF c
  <2>7. QED
    BY <2>a, <2>b
<1>7. QED
  BY <1>5, <1>6

(* A whole ranking ranks every essay.                                        *)
LEMMA AllRanked ==
    ASSUME NEW ranks \in Ranking, desk \in Sessions, WholeRanking(ranks), desk.essays \in had
    PROVE  Whole(ranks, had)
<1> DEFINE n == Len(ranks)
           f == [i \in 1..n |-> ranks[i].essay]
<1>1. n \in Nat /\ IsFiniteSet(desk.essays) /\ n = Cardinality(desk.essays)
  <2>1. desk.essays \in SUBSET Essays
    BY DEF Sessions
  <2>2. QED
    BY <2>1, FS_Subset, AnswersAssumption DEF WholeRanking, Ranking
<1>2. f \in Injection(1..n, desk.essays)
  BY DEF WholeRanking, Injection, IsInjective
<1>3. Cardinality(1..n) = n
  BY <1>1, FS_Interval
<1>4. f \in Surjection(1..n, desk.essays)
  BY <1>1, <1>2, <1>3, FS_Injection
<1>5. {ranks[i].essay : i \in 1..Len(ranks)} = desk.essays
  <2>1. \A e \in desk.essays : \E i \in 1..n : ranks[i].essay = e
    BY <1>4 DEF Surjection
  <2>2. \A i \in 1..n : ranks[i].essay \in desk.essays
    BY DEF WholeRanking
  <2>3. QED
    BY <2>1, <2>2
<1>6. \A i, j \in 1..Len(ranks) : i # j => ranks[i].rank # ranks[j].rank
  BY DEF WholeRanking
<1>7. QED
  BY <1>5, <1>6 DEF Whole

(* The essays of an upload, whether it is saved or refused half-way.         *)
LEMMA UploadedSound ==
    ASSUME NEW new \in SUBSET Essays, NEW k \in Nat, NEW n \in Nat, NEW b \in Nat,
           k = 0 => n = 0, Sound(desk, had, n, b)
    PROVE  /\ Sound(Uploaded(new), had \cup {desk.essays \cup new}, k, 0)
           /\ Uploaded(new).confirmed = desk.confirmed
           /\ Uploaded(new).status = desk.status /\ Uploaded(new).clock = desk.clock
           /\ Uploaded(new).essays = desk.essays \cup new
           /\ \A p \in Members : Alike(Uploaded(new).member[p], desk.member[p])
<1> DEFINE all == desk.essays \cup new
           member == [p \in Members |-> IF desk.member[p].same THEN desk.member[p]
                          ELSE [desk.member[p] EXCEPT !.own = desk.essays \cup new \cup @]]
           c == Uploaded(new)
<1>1. desk \in Sessions /\ all \in SUBSET Essays
  BY DEF Sound, Sessions
<1>2. \A p \in Members :
        /\ desk.member[p] \in Participants /\ member[p] \in Participants
        /\ Alike(member[p], desk.member[p]) /\ member[p].same = desk.member[p].same
        /\ desk.member[p].same \/ member[p].own = all \cup desk.member[p].own
  BY <1>1 DEF Sessions, Participants, Alike
<1>3. member \in [Members -> Participants]
  BY <1>2
<1>4. c = [desk EXCEPT !.essays = all, !.member = member]
  BY DEF Uploaded
<1> HIDE DEF member, all, c
<1>5. /\ c \in Sessions /\ c.essays = all /\ c.member = member
      /\ c.confirmed = desk.confirmed /\ c.status = desk.status /\ c.clock = desk.clock
  BY <1>1, <1>3, <1>4 DEF Sessions
<1>6. \A p \in Members : Alike(c.member[p], desk.member[p])
  BY <1>2, <1>5
<1>7. \A p \in Members : Listed(c, p) = all
  <2> SUFFICES ASSUME NEW p \in Members PROVE Listed(c, p) = all
    OBVIOUS
  <2>1. Listed(desk, p) \subseteq desk.essays
    BY DEF Sound, SoundMember
  <2>2. CASE desk.member[p].same
    BY <1>2, <1>5, <2>2 DEF Listed
  <2>3. CASE ~desk.member[p].same
    <3>1. c.member[p].own = all \cup desk.member[p].own /\ ~c.member[p].same
      BY <1>2, <1>5, <2>3
    <3>2. desk.member[p].own \subseteq desk.essays
      BY <2>1, <2>3 DEF Listed
    <3>3. QED
      BY <3>1, <3>2 DEF Listed, all
  <2>4. QED
    BY <2>2, <2>3
<1>8. /\ desk.essays \subseteq c.essays
      /\ \A p \in Members : Listed(c, p) \subseteq c.essays
      /\ \A p \in Members : Listed(c, p) = c.essays
  BY <1>5, <1>7 DEF all
<1>9. c.essays \in had \cup {all}
  BY <1>5
<1>10. Sound(c, had \cup {all}, k, 0)
  BY <1>5, <1>6, <1>8, <1>9, CopySound
<1>11. QED
  BY <1>5, <1>6, <1>10 DEF c, all

LEMMA RefusedSound ==
    ASSUME NEW new \in SUBSET Essays, NEW n \in Nat, NEW b \in Nat, Sound(desk, had, n, b)
    PROVE  LET c == [desk EXCEPT !.essays = @ \cup new]
           IN  /\ Sound(c, had \cup {desk.essays \cup new}, n, 1)
               /\ c.confirmed = desk.confirmed /\ c.member = desk.member
               /\ c.status = desk.status /\ c.clock = desk.clock
               /\ c.essays = desk.essays \cup new
<1> DEFINE all == desk.essays \cup new
           c == [desk EXCEPT !.essays = @ \cup new]
<1>1. desk \in Sessions
  BY DEF Sound
<1>2. /\ c \in Sessions /\ c.essays = all /\ c.member = desk.member
      /\ c.confirmed = desk.confirmed /\ c.status = desk.status /\ c.clock = desk.clock
  BY <1>1 DEF Sessions
<1> HIDE DEF c
<1>3. desk.essays \subseteq c.essays /\ c.essays \in had \cup {all}
  BY <1>2
<1>4. \A p \in Members : Alike(c.member[p], desk.member[p])
  BY <1>2 DEF Alike
<1>5. \A p \in Members : Listed(c, p) \subseteq c.essays
  BY <1>2 DEF Sound, SoundMember, Listed
<1>6. Sound(c, had \cup {all}, n, 1)
  BY <1>2, <1>3, <1>4, <1>5, CopySound
<1>7. QED
  BY <1>2, <1>6 DEF c

(* A session with the participants and essays of a sound one.                *)
LEMMA TurnedSound ==
    ASSUME NEW c \in Sessions, NEW n \in Nat, NEW k \in Nat, k = 0 => n = 0,
           Sound(desk, had, n, Halves), c.essays = desk.essays, c.member = desk.member
    PROVE  Sound(c, had, k, Halves)
<1>1. \A p \in Members : Alike(c.member[p], desk.member[p]) /\ Listed(c, p) = Listed(desk, p)
  BY DEF Alike, Listed
<1>2. Halves \in Nat
  BY DEF Halves
<1>3. QED
  BY <1>1, <1>2, SameSound

(* An essay was read.                                                        *)
LEMMA ReadSound ==
    ASSUME NEW p \in Members, NEW e \in Essays, NEW n \in Nat, NEW k \in Nat, k = 0 => n = 0,
           Sound(desk, had, n, Halves)
    PROVE  LET c == [desk EXCEPT !.member[p].read = @ \cup {e}]
           IN  /\ Sound(c, had, k, Halves) /\ c.essays = desk.essays
               /\ c.confirmed = desk.confirmed /\ c.status = desk.status /\ c.clock = desk.clock
               /\ \A q \in Members : Alike(c.member[q], desk.member[q])
<1> DEFINE m == [desk.member[p] EXCEPT !.read = @ \cup {e}]
           c == [desk EXCEPT !.member[p].read = @ \cup {e}]
<1>1. desk \in Sessions /\ desk.member[p] \in Participants
  BY DEF Sound, Sessions
<1>2. /\ m \in Participants /\ Alike(m, desk.member[p])
      /\ m.same = desk.member[p].same /\ m.own = desk.member[p].own
  BY <1>1 DEF Participants, Alike
<1>3. c = With(desk, p, m)
  BY <1>1 DEF With, Sessions, Participants
<1> HIDE DEF m, c
<1>4. /\ c \in Sessions /\ c.essays = desk.essays /\ c.member[p] = m
      /\ c.confirmed = desk.confirmed /\ c.status = desk.status /\ c.clock = desk.clock
      /\ \A q \in Members : q # p => c.member[q] = desk.member[q]
  BY <1>1, <1>2, <1>3, WithIs
<1>5. \A q \in Members : Alike(c.member[q], desk.member[q]) /\ Listed(c, q) = Listed(desk, q)
  BY <1>2, <1>4 DEF Alike, Listed
<1>6. Halves \in Nat
  BY DEF Halves
<1>7. Sound(c, had, k, Halves)
  BY <1>4, <1>5, <1>6, SameSound
<1>8. QED
  BY <1>4, <1>5, <1>7 DEF c

(* Everybody begins anew, with the list of the session if there is one.      *)
LEMMA FreshSound ==
    ASSUME NEW n \in Nat, NEW k \in Nat, k = 0 => n = 0, Sound(desk, had, n, Halves)
    PROVE  LET fresh == [p \in Members |->
                            [NewMember EXCEPT !.same = (desk.essays # {}), !.read = desk.member[p].read]]
               c == [desk EXCEPT !.status = "waiting", !.clock = "off", !.confirmed = {}, !.member = fresh]
           IN  /\ Sound(c, had, k, Halves) /\ c.confirmed = {}
               /\ c.status = "waiting" /\ c.clock = "off"
<1> DEFINE fresh == [p \in Members |->
                        [NewMember EXCEPT !.same = (desk.essays # {}), !.read = desk.member[p].read]]
           c == [desk EXCEPT !.status = "waiting", !.clock = "off", !.confirmed = {}, !.member = fresh]
<1>1. desk \in Sessions /\ desk.essays \in had
  BY DEF Sound
<1>2. \A p \in Members : desk.member[p].read \in SUBSET Essays
  BY <1>1 DEF Sessions, Participants
<1>3. ASSUME NEW p \in Members
      PROVE  /\ fresh[p] \in Participants /\ fresh[p].money = Capital
             /\ fresh[p].history = <<>> /\ fresh[p].ranks = <<>> /\ fresh[p].own = {}
             /\ fresh[p].same = (desk.essays # {})
  <2> DEFINE same == (desk.essays # {})
             m == [NewMember EXCEPT !.same = same, !.read = desk.member[p].read]
  <2>1. same \in BOOLEAN /\ desk.member[p].read \in SUBSET Essays /\ Capital \in Nat
    BY <1>2, AnswersAssumption
  <2> HIDE DEF same
  <2>2. NewMember \in Participants
    BY <2>1 DEF NewMember, Participants, Ranking
  <2>3. /\ m \in Participants /\ m.money = Capital /\ m.history = <<>> /\ m.ranks = <<>>
        /\ m.own = {} /\ m.same = same
    BY <2>1, <2>2 DEF NewMember, Participants
  <2>4. fresh[p] = m
    BY DEF same
  <2> HIDE DEF m
  <2>5. QED
    BY <2>3, <2>4 DEF same
<1>4. fresh \in [Members -> Participants]
  BY <1>3
<1> HIDE DEF fresh
<1>5. /\ c \in Sessions /\ c.essays = desk.essays /\ c.member = fresh /\ c.confirmed = {}
      /\ c.status = "waiting" /\ c.clock = "off"
  BY <1>1, <1>4 DEF Sessions
<1> HIDE DEF c
<1>6. ASSUME NEW p \in Members
      PROVE  /\ SoundMember(c.member[p], Listed(c, p), c.essays, k, Halves)
             /\ OnceEach(c.member[p]) /\ c.member[p].ranks = <<>>
  <2> DEFINE m == c.member[p]
  <2>1. /\ m.money = Capital /\ m.history = <<>> /\ m.ranks = <<>> /\ m.own = {}
        /\ m.same = (desk.essays # {})
    BY <1>3, <1>5
  <2>2. Len(m.history) = 0 /\ Len(m.ranks) = 0
    BY <2>1
  <2>3. Listed(c, p) = c.essays
    BY <1>5, <2>1 DEF Listed
  <2> HIDE DEF m
  <2>4. Chained(m) /\ Spent(m) /\ OnceEach(m)
    BY <2>1, <2>2 DEF OnceEach, Chained, Spent, Left
  <2>5. SoundMember(m, Listed(c, p), c.essays, k, Halves)
    BY <2>2, <2>3, <2>4 DEF SoundMember
  <2>6. QED
    BY <2>1, <2>4, <2>5 DEF m
<1>7. Sound(c, had, k, Halves)
  BY <1>1, <1>5, <1>6 DEF Sound, Members
<1>8. QED
  BY <1>5, <1>7 DEF c, fresh

-----------------------------------------------------------------------------
(* The copies of the session stay sound.                                     *)

(* The histories grow, and overlaps and refusals are not forgotten.          *)
Later ==
    /\ had \subseteq had' /\ together' \in Nat /\ (together' = 0 => together = 0)
    /\ Halves' \in Nat /\ (Halves' = 0 => Halves = 0)

LEMMA TakeIs ==
    ASSUME NEW h \in Handlers, NEW step, AnswersTypes, Take(h, step)
    PROVE  /\ work[h] = Spare /\ work' = [work EXCEPT ![h] = step]
           /\ answers' \in Nat /\ together' \in Nat
           /\ together' = 0 => together = 0 /\ \A g \in Handlers : work[g].at = "free"
  BY DEF Take, AnswersTypes, Spare

LEMMA LaterIs ==
    ASSUME AnswersTypes, had \subseteq had', together' \in Nat, together' = 0 => together = 0,
           refused => refused'
    PROVE  Later
  BY DEF Later, AnswersTypes, Halves

LEMMA CopiesLater ==
    ASSUME AnswersTypes, Later, CopiesInv
    PROVE  /\ Sound(desk, had', together', Halves')
           /\ Sound(stored, had', together', Halves') /\ Row(stored) = stored
           /\ \A h \in Handlers : work[h].at = "store" =>
                Sound(work[h].row, had', together', Halves') /\ Row(work[h].row) = work[h].row
<1>1. together \in Nat /\ Halves \in Nat
  BY DEF AnswersTypes, Halves
<1>2. \A d : Sound(d, had, together, Halves) => Sound(d, had', together', Halves')
  BY <1>1, LaterSound DEF Later
<1>3. QED
  BY <1>2 DEF CopiesInv, Storing

LEMMA CopiesKept ==
    ASSUME AnswersTypes, CopiesInv, Later, NEW h \in Handlers, NEW x,
           work' = [work EXCEPT ![h] = x], stored' = stored,
           Sound(desk', had', together', Halves'),
           x.at = "store" => Sound(x.row, had', together', Halves') /\ Row(x.row) = x.row
    PROVE  CopiesInv'
<1>1. \A g \in Handlers : work'[g] = IF g = h THEN x ELSE work[g]
  BY DEF AnswersTypes
<1>2. Sound(stored', had', together', Halves') /\ Row(stored') = stored'
  BY CopiesLater
<1>3. \A g \in Handlers : work'[g].at = "store" =>
         Sound(work'[g].row, had', together', Halves') /\ Row(work'[g].row) = work'[g].row
  BY <1>1, CopiesLater
<1>4. QED
  BY <1>2, <1>3 DEF CopiesInv, Storing

LEMMA CopiesUnchanged ==
    ASSUME AnswersTypes, CopiesInv, Later, NEW h \in Handlers, NEW x, x.at # "store",
           work' = [work EXCEPT ![h] = x], stored' = stored, desk' = desk
    PROVE  CopiesInv'
<1>1. Sound(desk', had', together', Halves')
  BY CopiesLater
<1>2. QED
  BY <1>1, CopiesKept

(* A sound session, and its row that is to be written.                       *)
LEMMA RowKept ==
    ASSUME AnswersTypes, CopiesInv, Later, NEW h \in Handlers, NEW d,
           Sound(d, had', together', Halves'), Sound(desk', had', together', Halves'),
           work' = [work EXCEPT ![h] = [at |-> "store", row |-> Row(d)]], stored' = stored
    PROVE  CopiesInv'
<1>1. Sound(Row(d), had', together', Halves')
  BY RowSound DEF Later
<1>2. Row(Row(d)) = Row(d)
  BY RowOfRow DEF Sound
<1> DEFINE x == [at |-> "store", row |-> Row(d)]
<1>3. x.row = Row(d)
  OBVIOUS
<1> HIDE DEF x
<1>4. x.at = "store" => Sound(x.row, had', together', Halves') /\ Row(x.row) = x.row
  BY <1>1, <1>2, <1>3
<1>5. work' = [work EXCEPT ![h] = x]
  BY DEF x
<1>6. QED
  BY <1>4, <1>5, CopiesKept

(* Between its steps a request is known.                                     *)
LEMMA StepIs ==
    ASSUME AnswersTypes, FlightInv, NEW h \in Handlers
    PROVE  /\ work[h].at = "invest" =>
                /\ work[h] \in Invest /\ work[h].amount <= work[h].money
                /\ \E j \in 0..Len(desk.member[work[h].who].history) :
                        work[h].money = Left(desk.member[work[h].who], j)
                /\ together = 0 => work[h].money = desk.member[work[h].who].money
           /\ work[h].at = "rank" =>
                /\ work[h] \in Rank /\ work[h].essay \in desk.essays
                /\ together = 0 => work[h].places = Places(desk.member[work[h].who].ranks, work[h].essay)
           /\ work[h].at = "ranking" =>
                /\ work[h].who \in Bots /\ work[h].ranks \in Ranking /\ Whole(work[h].ranks, had)
                /\ \A i \in 1..Len(work[h].ranks) : work[h].ranks[i].essay \in desk.essays
           /\ work[h].at = "confirm" => work[h].who \in Persons /\ work[h].list \in SUBSET Persons
<1>1. work[h] \in Steps
  BY DEF AnswersTypes
<1>2. /\ work[h].at = "invest" => work[h] \in Invest
      /\ work[h].at = "rank" => work[h] \in Rank
      /\ work[h].at = "ranking" => work[h].who \in Bots /\ work[h].ranks \in Ranking
      /\ work[h].at = "confirm" => work[h].who \in Persons /\ work[h].list \in SUBSET Persons
  BY <1>1 DEF Steps, Invest, Rank
<1>3. QED
  BY <1>2 DEF FlightInv, InFlight

(* What FinishAgentRanking makes of the session.                             *)
LEMMA AgentRankedSound ==
    ASSUME NEW h \in Handlers, work[h].at = "ranking", AnswersTypes, FlightInv,
           Sound(desk, had, together, Halves)
    PROVE  LET d == [desk EXCEPT !.member[work[h].who].ranks = work[h].ranks]
           IN  /\ Sound(d, had, together, Halves) /\ d.essays = desk.essays
               /\ d.confirmed = desk.confirmed /\ d.status = desk.status /\ d.clock = desk.clock
               /\ \A p \in Members : d.member[p].history = desk.member[p].history
<1> DEFINE who == work[h].who
           ranks == work[h].ranks
<1>1. /\ who \in Bots /\ ranks \in Ranking /\ Whole(ranks, had)
      /\ \A i \in 1..Len(ranks) : ranks[i].essay \in desk.essays
  BY StepIs
<1>2. who \in Members /\ who \notin Persons /\ together \in Nat /\ desk \in Sessions
  BY <1>1, AnswersAssumption DEF Members, AnswersTypes, Sound
<1> HIDE DEF who, ranks
<1>3. [desk EXCEPT !.member[who].ranks = ranks] = With(desk, who, [desk.member[who] EXCEPT !.ranks = ranks])
  BY <1>2 DEF With, Sessions, Participants
<1> DEFINE c == With(desk, who, [desk.member[who] EXCEPT !.ranks = ranks])
<1>4. /\ Sound(c, had, together, Halves) /\ c.essays = desk.essays
      /\ c.confirmed = desk.confirmed /\ c.status = desk.status /\ c.clock = desk.clock
      /\ \A p \in Members : c.member[p].history = desk.member[p].history
  BY <1>1, <1>2, RanksSound
<1> HIDE DEF c
<1>5. QED
  BY <1>3, <1>4 DEF c, who, ranks

LEMMA CopiesStay ==
    ASSUME AnswersInv, AnswersNext
    PROVE  CopiesInv' /\ Later
<1> USE DEF AnswersInv
<1>0. Sound(desk, had, together, Halves) /\ desk \in Sessions /\ together \in Nat /\ Halves \in Nat
  BY DEF CopiesInv, Sound, AnswersTypes, Halves
<1>1. ASSUME NEW h \in Handlers, Store(h) PROVE CopiesInv' /\ Later
  <2>1. Later
    BY <1>1, <1>0, LaterIs DEF Store
  <2>2. Sound(stored', had', together', Halves') /\ Row(stored') = stored'
    BY <1>1, <2>1, CopiesLater DEF Store
  <2>3. Sound(desk', had', together', Halves')
    BY <1>1, <2>1, CopiesLater DEF Store
  <2>4. \A g \in Handlers : work'[g].at = "store" => work[g].at = "store" /\ work'[g] = work[g]
    BY <1>1 DEF Store, AnswersTypes, Spare
  <2>5. \A g \in Handlers : work'[g].at = "store" =>
           Sound(work'[g].row, had', together', Halves') /\ Row(work'[g].row) = work'[g].row
    BY <2>1, <2>4, CopiesLater
  <2>6. QED
    BY <2>1, <2>2, <2>3, <2>5 DEF CopiesInv, Storing
<1>2. ASSUME NEW h \in Handlers, NEW x, x.at # "store", Take(h, x),
             UNCHANGED <<desk, stored, had, refused>>
      PROVE  CopiesInv' /\ Later
  <2>1. Later
    BY <1>2, TakeIs, LaterIs
  <2>2. work' = [work EXCEPT ![h] = x]
    BY <1>2, TakeIs
  <2>3. QED
    BY <1>2, <2>1, <2>2, CopiesUnchanged
<1>3. ASSUME NEW h \in Handlers, NEW d, Take(h, [at |-> "store", row |-> Row(d)]), desk' = d,
             UNCHANGED <<stored, refused>>, had \subseteq had',
             Sound(d, had', together', Halves')
      PROVE  CopiesInv' /\ Later
  <2>1. Later
    BY <1>3, TakeIs, LaterIs
  <2>2. work' = [work EXCEPT ![h] = [at |-> "store", row |-> Row(d)]]
    BY <1>3, TakeIs
  <2>3. Sound(desk', had', together', Halves')
    BY <1>3
  <2>4. QED
    BY <1>3, <2>1, <2>2, <2>3, RowKept
<1>4. ASSUME NEW h \in Handlers, NEW d,
             work' = [work EXCEPT ![h] = [at |-> "store", row |-> Row(d)]],
             UNCHANGED <<stored, had, refused, together>>,
             Sound(d, had, together, Halves), Sound(desk', had, together, Halves)
      PROVE  CopiesInv' /\ Later
  <2>1. Later
    BY <1>0, <1>4, LaterIs
  <2>2. Halves' = Halves
    BY <1>4 DEF Halves
  <2>3. Sound(d, had', together', Halves') /\ Sound(desk', had', together', Halves')
    BY <1>4, <2>2
  <2>4. QED
    BY <1>4, <2>1, <2>3, RowKept
<1>5. ASSUME NEW h \in Handlers, NEW p \in Members, NEW amount \in Amounts, BeginInvest(h, p, amount)
      PROVE  CopiesInv' /\ Later
  BY <1>2, <1>5 DEF BeginInvest
<1>6. ASSUME NEW h \in Handlers, NEW p \in Members, NEW e \in Essays, ReadEssay(h, p, e)
      PROVE  CopiesInv' /\ Later
  <2> DEFINE d == [desk EXCEPT !.member[p].read = @ \cup {e}]
  <2>1. Take(h, [at |-> "store", row |-> Row(d)]) /\ desk' = d /\ UNCHANGED <<stored, had, refused>>
    BY <1>6 DEF ReadEssay
  <2>2. together' \in Nat /\ (together' = 0 => together = 0)
    BY <2>1, TakeIs
  <2>3. Sound(d, had, together', Halves)
    BY <1>0, <2>2, ReadSound
  <2>4. Halves' = Halves
    BY <2>1 DEF Halves
  <2> HIDE DEF d
  <2>5. QED
    BY <1>3, <2>1, <2>3, <2>4
<1>7. ASSUME NEW h \in Handlers, NEW p \in Members, NEW e \in Essays, NEW n \in Ranks, BeginRank(h, p, e, n)
      PROVE  CopiesInv' /\ Later
  BY <1>2, <1>7 DEF BeginRank
<1>8. ASSUME NEW h \in Handlers, NEW p \in Members, NEW ranks, BeginAgentRanking(h, p, ranks)
      PROVE  CopiesInv' /\ Later
  BY <1>2, <1>8 DEF BeginAgentRanking
<1>9. ASSUME NEW h \in Handlers, NEW p \in Members, BeginConfirm(h, p)
      PROVE  CopiesInv' /\ Later
  BY <1>2, <1>9 DEF BeginConfirm
<1>10. ASSUME NEW d \in Sessions, NEW h \in Handlers, d.essays = desk.essays, d.member = desk.member,
              Take(h, [at |-> "store", row |-> Row(d)]), desk' = d, UNCHANGED <<stored, had, refused>>
       PROVE  CopiesInv' /\ Later
  <2>1. together' \in Nat /\ (together' = 0 => together = 0)
    BY <1>10, TakeIs
  <2>2. Sound(d, had, together', Halves)
    BY <1>0, <1>10, <2>1, TurnedSound
  <2>3. Halves' = Halves
    BY <1>10 DEF Halves
  <2>4. QED
    BY <1>3, <1>10, <2>2, <2>3
<1>11. ASSUME NEW h \in Handlers, NEW p \in Members, NEW ratio \in 0..1, DrawRoute(h, p, ratio)
       PROVE  CopiesInv' /\ Later
  <2> DEFINE d == [desk EXCEPT !.drawn = ratio]
  <2>1. d \in Sessions /\ d.essays = desk.essays /\ d.member = desk.member
    BY <1>0 DEF Sessions
  <2>2. QED
    BY <1>10, <1>11, <2>1 DEF DrawRoute
<1>12. ASSUME NEW h \in Handlers, NEW status \in {"running", "paused"}, TurnTask(h, status)
       PROVE  CopiesInv' /\ Later
  <2> DEFINE hands == IF status = "running" THEN "on" ELSE Held
             d == [desk EXCEPT !.status = status, !.clock = hands]
  <2>1. hands \in {"off", "on", "held"}
    BY <1>0 DEF Held, Sessions
  <2>2. d = [desk EXCEPT !.status = status, !.clock = IF status = "running" THEN "on" ELSE Held]
    OBVIOUS
  <2> HIDE DEF hands
  <2>3. d \in Sessions /\ d.essays = desk.essays /\ d.member = desk.member
    BY <1>0, <2>1 DEF Sessions
  <2> HIDE DEF d
  <2>4. QED
    BY <1>10, <1>12, <2>2, <2>3 DEF TurnTask
<1>13. ASSUME NEW h \in Handlers, NEW new \in SUBSET Essays, UploadEssays(h, new)
       PROVE  CopiesInv' /\ Later
  <2> DEFINE d == Uploaded(new)
  <2>1. Take(h, [at |-> "store", row |-> Row(d)]) /\ desk' = d /\ UNCHANGED <<stored, refused>>
        /\ had' = had \cup {desk.essays \cup new}
    BY <1>13 DEF UploadEssays
  <2>2. together' \in Nat /\ (together' = 0 => together = 0)
    BY <2>1, TakeIs
  <2>3. Sound(d, had', together', 0)
    BY <1>0, <2>1, <2>2, UploadedSound
  <2>4. Halves' \in Nat
    BY DEF Halves
  <2> HIDE DEF d
  <2>5. Sound(d, had', together', Halves')
    BY <2>2, <2>3, <2>4, LaterSound
  <2>6. QED
    BY <1>3, <2>1, <2>5
<1>14. ASSUME NEW h \in Handlers, FinishInvest(h) PROVE CopiesInv' /\ Later
  <2>1. Sound(Invested(work[h]), had, together, Halves)
    BY <1>0, <1>14, StepIs, InvestedSound DEF FinishInvest
  <2>2. QED
    BY <1>4, <1>14, <2>1 DEF FinishInvest, Keep
<1>15. ASSUME NEW h \in Handlers, FinishRank(h) PROVE CopiesInv' /\ Later
  <2>1. Keep(h, Synced(Ranked(work[h]), work[h].who)) /\ work[h].at = "rank"
        /\ UNCHANGED <<stored, had, refused, together>>
    BY <1>15 DEF FinishRank, Ranked
  <2>2. work[h].who \in Members /\ Sound(Ranked(work[h]), had, together, Halves)
    BY <1>0, <2>1, StepIs, RankedSound DEF Rank, Members
  <2>3. Sound(Synced(Ranked(work[h]), work[h].who), had, together, Halves)
    BY <1>0, <2>2, SyncedSound
  <2>4. QED
    BY <1>4, <2>1, <2>3 DEF Keep
<1>16. ASSUME NEW h \in Handlers, FinishAgentRanking(h) PROVE CopiesInv' /\ Later
  <2> DEFINE d == [desk EXCEPT !.member[work[h].who].ranks = work[h].ranks]
  <2>1. /\ desk' = Synced(d, work[h].who) /\ work[h].at = "ranking"
        /\ work' = [work EXCEPT ![h] = [at |-> "store", row |-> Row(d)]]
        /\ UNCHANGED <<stored, had, refused, together>>
    BY <1>16 DEF FinishAgentRanking
  <2>2. work[h].who \in Members
    BY <2>1, StepIs DEF Members
  <2>3. Sound(d, had, together, Halves)
    BY <1>0, <2>1, AgentRankedSound
  <2> HIDE DEF d
  <2>4. Sound(desk', had, together, Halves)
    BY <1>0, <2>1, <2>2, <2>3, SyncedSound
  <2>5. QED
    BY <1>4, <2>1, <2>3, <2>4
<1>17. ASSUME NEW h \in Handlers, NEW d \in Sessions, d.essays = desk.essays, d.member = desk.member,
              Keep(h, d), UNCHANGED <<stored, had, refused, together>>
       PROVE  CopiesInv' /\ Later
  <2>1. Sound(d, had, together, Halves)
    BY <1>0, <1>17, TurnedSound
  <2>2. QED
    BY <1>4, <1>17, <2>1 DEF Keep
<1>18. ASSUME NEW h \in Handlers, FinishConfirm(h) PROVE CopiesInv' /\ Later
  <2> DEFINE confirmed == work[h].list \cup {work[h].who}
             d == [desk EXCEPT !.confirmed = confirmed]
             c == [d EXCEPT !.status = "paused", !.clock = Held]
  <2>1. confirmed \in SUBSET Persons /\ Held \in {"off", "on", "held"}
    BY <1>0, <1>18, StepIs DEF FinishConfirm, Held, Sessions
  <2>2. /\ UNCHANGED <<stored, had, refused, together>>
        /\ Keep(h, c) \/ Keep(h, d)
    BY <1>18 DEF FinishConfirm
  <2> HIDE DEF confirmed
  <2>3. d \in Sessions /\ d.essays = desk.essays /\ d.member = desk.member
    BY <1>0, <2>1 DEF Sessions
  <2> HIDE DEF d
  <2>4. c \in Sessions /\ c.essays = desk.essays /\ c.member = desk.member
    BY <2>1, <2>3 DEF Sessions
  <2> HIDE DEF c
  <2>5. QED
    BY <1>17, <2>2, <2>3, <2>4
<1>19. ASSUME NEW h \in Handlers, BeginStartTask(h) PROVE CopiesInv' /\ Later
  <2> DEFINE d == [desk EXCEPT !.status = "running"]
             x == [at |-> "start"]
  <2>1. Take(h, x) /\ desk' = d /\ UNCHANGED <<stored, had, refused>>
    BY <1>19 DEF BeginStartTask
  <2>2. d \in Sessions /\ d.essays = desk.essays /\ d.member = desk.member
    BY <1>0 DEF Sessions
  <2> HIDE DEF d
  <2>3. together' \in Nat /\ (together' = 0 => together = 0) /\ work' = [work EXCEPT ![h] = x]
    BY <2>1, TakeIs
  <2>4. Later
    BY <2>1, <2>3, LaterIs
  <2>5. Sound(d, had, together', Halves)
    BY <1>0, <2>2, <2>3, TurnedSound
  <2>6. Halves' = Halves
    BY <2>1 DEF Halves
  <2>7. QED
    BY <2>1, <2>3, <2>4, <2>5, <2>6, CopiesKept
<1>20. ASSUME NEW h \in Handlers, FinishStartTask(h) PROVE CopiesInv' /\ Later
  <2> DEFINE d == [desk EXCEPT !.confirmed = {}, !.clock = Started]
  <2>1. Started \in {"off", "on", "held"}
    BY <1>0 DEF Started, Sessions
  <2>2. d \in Sessions /\ d.essays = desk.essays /\ d.member = desk.member
    BY <1>0, <2>1 DEF Sessions
  <2>3. Keep(h, d) /\ UNCHANGED <<stored, had, refused, together>>
    BY <1>20 DEF FinishStartTask
  <2> HIDE DEF d
  <2>4. QED
    BY <1>17, <2>2, <2>3
<1>21. ASSUME NEW h \in Handlers, ResetTask(h) PROVE CopiesInv' /\ Later
  <2> DEFINE fresh == [p \in Members |->
                        [NewMember EXCEPT !.same = (desk.essays # {}), !.read = desk.member[p].read]]
             d == [desk EXCEPT !.status = "waiting", !.clock = "off", !.confirmed = {}, !.member = fresh]
  <2>1. Take(h, [at |-> "store", row |-> Row(d)]) /\ desk' = d /\ UNCHANGED <<stored, had, refused>>
    BY <1>21 DEF ResetTask
  <2>2. together' \in Nat /\ (together' = 0 => together = 0)
    BY <2>1, TakeIs
  <2>3. Sound(d, had, together', Halves)
    BY <1>0, <2>2, FreshSound
  <2>4. Halves' = Halves
    BY <2>1 DEF Halves
  <2> HIDE DEF d
  <2>5. QED
    BY <1>3, <2>1, <2>3, <2>4
<1>22. ASSUME NEW new \in SUBSET Essays, RefuseUpload(new) PROVE CopiesInv' /\ Later
  <2>1. /\ desk' = [desk EXCEPT !.essays = @ \cup new] /\ had' = had \cup {desk.essays \cup new}
        /\ UNCHANGED <<stored, work, together>> /\ refused' = TRUE
    BY <1>22 DEF RefuseUpload
  <2>2. Later
    BY <1>0, <2>1, LaterIs
  <2>3. Sound(desk', had', together, 1) /\ Halves' = 1
    BY <1>0, <2>1, RefusedSound DEF Halves
  <2>4. QED
    BY <2>1, <2>2, <2>3, CopiesLater DEF CopiesInv, Storing
<1>23. CASE Reload
  <2>1. Later
    BY <1>0, <1>23, LaterIs DEF Reload
  <2>2. \A g \in Handlers : work'[g].at # "store"
    BY <1>23 DEF Reload, Spare
  <2>3. QED
    BY <1>23, <2>1, <2>2, CopiesLater DEF Reload, CopiesInv, Storing
<1>24. QED
  BY <1>1, <1>5, <1>6, <1>7, <1>8, <1>9, <1>11, <1>12, <1>13, <1>14, <1>15, <1>16, <1>18, <1>19,
     <1>20, <1>21, <1>22, <1>23 DEF AnswersNext

-----------------------------------------------------------------------------
(* How a step moves the request that takes it.                               *)
Moves(h, x) ==
    /\ work' = [work EXCEPT ![h] = x] /\ x \in Steps /\ x.at # "free"
    /\ stored' = stored /\ refused' = refused /\ reloads' = reloads
    /\ together' \in Nat /\ answers' \in Nat
    /\ together' = 0 =>
        /\ together = 0 /\ \A g \in Handlers \ {h} : work[g].at = "free"
        /\ work[h].at \in {"invest", "rank", "ranking", "confirm", "start", "free"}
    /\ x.at = "store" /\ Halves = 0 => x.row = Row(desk')
    /\ InFlight(x, desk', had', together')

LEMMA TakeMoves ==
    ASSUME NEW h \in Handlers, NEW x \in Steps, AnswersTypes, Take(h, x), x.at # "free",
           UNCHANGED <<stored, refused, reloads>>,
           x.at = "store" => x.row = Row(desk'), InFlight(x, desk', had', together')
    PROVE  Moves(h, x)
  BY TakeIs DEF Moves, Spare

LEMMA NothingChecked ==
    ASSUME NEW x, NEW d, NEW sets, NEW n, x.at \in {"free", "store", "confirm", "start"}
    PROVE  InFlight(x, d, sets, n)
  BY DEF InFlight

LEMMA StoreMade == ASSUME NEW d \in Sessions
                   PROVE  /\ [at |-> "store", row |-> Row(d)] \in Steps
                          /\ [at |-> "store", row |-> Row(d)].at = "store"
                          /\ [at |-> "store", row |-> Row(d)].row = Row(d)
  BY RowIs DEF Steps

LEMMA TakeStoreMoves ==
    ASSUME NEW h \in Handlers, NEW d \in Sessions, AnswersTypes, desk' = d,
           Take(h, [at |-> "store", row |-> Row(d)]), UNCHANGED <<stored, refused, reloads>>
    PROVE  \E x : Moves(h, x)
<1> DEFINE x == [at |-> "store", row |-> Row(d)]
<1>1. x \in Steps /\ x.at = "store" /\ x.row = Row(desk')
  BY StoreMade
<1> HIDE DEF x
<1>a. InFlight(x, desk', had', together')
  BY <1>1, NothingChecked
<1>2. Moves(h, x)
  BY <1>1, <1>a, TakeMoves DEF x
<1>3. QED
  BY <1>2

LEMMA FinishMoves ==
    ASSUME NEW h \in Handlers, NEW d \in Sessions, AnswersTypes, Alone,
           work[h].at \in {"invest", "rank", "ranking", "confirm", "start"},
           work' = [work EXCEPT ![h] = [at |-> "store", row |-> Row(d)]],
           Halves = 0 => Row(d) = Row(desk'),
           UNCHANGED <<stored, refused, reloads, answers, together>>
    PROVE  \E x : Moves(h, x)
<1> DEFINE x == [at |-> "store", row |-> Row(d)]
<1>1. x \in Steps /\ x.at = "store" /\ x.row = Row(d) /\ x.at # "free"
  BY StoreMade
<1> HIDE DEF x
<1>2. together' \in Nat /\ answers' \in Nat
  BY DEF AnswersTypes
<1>3. together' = 0 => together = 0 /\ \A g \in Handlers \ {h} : work[g].at = "free"
  BY DEF Alone
<1>a. InFlight(x, desk', had', together')
  BY <1>1, NothingChecked
<1>4. Moves(h, x)
  BY <1>1, <1>2, <1>3, <1>a DEF Moves, x
<1>5. QED
  BY <1>4

(* Unless an upload was refused half-way, everybody's list is up to date.    *)
LEMMA SyncedRow ==
    ASSUME NEW d, NEW p \in Members, NEW sets, NEW n \in Nat, Sound(d, sets, n, 0)
    PROVE  Row(d) = Row(Synced(d, p))
<1> DEFINE s == Synced(d, p)
           c == Row(d)
           e == Row(s)
<1>1. d \in Sessions /\ \A q \in Members : Listed(d, q) = d.essays
  BY DEF Sound, SoundMember
<1>2. /\ s \in Sessions /\ s.essays = d.essays /\ s.confirmed = d.confirmed
      /\ s.status = d.status /\ s.drawn = d.drawn
      /\ \A q \in Members :
           /\ s.member[q].money = d.member[q].money /\ s.member[q].history = d.member[q].history
           /\ s.member[q].ranks = d.member[q].ranks /\ s.member[q].read = d.member[q].read
           /\ Listed(s, q) = Listed(d, q)
  <2>1. /\ s \in Sessions /\ s.essays = d.essays /\ s.confirmed = d.confirmed
        /\ s.status = d.status /\ s.drawn = d.drawn
        /\ \A q \in Members :
             /\ s.member[q].money = d.member[q].money /\ s.member[q].history = d.member[q].history
             /\ s.member[q].ranks = d.member[q].ranks /\ s.member[q].read = d.member[q].read
    BY <1>1, SyncedIs
  <2>2. \A q \in Members : Listed(s, q) \in {Listed(d, q), Listed(d, q) \cup d.essays}
    BY <1>1, SyncedIs
  <2> HIDE DEF s
  <2>3. \A q \in Members : Listed(s, q) = Listed(d, q)
    BY <1>1, <2>2
  <2>4. QED
    BY <2>1, <2>3
<1> HIDE DEF s
<1>3. /\ c \in Sessions /\ c.essays = d.essays /\ c.confirmed = d.confirmed
      /\ c.status = d.status /\ c.drawn = d.drawn /\ c.clock = "off"
      /\ \A q \in Members :
           /\ c.member[q].money = d.member[q].money /\ c.member[q].history = d.member[q].history
           /\ c.member[q].ranks = d.member[q].ranks /\ c.member[q].read = d.member[q].read
  BY <1>1, RowIs
<1>4. \A q \in Members : c.member[q].same = FALSE /\ c.member[q].own = Listed(d, q)
  BY <1>1, RowIs
<1>5. /\ e \in Sessions /\ e.essays = s.essays /\ e.confirmed = s.confirmed
      /\ e.status = s.status /\ e.drawn = s.drawn /\ e.clock = "off"
      /\ \A q \in Members :
           /\ e.member[q].money = s.member[q].money /\ e.member[q].history = s.member[q].history
           /\ e.member[q].ranks = s.member[q].ranks /\ e.member[q].read = s.member[q].read
  BY <1>2, RowIs
<1>6. \A q \in Members : e.member[q].same = FALSE /\ e.member[q].own = Listed(s, q)
  BY <1>2, RowIs
<1> HIDE DEF c, e
<1>7. \A q \in Members : c.member[q].same = e.member[q].same /\ c.member[q].own = e.member[q].own
  <2>1. \A q \in Members : Listed(s, q) = Listed(d, q)
    BY <1>2
  <2>2. QED
    BY <1>4, <1>6, <2>1, Zenon
<1>8. c \in Sessions /\ e \in Sessions /\ c.status = e.status /\ c.clock = e.clock
      /\ c.confirmed = e.confirmed /\ c.drawn = e.drawn /\ c.essays = e.essays
  BY <1>2, <1>3, <1>5
<1>9. \A q \in Members :
        /\ c.member[q].money = e.member[q].money /\ c.member[q].history = e.member[q].history
        /\ c.member[q].ranks = e.member[q].ranks /\ c.member[q].read = e.member[q].read
  BY <1>2, <1>3, <1>5
<1>10. c = e
  BY <1>7, <1>8, <1>9, SameSession
<1>11. QED
  BY <1>10 DEF c, e, s

LEMMA StepsMove ==
    ASSUME AnswersInv, AnswersNext
    PROVE  \/ \E h \in Handlers : Store(h)
           \/ \E new \in SUBSET Essays : RefuseUpload(new)
           \/ Reload
           \/ \E h \in Handlers : \E x : Moves(h, x)
<1> USE DEF AnswersInv
<1>0. desk' \in Sessions /\ desk \in Sessions
  BY CopiesStay DEF CopiesInv, Sound
<1>00. ASSUME NEW p \in Members
       PROVE  SoundMember(desk.member[p], Listed(desk, p), desk.essays, together, Halves)
  BY DEF CopiesInv, Sound
<1>1. ASSUME NEW h \in Handlers, NEW p \in Members, NEW amount \in Amounts, BeginInvest(h, p, amount)
      PROVE  \E x : Moves(h, x)
  <2> DEFINE x == [at |-> "invest", who |-> p, amount |-> amount, money |-> desk.member[p].money]
  <2>1. Take(h, x) /\ UNCHANGED <<stored, refused, reloads>> /\ desk' = desk
        /\ amount <= desk.member[p].money
    BY <1>1 DEF BeginInvest, MayInvest
  <2>2. desk.member[p].money \in Nat /\ amount \in Nat
    BY <1>0, AnswersAssumption DEF Sessions, Participants
  <2>3. /\ x \in Steps /\ x.at = "invest" /\ x.who = p /\ x.amount = amount
        /\ x.money = desk.member[p].money
    BY <2>2 DEF Steps
  <2> HIDE DEF x
  <2>4. Len(desk.member[p].history) \in Nat
    BY <1>0 DEF Sessions, Participants
  <2>5. desk.member[p].money = Left(desk.member[p], Len(desk.member[p].history))
    BY <1>00 DEF SoundMember, Chained
  <2>6. InFlight(x, desk', had', together')
    BY <2>1, <2>3, <2>4, <2>5 DEF InFlight
  <2>7. QED
    BY <2>1, <2>3, <2>6, TakeMoves
<1>2. ASSUME NEW h \in Handlers, NEW p \in Members, NEW e \in Essays, NEW n \in Ranks, BeginRank(h, p, e, n)
      PROVE  \E x : Moves(h, x)
  <2> DEFINE places == Places(desk.member[p].ranks, e)
             x == [at |-> "rank", who |-> p, essay |-> e, rank |-> n, places |-> places]
  <2>1. Take(h, x) /\ UNCHANGED <<stored, refused, reloads>> /\ p \in Persons /\ desk' = desk
        /\ e \in Listed(desk, p)
    BY <1>2 DEF BeginRank
  <2>2. places \in SUBSET Nat
    BY DEF Places
  <2>3. e \in desk.essays
    BY <1>00, <2>1 DEF SoundMember
  <2> HIDE DEF places
  <2>4. x \in Steps /\ x.at = "rank" /\ x.who = p /\ x.essay = e /\ x.places = places
    BY <2>1, <2>2 DEF Steps
  <2> HIDE DEF x
  <2>5. InFlight(x, desk', had', together')
    BY <2>1, <2>3, <2>4 DEF InFlight, places
  <2>6. QED
    BY <2>1, <2>4, <2>5, TakeMoves
<1>3. ASSUME NEW h \in Handlers, NEW p \in Members, NEW k \in 1..Cardinality(Essays),
             NEW ranks \in [1..k -> [essay : Essays, rank : Ranks]], BeginAgentRanking(h, p, ranks)
      PROVE  \E x : Moves(h, x)
  <2> DEFINE x == [at |-> "ranking", who |-> p, ranks |-> ranks]
  <2>1. Take(h, x) /\ UNCHANGED <<stored, refused, reloads, had>> /\ p \in Bots /\ desk' = desk
        /\ WholeRanking(ranks)
    BY <1>3 DEF BeginAgentRanking
  <2>2. ranks \in Ranking
    <3>1. k \in Nat
      BY AnswersAssumption, FS_CardinalityType
    <3>2. QED
      BY <3>1, Numbered DEF Ranking
  <2>3. x \in Steps /\ x.at = "ranking" /\ x.ranks = ranks
    BY <2>1, <2>2 DEF Steps
  <2> HIDE DEF x
  <2>4. Whole(ranks, had)
    BY <1>0, <2>1, <2>2, AllRanked DEF CopiesInv, Sound
  <2>5. \A i \in 1..Len(ranks) : ranks[i].essay \in desk.essays
    BY <2>1 DEF WholeRanking
  <2>6. InFlight(x, desk', had', together')
    BY <2>1, <2>3, <2>4, <2>5 DEF InFlight
  <2>7. QED
    BY <2>1, <2>3, <2>6, TakeMoves
<1>4. ASSUME NEW h \in Handlers, NEW p \in Members, BeginConfirm(h, p)
      PROVE  \E x : Moves(h, x)
  <2> DEFINE x == [at |-> "confirm", who |-> p, list |-> desk.confirmed]
  <2>1. Take(h, x) /\ UNCHANGED <<stored, refused, reloads>> /\ p \in Persons
    BY <1>4 DEF BeginConfirm
  <2>2. x \in Steps /\ x.at = "confirm"
    BY <1>0, <2>1 DEF Steps, Sessions
  <2> HIDE DEF x
  <2>3. QED
    BY <2>1, <2>2, NothingChecked, TakeMoves
<1>5. ASSUME NEW h \in Handlers, BeginStartTask(h)
      PROVE  \E x : Moves(h, x)
  <2> DEFINE x == [at |-> "start"]
  <2>1. Take(h, x) /\ UNCHANGED <<stored, refused, reloads>> /\ x \in Steps /\ x.at = "start"
    BY <1>5 DEF BeginStartTask, Steps
  <2> HIDE DEF x
  <2>2. QED
    BY <2>1, NothingChecked, TakeMoves
<1>6. ASSUME NEW h \in Handlers, NEW p \in Members, NEW e \in Essays, ReadEssay(h, p, e)
      PROVE  \E x : Moves(h, x)
  BY <1>0, <1>6, TakeStoreMoves DEF ReadEssay
<1>7. ASSUME NEW h \in Handlers, NEW p \in Members, NEW ratio \in 0..1, DrawRoute(h, p, ratio)
      PROVE  \E x : Moves(h, x)
  BY <1>0, <1>7, TakeStoreMoves DEF DrawRoute
<1>8. ASSUME NEW h \in Handlers, NEW status \in {"running", "paused"}, TurnTask(h, status)
      PROVE  \E x : Moves(h, x)
  BY <1>0, <1>8, TakeStoreMoves DEF TurnTask
<1>9. ASSUME NEW h \in Handlers, NEW new \in SUBSET Essays, UploadEssays(h, new)
      PROVE  \E x : Moves(h, x)
  BY <1>0, <1>9, TakeStoreMoves DEF UploadEssays
<1>10. ASSUME NEW h \in Handlers, ResetTask(h)
       PROVE  \E x : Moves(h, x)
  BY <1>0, <1>10, TakeStoreMoves DEF ResetTask
<1>11. ASSUME NEW h \in Handlers, NEW d, Keep(h, d),
              work[h].at \in {"invest", "rank", "ranking", "confirm", "start"},
              UNCHANGED <<stored, refused, reloads, answers, together>>
       PROVE  \E x : Moves(h, x)
  <2>1. d \in Sessions /\ desk' = d /\ work' = [work EXCEPT ![h] = [at |-> "store", row |-> Row(d)]]
    BY <1>0, <1>11 DEF Keep
  <2>2. Row(d) = Row(desk')
    BY <2>1
  <2>3. QED
    BY <1>11, <2>1, <2>2, FinishMoves
<1>12. ASSUME NEW h \in Handlers, FinishInvest(h) PROVE \E x : Moves(h, x)
  BY <1>11, <1>12 DEF FinishInvest
<1>13. ASSUME NEW h \in Handlers, FinishRank(h) PROVE \E x : Moves(h, x)
  BY <1>11, <1>13 DEF FinishRank
<1>14. ASSUME NEW h \in Handlers, FinishConfirm(h) PROVE \E x : Moves(h, x)
  BY <1>11, <1>14 DEF FinishConfirm
<1>15. ASSUME NEW h \in Handlers, FinishStartTask(h) PROVE \E x : Moves(h, x)
  BY <1>11, <1>15 DEF FinishStartTask
<1>16. ASSUME NEW h \in Handlers, FinishAgentRanking(h) PROVE \E x : Moves(h, x)
  <2> DEFINE d == [desk EXCEPT !.member[work[h].who].ranks = work[h].ranks]
  <2>1. /\ desk' = Synced(d, work[h].who) /\ work[h].at = "ranking"
        /\ work' = [work EXCEPT ![h] = [at |-> "store", row |-> Row(d)]]
        /\ UNCHANGED <<stored, refused, reloads, answers, together>>
    BY <1>16 DEF FinishAgentRanking
  <2>2. work[h].who \in Members
    BY <2>1, StepIs DEF Members
  <2>3. Sound(d, had, together, Halves) /\ together \in Nat
    BY <2>1, AgentRankedSound DEF CopiesInv, AnswersTypes
  <2> HIDE DEF d
  <2>4. Halves = 0 => Row(d) = Row(desk')
    BY <2>1, <2>2, <2>3, SyncedRow
  <2>5. d \in Sessions
    BY <2>3 DEF Sound
  <2>6. QED
    BY <2>1, <2>4, <2>5, FinishMoves
<1>17. QED
  BY <1>1, <1>2, <1>3, <1>4, <1>5, <1>6, <1>7, <1>8, <1>9, <1>10, <1>12, <1>13, <1>14, <1>15, <1>16
     DEF AnswersNext

LEMMA FlagsStay ==
    ASSUME AnswersInv, AnswersNext
    PROVE  late' \in BOOLEAN /\ refused' \in BOOLEAN /\ announced' \in BOOLEAN /\ said' \in SUBSET Persons
<1>0. /\ late \in BOOLEAN /\ refused \in BOOLEAN /\ announced \in BOOLEAN /\ said \in SUBSET Persons
      /\ stored.confirmed \in SUBSET Persons
  BY DEF AnswersInv, AnswersTypes, CopiesInv, Sound, Sessions
<1>1. ASSUME NEW h \in Handlers, FinishConfirm(h)
      PROVE  /\ UNCHANGED <<late, refused>> /\ said' = said \cup {work[h].who}
             /\ announced' \in {TRUE, announced} /\ work[h].who \in Persons
  BY <1>1, StepIs DEF FinishConfirm, AnswersInv
<1>2. ASSUME Clearing PROVE said' = {} /\ announced' = FALSE /\ late' \in BOOLEAN
  BY <1>0, <1>2 DEF Clearing
<1>3. CASE \E h \in Handlers : FinishConfirm(h)
  BY <1>0, <1>1, <1>3
<1>4. CASE \E h \in Handlers : FinishStartTask(h) \/ ResetTask(h)
  BY <1>0, <1>2, <1>4 DEF FinishStartTask, ResetTask
<1>5. CASE Reload
  BY <1>0, <1>5 DEF Reload
<1>6. CASE \E new \in SUBSET Essays : RefuseUpload(new)
  BY <1>0, <1>6 DEF RefuseUpload
<1>7. ASSUME NEW h \in Handlers,
             \/ Store(h)
             \/ \E p \in Members :
                 \/ \E amount \in Amounts : BeginInvest(h, p, amount)
                 \/ \E e \in Essays : ReadEssay(h, p, e) \/ \E n \in Ranks : BeginRank(h, p, e, n)
                 \/ \E k \in 1..Cardinality(Essays) :
                     \E ranks \in [1..k -> [essay : Essays, rank : Ranks]] : BeginAgentRanking(h, p, ranks)
                 \/ \E ratio \in 0..1 : DrawRoute(h, p, ratio)
                 \/ BeginConfirm(h, p)
             \/ \E new \in SUBSET Essays : UploadEssays(h, new)
             \/ FinishInvest(h) \/ FinishRank(h) \/ FinishAgentRanking(h)
             \/ BeginStartTask(h) \/ \E status \in {"running", "paused"} : TurnTask(h, status)
      PROVE  UNCHANGED <<late, refused, announced, said>>
  BY <1>7 DEF Store, BeginInvest, ReadEssay, BeginRank, BeginAgentRanking, DrawRoute, BeginConfirm,
     UploadEssays, FinishInvest, FinishRank, FinishAgentRanking, BeginStartTask, TurnTask
<1>8. QED
  BY <1>0, <1>3, <1>4, <1>5, <1>6, <1>7 DEF AnswersNext

LEMMA AnswerTypesStay == AnswersInv /\ AnswersNext => AnswersTypes' /\ Alone' /\ StoreInv'
<1> SUFFICES ASSUME AnswersInv, AnswersNext PROVE AnswersTypes' /\ Alone' /\ StoreInv'
  OBVIOUS
<1>0. /\ work \in [Handlers -> Steps] /\ together \in Nat /\ answers \in Nat /\ reloads \in Nat
      /\ Spare \in Steps /\ Spare.at = "free" /\ refused \in BOOLEAN
      /\ late' \in BOOLEAN /\ refused' \in BOOLEAN /\ announced' \in BOOLEAN /\ said' \in SUBSET Persons
  BY FlagsStay DEF AnswersInv, AnswersTypes, Steps, Spare
<1>1. ASSUME NEW h \in Handlers, Store(h) PROVE AnswersTypes' /\ Alone' /\ StoreInv'
  <2>1. /\ work[h].at = "store" /\ work' = [work EXCEPT ![h] = Spare] /\ stored' = work[h].row
        /\ UNCHANGED <<desk, refused, together, answers, reloads>>
    BY <1>1 DEF Store
  <2>2. AnswersTypes'
    BY <1>0, <2>1 DEF AnswersTypes
  <2>3. Alone'
    BY <1>0, <2>1 DEF AnswersInv, Alone
  <2>4. ASSUME together = 0, refused = FALSE
        PROVE  stored' = Row(desk) /\ \A g \in Handlers : work'[g].at # "store"
    <3>1. work[h].row = Row(desk)
      BY <2>1, <2>4 DEF AnswersInv, StoreInv, Storing
    <3>2. \A g \in Handlers : g # h => work[g].at = "free"
      BY <2>1, <2>4 DEF AnswersInv, Alone
    <3>3. QED
      BY <1>0, <2>1, <3>1, <3>2
  <2>5. StoreInv'
    BY <2>1, <2>4 DEF StoreInv, Storing
  <2>6. QED
    BY <2>2, <2>3, <2>5
<1>2. ASSUME NEW new \in SUBSET Essays, RefuseUpload(new) PROVE AnswersTypes' /\ Alone' /\ StoreInv'
  <2>1. UNCHANGED <<work, together, reloads>> /\ answers' = answers + 1 /\ refused' = TRUE
    BY <1>2 DEF RefuseUpload
  <2>2. AnswersTypes'
    BY <1>0, <2>1 DEF AnswersTypes
  <2>3. Alone' /\ StoreInv'
    BY <2>1 DEF AnswersInv, Alone, StoreInv
  <2>4. QED
    BY <2>2, <2>3
<1>3. CASE Reload
  <2>1. /\ work' = [h \in Handlers |-> Spare] /\ desk' = stored /\ stored' = stored
        /\ reloads' = reloads + 1 /\ UNCHANGED <<together, answers>>
    BY <1>3 DEF Reload
  <2>2. AnswersTypes'
    BY <1>0, <2>1 DEF AnswersTypes
  <2>3. Alone'
    BY <1>0, <2>1 DEF Alone
  <2>4. stored' = Row(desk') /\ \A g \in Handlers : work'[g].at # "store"
    BY <1>0, <2>1 DEF AnswersInv, CopiesInv
  <2>5. StoreInv'
    BY <2>4 DEF StoreInv, Storing
  <2>6. QED
    BY <2>2, <2>3, <2>5
<1>4. ASSUME NEW h \in Handlers, NEW x, Moves(h, x) PROVE AnswersTypes' /\ Alone' /\ StoreInv'
  <2>1. \A g \in Handlers : work'[g] = IF g = h THEN x ELSE work[g]
    BY <1>0, <1>4 DEF Moves
  <2>2. AnswersTypes'
    BY <1>0, <1>4 DEF Moves, AnswersTypes
  <2>3. together' = 0 => \A g \in Handlers : g # h => work'[g].at = "free"
    BY <1>4, <2>1 DEF Moves
  <2>4. Alone'
    BY <2>3 DEF Alone
  <2>5. ASSUME together' = 0, refused' = FALSE
        PROVE  /\ \A g \in Handlers : work'[g].at = "store" => work'[g].row = Row(desk')
               /\ ~ \A g \in Handlers : work'[g].at = "free"
    <3>1. Halves = 0
      BY <1>4, <2>5 DEF Moves, Halves
    <3>2. x.at = "store" => x.row = Row(desk')
      BY <1>4, <3>1 DEF Moves
    <3>3. work'[h] = x /\ x.at # "free"
      BY <1>4, <2>1 DEF Moves
    <3>4. QED
      BY <2>1, <2>3, <2>5, <3>2, <3>3
  <2>6. StoreInv'
    BY <2>5 DEF StoreInv, Storing
  <2>7. QED
    BY <2>2, <2>4, <2>6
<1>5. QED
  BY <1>1, <1>2, <1>3, <1>4, StepsMove

-----------------------------------------------------------------------------
(* What was checked of a request in flight still holds.                      *)

LEMMA SameGrown ==
    ASSUME NEW d, NEW c, \A p \in Members : c.member[p].history = d.member[p].history
    PROVE  Grown(d, c)
  BY DEF Grown, Left

LEMMA InFlightKept ==
    ASSUME NEW r \in Steps, NEW d, NEW c, NEW sets, NEW later, NEW n \in Nat, NEW k \in Nat,
           InFlight(r, d, sets, n), sets \subseteq later, d.essays \subseteq c.essays, Grown(d, c),
           k = 0 => r.at = "free"
    PROVE  InFlight(r, c, later, k)
<1>1. ASSUME r.at = "invest"
      PROVE  r.amount <= r.money /\ k # 0
             /\ \E j \in 0..Len(c.member[r.who].history) : r.money = Left(c.member[r.who], j)
  <2>1. r.who \in Members
    BY <1>1 DEF Steps
  <2>2. PICK j \in 0..Len(d.member[r.who].history) : r.money = Left(d.member[r.who], j)
    BY <1>1 DEF InFlight
  <2>3. j \in 0..Len(c.member[r.who].history) /\ r.money = Left(c.member[r.who], j)
    BY <2>1, <2>2 DEF Grown
  <2>4. QED
    BY <1>1, <2>3 DEF InFlight
<1>2. ASSUME r.at = "rank" PROVE r.essay \in c.essays /\ k # 0
  BY <1>2 DEF InFlight
<1>3. ASSUME r.at = "ranking"
      PROVE  Whole(r.ranks, later) /\ \A i \in 1..Len(r.ranks) : r.ranks[i].essay \in c.essays
  BY <1>3 DEF InFlight, Whole
<1>4. QED
  BY <1>1, <1>2, <1>3 DEF InFlight

LEMMA DeskGrows ==
    ASSUME AnswersInv, AnswersNext
    PROVE  \/ Reload
           \/ \E h \in Handlers : ResetTask(h)
           \/ desk.essays \subseteq desk'.essays /\ Grown(desk, desk')
<1> USE DEF AnswersInv
<1>0. Sound(desk, had, together, Halves) /\ desk \in Sessions /\ together \in Nat /\ Halves \in Nat
  BY DEF CopiesInv, Sound, AnswersTypes, Halves
<1>1. ASSUME desk'.essays = desk.essays, \A p \in Members : desk'.member[p].history = desk.member[p].history
      PROVE  desk.essays \subseteq desk'.essays /\ Grown(desk, desk')
  BY <1>1, SameGrown
<1>2. ASSUME NEW h \in Handlers,
             \/ Store(h)
             \/ \E p \in Members :
                 \/ \E amount \in Amounts : BeginInvest(h, p, amount)
                 \/ \E e \in Essays, n \in Ranks : BeginRank(h, p, e, n)
                 \/ \E k \in 1..Cardinality(Essays) :
                     \E ranks \in [1..k -> [essay : Essays, rank : Ranks]] : BeginAgentRanking(h, p, ranks)
                 \/ BeginConfirm(h, p)
      PROVE  desk' = desk
  BY <1>2 DEF Store, BeginInvest, BeginRank, BeginAgentRanking, BeginConfirm
<1>3. ASSUME NEW h \in Handlers, NEW p \in Members, NEW e \in Essays, ReadEssay(h, p, e)
      PROVE  desk.essays \subseteq desk'.essays /\ Grown(desk, desk')
  <2>1. desk' = [desk EXCEPT !.member[p].read = @ \cup {e}]
    BY <1>3 DEF ReadEssay
  <2>2. desk'.essays = desk.essays /\ \A q \in Members : Alike(desk'.member[q], desk.member[q])
    BY <1>0, <2>1, ReadSound
  <2>3. QED
    BY <1>1, <2>2 DEF Alike
<1>4. ASSUME NEW h \in Handlers,
             \/ \E p \in Members, ratio \in 0..1 : DrawRoute(h, p, ratio)
             \/ \E status \in {"running", "paused"} : TurnTask(h, status)
             \/ FinishConfirm(h) \/ BeginStartTask(h) \/ FinishStartTask(h)
      PROVE  desk'.essays = desk.essays /\ desk'.member = desk.member
  <2>1. CASE \E p \in Members, ratio \in 0..1 : DrawRoute(h, p, ratio)
    BY <1>0, <2>1 DEF DrawRoute, Sessions
  <2>2. CASE \E status \in {"running", "paused"} : TurnTask(h, status)
    BY <1>0, <2>2 DEF TurnTask, Sessions
  <2>3. CASE FinishConfirm(h)
    <3> DEFINE d == [desk EXCEPT !.confirmed = work[h].list \cup {work[h].who}]
    <3>1. desk' \in {d, [d EXCEPT !.status = "paused", !.clock = Held]}
      BY <2>3 DEF FinishConfirm, Keep
    <3>2. QED
      BY <1>0, <3>1 DEF Sessions
  <2>4. CASE BeginStartTask(h)
    BY <1>0, <2>4 DEF BeginStartTask, Sessions
  <2>5. CASE FinishStartTask(h)
    BY <1>0, <2>5 DEF FinishStartTask, Keep, Sessions
  <2>6. QED
    BY <1>4, <2>1, <2>2, <2>3, <2>4, <2>5
<1>5. ASSUME NEW h \in Handlers, NEW new \in SUBSET Essays, UploadEssays(h, new)
      PROVE  desk.essays \subseteq desk'.essays /\ Grown(desk, desk')
  <2>1. desk' = Uploaded(new)
    BY <1>5 DEF UploadEssays
  <2>2. desk'.essays = desk.essays \cup new /\ \A p \in Members : Alike(desk'.member[p], desk.member[p])
    BY <1>0, <2>1, UploadedSound
  <2>3. QED
    BY <2>2, SameGrown DEF Alike
<1>6. ASSUME NEW new \in SUBSET Essays, RefuseUpload(new)
      PROVE  desk.essays \subseteq desk'.essays /\ Grown(desk, desk')
  <2>1. desk' = [desk EXCEPT !.essays = @ \cup new]
    BY <1>6 DEF RefuseUpload
  <2>2. desk'.essays = desk.essays \cup new /\ desk'.member = desk.member
    BY <1>0, <2>1, RefusedSound
  <2>3. QED
    BY <2>2, SameGrown
<1>7. ASSUME NEW h \in Handlers, FinishInvest(h)
      PROVE  desk.essays \subseteq desk'.essays /\ Grown(desk, desk')
  BY <1>0, <1>7, StepIs, InvestedSound DEF FinishInvest, Keep
<1>8. ASSUME NEW h \in Handlers, FinishRank(h)
      PROVE  desk.essays \subseteq desk'.essays /\ Grown(desk, desk')
  <2>1. desk' = Synced(Ranked(work[h]), work[h].who) /\ work[h].at = "rank"
    BY <1>8 DEF FinishRank, Ranked, Keep
  <2>2. work[h].who \in Members /\ Sound(Ranked(work[h]), had, together, Halves)
        /\ Ranked(work[h]).essays = desk.essays
        /\ \A p \in Members : Ranked(work[h]).member[p].history = desk.member[p].history
    BY <1>0, <2>1, StepIs, RankedSound DEF Rank, Members
  <2>3. Ranked(work[h]) \in Sessions
    BY <2>2 DEF Sound
  <2>4. desk'.essays = desk.essays /\ \A p \in Members : desk'.member[p].history = desk.member[p].history
    BY <2>1, <2>2, <2>3, SyncedIs
  <2>5. QED
    BY <1>1, <2>4
<1>9. ASSUME NEW h \in Handlers, FinishAgentRanking(h)
      PROVE  desk.essays \subseteq desk'.essays /\ Grown(desk, desk')
  <2> DEFINE d == [desk EXCEPT !.member[work[h].who].ranks = work[h].ranks]
  <2>1. desk' = Synced(d, work[h].who) /\ work[h].at = "ranking"
    BY <1>9 DEF FinishAgentRanking
  <2>2. work[h].who \in Members
    BY <2>1, StepIs DEF Members
  <2>3. Sound(d, had, together, Halves) /\ d.essays = desk.essays
        /\ \A p \in Members : d.member[p].history = desk.member[p].history
    BY <1>0, <2>1, AgentRankedSound
  <2> HIDE DEF d
  <2>4. d \in Sessions
    BY <2>3 DEF Sound
  <2>5. desk'.essays = desk.essays /\ \A p \in Members : desk'.member[p].history = desk.member[p].history
    BY <2>1, <2>2, <2>3, <2>4, SyncedIs
  <2>6. QED
    BY <1>1, <2>5
<1>10. ASSUME desk' = desk PROVE desk.essays \subseteq desk'.essays /\ Grown(desk, desk')
  BY <1>1, <1>10
<1>11. ASSUME desk'.essays = desk.essays, desk'.member = desk.member
       PROVE  desk.essays \subseteq desk'.essays /\ Grown(desk, desk')
  BY <1>1, <1>11
<1>12. QED
  BY <1>2, <1>3, <1>4, <1>5, <1>6, <1>7, <1>8, <1>9, <1>10, <1>11 DEF AnswersNext

LEMMA FlightStays == AnswersInv /\ AnswersNext => FlightInv'
<1> SUFFICES ASSUME AnswersInv, AnswersNext PROVE FlightInv'
  OBVIOUS
<1>0. /\ work \in [Handlers -> Steps] /\ together \in Nat /\ had \subseteq had' /\ together' \in Nat
      /\ \A g \in Handlers : InFlight(work[g], desk, had, together)
      /\ work' \in [Handlers -> Steps] /\ Alone'
  BY CopiesStay, AnswerTypesStay DEF AnswersInv, AnswersTypes, FlightInv, Later
<1>1. CASE Reload
  <2>1. \A g \in Handlers : work'[g].at = "free"
    BY <1>1 DEF Reload, Spare
  <2>2. QED
    BY <2>1, NothingChecked DEF FlightInv
<1>2. ASSUME NEW h \in Handlers, ResetTask(h) PROVE FlightInv'
  <2>1. \A g \in Handlers : work[g].at \in {"free", "store", "confirm", "start"}
    BY <1>2 DEF ResetTask
  <2>2. \A g \in Handlers : work'[g].at \in {"free", "store", "confirm", "start"}
    <3>1. PICK x : x.at = "store" /\ work' = [work EXCEPT ![h] = x]
      BY <1>2, TakeIs DEF ResetTask, AnswersInv
    <3>2. QED
      BY <1>0, <2>1, <3>1
  <2>3. QED
    BY <2>2, NothingChecked DEF FlightInv
<1>3. CASE desk.essays \subseteq desk'.essays /\ Grown(desk, desk')
  <2>1. ASSUME NEW g \in Handlers, together' = 0 => work[g].at = "free"
        PROVE  InFlight(work[g], desk', had', together')
    BY <1>0, <1>3, <2>1, InFlightKept
  <2>2. ASSUME NEW h \in Handlers, Store(h) PROVE FlightInv'
    <3>1. work' = [work EXCEPT ![h] = Spare] /\ UNCHANGED <<desk, had, together>>
      BY <2>2 DEF Store
    <3>2. \A g \in Handlers : work'[g] = work[g] \/ work'[g].at = "free"
      BY <1>0, <3>1 DEF Spare
    <3>3. QED
      BY <1>0, <3>1, <3>2, NothingChecked DEF FlightInv
  <2>3. ASSUME NEW new \in SUBSET Essays, RefuseUpload(new) PROVE FlightInv'
    <3>1. work' = work /\ together' = together /\ desk' = [desk EXCEPT !.essays = @ \cup new]
      BY <2>3 DEF RefuseUpload
    <3>2. desk'.member = desk.member
      <4>1. Sound(desk, had, together, Halves) /\ Halves \in Nat
        BY DEF AnswersInv, CopiesInv, Halves
      <4>2. QED
        BY <1>0, <3>1, <4>1, RefusedSound
    <3>3. ASSUME NEW g \in Handlers PROVE InFlight(work[g], desk', had', together')
      <4>1. CASE together # 0
        BY <2>1, <3>1, <4>1
      <4>2. CASE together = 0
        BY <1>0, <1>3, <3>1, <3>2, <4>2 DEF InFlight, Whole
      <4>3. QED
        BY <4>1, <4>2
    <3>4. QED
      BY <3>1, <3>3 DEF FlightInv
  <2>4. ASSUME NEW h \in Handlers, NEW x, Moves(h, x) PROVE FlightInv'
    <3>1. /\ work' = [work EXCEPT ![h] = x] /\ InFlight(x, desk', had', together')
          /\ together' = 0 => \A g \in Handlers \ {h} : work[g].at = "free"
      BY <2>4 DEF Moves
    <3>2. ASSUME NEW g \in Handlers PROVE InFlight(work'[g], desk', had', together')
      <4>1. CASE g = h
        BY <1>0, <3>1, <4>1
      <4>2. CASE g # h
        BY <1>0, <2>1, <3>1, <4>2
      <4>3. QED
        BY <4>1, <4>2
    <3>3. QED
      BY <3>2 DEF FlightInv
  <2>5. QED
    BY <1>1, <2>2, <2>3, <2>4, StepsMove
<1>4. QED
  BY <1>1, <1>2, <1>3, DeskGrows

-----------------------------------------------------------------------------
(* Who is confirmed said so.                                                 *)

LEMMA ConfirmKept ==
    ASSUME ConfirmInv, AnswersTypes,
           desk'.confirmed = desk.confirmed, desk'.status = desk.status, desk'.clock = desk.clock,
           UNCHANGED <<said, late, announced, reloads>>, together' = 0 => together = 0,
           \A g \in Handlers : work'[g] = work[g] \/ work'[g].at \notin {"confirm", "start"}
    PROVE  ConfirmInv'
  BY DEF ConfirmInv

(* A request takes a step, and the handlers do what they did.                *)
LEMMA OnlyOne ==
    ASSUME NEW h \in Handlers, NEW x, AnswersTypes, work' = [work EXCEPT ![h] = x]
    PROVE  \A g \in Handlers : work'[g] = IF g = h THEN x ELSE work[g]
  BY DEF AnswersTypes

LEMMA DeskConfirms ==
    ASSUME AnswersInv,
           \/ \E new \in SUBSET Essays : RefuseUpload(new)
           \/ \E h \in Handlers :
               \/ Store(h)
               \/ \E p \in Members :
                   \/ \E amount \in Amounts : BeginInvest(h, p, amount)
                   \/ \E e \in Essays : ReadEssay(h, p, e) \/ \E n \in Ranks : BeginRank(h, p, e, n)
                   \/ \E k \in 1..Cardinality(Essays) :
                       \E ranks \in [1..k -> [essay : Essays, rank : Ranks]] : BeginAgentRanking(h, p, ranks)
                   \/ \E ratio \in 0..1 : DrawRoute(h, p, ratio)
               \/ \E new \in SUBSET Essays : UploadEssays(h, new)
               \/ FinishInvest(h) \/ FinishRank(h) \/ FinishAgentRanking(h)
    PROVE  /\ desk'.confirmed = desk.confirmed /\ desk'.status = desk.status /\ desk'.clock = desk.clock
           /\ UNCHANGED <<said, late, announced, reloads>>
           /\ work' = work \/ \E h \in Handlers : \E x : x.at \notin {"confirm", "start"} /\ work' = [work EXCEPT ![h] = x]
<1> USE DEF AnswersInv
<1>0. Sound(desk, had, together, Halves) /\ desk \in Sessions /\ together \in Nat /\ Halves \in Nat
  BY DEF CopiesInv, Sound, AnswersTypes, Halves
<1>1. ASSUME NEW new \in SUBSET Essays, RefuseUpload(new)
      PROVE  /\ desk'.confirmed = desk.confirmed /\ desk'.status = desk.status /\ desk'.clock = desk.clock
             /\ UNCHANGED <<said, late, announced, reloads>> /\ work' = work
  <2>1. desk' = [desk EXCEPT !.essays = @ \cup new] /\ UNCHANGED <<work, said, late, announced, reloads>>
    BY <1>1 DEF RefuseUpload
  <2>2. QED
    BY <1>0, <2>1, RefusedSound
<1> DEFINE Other(h, x) == x.at \notin {"confirm", "start"} /\ work' = [work EXCEPT ![h] = x]
<1>2. ASSUME NEW h \in Handlers, Store(h)
      PROVE  desk' = desk /\ UNCHANGED <<said, late, announced, reloads>> /\ \E x : Other(h, x)
  <2>1. Spare.at \notin {"confirm", "start"} /\ work' = [work EXCEPT ![h] = Spare]
    BY <1>2 DEF Store, Spare
  <2>2. QED
    BY <1>2, <2>1 DEF Store
<1>3. ASSUME NEW h \in Handlers, NEW x, Take(h, x), x.at \notin {"confirm", "start"}
      PROVE  \E y : Other(h, y)
  BY <1>3, TakeIs
<1>4. ASSUME NEW h \in Handlers, NEW new, work' = [work EXCEPT ![h] = [at |-> "store", row |-> new]]
      PROVE  \E y : Other(h, y)
  <2> DEFINE y == [at |-> "store", row |-> new]
  <2>1. y.at \notin {"confirm", "start"}
    OBVIOUS
  <2>2. QED
    BY <1>4, <2>1
<1>5. ASSUME NEW h \in Handlers, NEW p \in Members, NEW amount \in Amounts, BeginInvest(h, p, amount)
      PROVE  desk' = desk /\ UNCHANGED <<said, late, announced, reloads>> /\ \E x : Other(h, x)
  BY <1>3, <1>5 DEF BeginInvest
<1>6. ASSUME NEW h \in Handlers, NEW p \in Members, NEW e \in Essays, NEW n \in Ranks, BeginRank(h, p, e, n)
      PROVE  desk' = desk /\ UNCHANGED <<said, late, announced, reloads>> /\ \E x : Other(h, x)
  BY <1>3, <1>6 DEF BeginRank
<1>7. ASSUME NEW h \in Handlers, NEW p \in Members, NEW ranks, BeginAgentRanking(h, p, ranks)
      PROVE  desk' = desk /\ UNCHANGED <<said, late, announced, reloads>> /\ \E x : Other(h, x)
  BY <1>3, <1>7 DEF BeginAgentRanking
<1>8. ASSUME NEW h \in Handlers, NEW p \in Members, NEW e \in Essays, ReadEssay(h, p, e)
      PROVE  /\ desk'.confirmed = desk.confirmed /\ desk'.status = desk.status /\ desk'.clock = desk.clock
             /\ UNCHANGED <<said, late, announced, reloads>> /\ \E x : Other(h, x)
  <2>1. desk' = [desk EXCEPT !.member[p].read = @ \cup {e}] /\ UNCHANGED <<said, late, announced, reloads>>
    BY <1>8 DEF ReadEssay
  <2>2. desk'.confirmed = desk.confirmed /\ desk'.status = desk.status /\ desk'.clock = desk.clock
    BY <1>0, <2>1, ReadSound
  <2>3. \E x : Other(h, x)
    BY <1>3, <1>8 DEF ReadEssay
  <2>4. QED
    BY <2>1, <2>2, <2>3
<1>9. ASSUME NEW h \in Handlers, NEW p \in Members, NEW ratio \in 0..1, DrawRoute(h, p, ratio)
      PROVE  /\ desk'.confirmed = desk.confirmed /\ desk'.status = desk.status /\ desk'.clock = desk.clock
             /\ UNCHANGED <<said, late, announced, reloads>> /\ \E x : Other(h, x)
  <2>1. desk' = [desk EXCEPT !.drawn = ratio] /\ UNCHANGED <<said, late, announced, reloads>>
    BY <1>9 DEF DrawRoute
  <2>2. \E x : Other(h, x)
    BY <1>3, <1>9 DEF DrawRoute
  <2>3. QED
    BY <1>0, <2>1, <2>2 DEF Sessions
<1>10. ASSUME NEW h \in Handlers, NEW new \in SUBSET Essays, UploadEssays(h, new)
       PROVE  /\ desk'.confirmed = desk.confirmed /\ desk'.status = desk.status /\ desk'.clock = desk.clock
              /\ UNCHANGED <<said, late, announced, reloads>> /\ \E x : Other(h, x)
  <2>1. desk' = Uploaded(new) /\ UNCHANGED <<said, late, announced, reloads>>
    BY <1>10 DEF UploadEssays
  <2>2. desk'.confirmed = desk.confirmed /\ desk'.status = desk.status /\ desk'.clock = desk.clock
    BY <1>0, <2>1, UploadedSound
  <2>3. \E x : Other(h, x)
    BY <1>3, <1>10 DEF UploadEssays
  <2>4. QED
    BY <2>1, <2>2, <2>3
<1>11. ASSUME NEW h \in Handlers, FinishInvest(h)
       PROVE  /\ desk'.confirmed = desk.confirmed /\ desk'.status = desk.status /\ desk'.clock = desk.clock
              /\ UNCHANGED <<said, late, announced, reloads>> /\ \E x : Other(h, x)
  <2>1. /\ work[h].at = "invest" /\ desk' = Invested(work[h]) /\ UNCHANGED <<said, late, announced, reloads>>
        /\ work' = [work EXCEPT ![h] = [at |-> "store", row |-> Row(Invested(work[h]))]]
    BY <1>11 DEF FinishInvest, Keep
  <2>2. desk'.confirmed = desk.confirmed /\ desk'.status = desk.status /\ desk'.clock = desk.clock
    BY <1>0, <2>1, StepIs, InvestedSound
  <2>3. QED
    BY <1>4, <2>1, <2>2
<1>12. ASSUME NEW h \in Handlers, FinishRank(h)
       PROVE  /\ desk'.confirmed = desk.confirmed /\ desk'.status = desk.status /\ desk'.clock = desk.clock
              /\ UNCHANGED <<said, late, announced, reloads>> /\ \E x : Other(h, x)
  <2> DEFINE d == Ranked(work[h])
             s == Synced(d, work[h].who)
  <2>1. /\ work[h].at = "rank" /\ desk' = s /\ UNCHANGED <<said, late, announced, reloads>>
        /\ work' = [work EXCEPT ![h] = [at |-> "store", row |-> Row(s)]]
    BY <1>12 DEF FinishRank, Ranked, Keep
  <2>2. work[h].who \in Members /\ d \in Sessions
        /\ d.confirmed = desk.confirmed /\ d.status = desk.status /\ d.clock = desk.clock
    BY <1>0, <2>1, StepIs, RankedSound DEF Rank, Members, Sound
  <2> HIDE DEF d
  <2>3. desk'.confirmed = desk.confirmed /\ desk'.status = desk.status /\ desk'.clock = desk.clock
    BY <2>1, <2>2, SyncedIs
  <2> HIDE DEF s
  <2>4. QED
    BY <1>4, <2>1, <2>3
<1>13. ASSUME NEW h \in Handlers, FinishAgentRanking(h)
       PROVE  /\ desk'.confirmed = desk.confirmed /\ desk'.status = desk.status /\ desk'.clock = desk.clock
              /\ UNCHANGED <<said, late, announced, reloads>> /\ \E x : Other(h, x)
  <2> DEFINE d == [desk EXCEPT !.member[work[h].who].ranks = work[h].ranks]
  <2>1. /\ desk' = Synced(d, work[h].who) /\ work[h].at = "ranking"
        /\ work' = [work EXCEPT ![h] = [at |-> "store", row |-> Row(d)]]
        /\ UNCHANGED <<said, late, announced, reloads>>
    BY <1>13 DEF FinishAgentRanking
  <2>2. work[h].who \in Members
    BY <2>1, StepIs DEF Members
  <2>3. Sound(d, had, together, Halves)
        /\ d.confirmed = desk.confirmed /\ d.status = desk.status /\ d.clock = desk.clock
    BY <1>0, <2>1, AgentRankedSound
  <2> HIDE DEF d
  <2>4. d \in Sessions
    BY <2>3 DEF Sound
  <2>5. desk'.confirmed = desk.confirmed /\ desk'.status = desk.status /\ desk'.clock = desk.clock
    BY <2>1, <2>2, <2>3, <2>4, SyncedIs
  <2>6. QED
    BY <1>4, <2>1, <2>5
<1> HIDE DEF Other
<1>14. CASE \E new \in SUBSET Essays : RefuseUpload(new)
  BY <1>1, <1>14
<1>15. ASSUME NEW h \in Handlers, \E x : Other(h, x)
       PROVE  \E g \in Handlers : \E x : x.at \notin {"confirm", "start"} /\ work' = [work EXCEPT ![g] = x]
  BY <1>15 DEF Other
<1>16. QED
  BY <1>2, <1>5, <1>6, <1>7, <1>8, <1>9, <1>10, <1>11, <1>12, <1>13, <1>14, <1>15

LEMMA ConfirmStays == AnswersInv /\ AnswersNext => ConfirmInv'
<1> SUFFICES ASSUME AnswersInv, AnswersNext PROVE ConfirmInv'
  OBVIOUS
<1>0. /\ ConfirmInv /\ AnswersTypes /\ Alone /\ FlightInv /\ desk \in Sessions
      /\ (together' = 0 => together = 0) /\ work \in [Handlers -> Steps] /\ together \in Nat
      /\ late \in BOOLEAN /\ late' \in BOOLEAN /\ announced \in BOOLEAN
  BY CopiesStay, FlagsStay DEF AnswersInv, CopiesInv, Sound, Later, AnswersTypes
<1>1. ASSUME NEW p \in Members, NEW h \in Handlers, BeginConfirm(h, p) PROVE ConfirmInv'
  <2> DEFINE x == [at |-> "confirm", who |-> p, list |-> desk.confirmed]
  <2>1. Take(h, x) /\ UNCHANGED <<desk, said, late, announced, reloads>>
    BY <1>1 DEF BeginConfirm
  <2>2. x.at = "confirm" /\ x.list = desk.confirmed
    OBVIOUS
  <2> HIDE DEF x
  <2>3. \A g \in Handlers : work'[g] = IF g = h THEN x ELSE work[g]
    BY <1>0, <2>1, TakeIs, OnlyOne
  <2>4. QED
    BY <1>0, <2>1, <2>2, <2>3 DEF ConfirmInv
<1>2. ASSUME NEW h \in Handlers, BeginStartTask(h) PROVE ConfirmInv'
  <2> DEFINE x == [at |-> "start"]
  <2>1. Take(h, x) /\ UNCHANGED <<said, late, announced, reloads>> /\ desk' = [desk EXCEPT !.status = "running"]
    BY <1>2 DEF BeginStartTask
  <2>2. x.at = "start"
    OBVIOUS
  <2> HIDE DEF x
  <2>3. \A g \in Handlers : work'[g] = IF g = h THEN x ELSE work[g]
    BY <1>0, <2>1, TakeIs, OnlyOne
  <2>4. desk'.confirmed = desk.confirmed /\ desk'.status = "running"
    BY <1>0, <2>1 DEF Sessions
  <2>5. QED
    BY <1>0, <2>1, <2>2, <2>3, <2>4 DEF ConfirmInv
<1>3. ASSUME NEW h \in Handlers, FinishConfirm(h) PROVE ConfirmInv'
  <2> DEFINE confirmed == work[h].list \cup {work[h].who}
             d == [desk EXCEPT !.confirmed = confirmed]
             c == [d EXCEPT !.status = "paused", !.clock = Held]
             x == [at |-> "store", row |-> Row(desk')]
  <2>1. /\ work[h].at = "confirm" /\ said' = said \cup {work[h].who} /\ UNCHANGED <<late, reloads, together>>
        /\ \/ Persons \subseteq confirmed /\ desk' = c /\ announced' = TRUE
           \/ desk' = d /\ announced' = announced
        /\ work' = [work EXCEPT ![h] = x]
    BY <1>3 DEF FinishConfirm, Keep
  <2>2. x.at = "store"
    OBVIOUS
  <2> HIDE DEF x
  <2>3. \A g \in Handlers : work'[g] = IF g = h THEN x ELSE work[g]
    BY <1>0, <2>1, OnlyOne
  <2>4. /\ d.confirmed = confirmed /\ d.status = desk.status /\ d.clock = desk.clock
        /\ c.confirmed = confirmed /\ c.clock # "on"
    BY <1>0 DEF Sessions, Held
  <2> HIDE DEF c, d, confirmed
  <2>5. desk'.confirmed = confirmed
        /\ (desk'.clock # "on" \/ (desk'.status = desk.status /\ desk'.clock = desk.clock))
    BY <2>1, <2>4
  <2>6. late' = FALSE =>
          /\ desk'.confirmed \subseteq said' /\ (announced' = TRUE => Persons \subseteq said')
          /\ \A g \in Handlers : work'[g].at = "confirm" => work'[g].list \subseteq said'
    <3> SUFFICES ASSUME late = FALSE
                 PROVE  /\ desk'.confirmed \subseteq said' /\ (announced' = TRUE => Persons \subseteq said')
                        /\ \A g \in Handlers : work'[g].at = "confirm" => work'[g].list \subseteq said'
      BY <2>1
    <3>1. \A g \in Handlers : work[g].at = "confirm" => work[g].list \subseteq said
      BY <1>0 DEF ConfirmInv
    <3>2. confirmed \subseteq said' /\ said \subseteq said'
      BY <2>1, <3>1 DEF confirmed
    <3>3. announced = TRUE => Persons \subseteq said
      BY <1>0 DEF ConfirmInv
    <3>4. announced' = TRUE => Persons \subseteq said'
      BY <2>1, <3>2, <3>3
    <3>5. QED
      BY <2>2, <2>3, <2>5, <3>1, <3>2, <3>4
  <2>7. together' = 0 /\ reloads' = 0 =>
          /\ desk'.confirmed = said' /\ (desk'.status = "paused" => desk'.clock # "on")
          /\ \A g \in Handlers : work'[g].at \notin {"confirm", "start"}
    <3> SUFFICES ASSUME together = 0, reloads = 0
                 PROVE  /\ desk'.confirmed = said' /\ (desk'.status = "paused" => desk'.clock # "on")
                        /\ \A g \in Handlers : work'[g].at \notin {"confirm", "start"}
      BY <2>1
    <3>1. /\ desk.confirmed = said /\ (desk.status = "paused" => desk.clock # "on")
          /\ work[h].list = desk.confirmed
      BY <1>0, <2>1 DEF ConfirmInv
    <3>2. \A g \in Handlers : g # h => work[g].at = "free"
      BY <1>0, <2>1 DEF Alone
    <3>3. QED
      BY <2>1, <2>2, <2>3, <2>5, <3>1, <3>2 DEF confirmed
  <2>8. QED
    BY <2>6, <2>7 DEF ConfirmInv
<1>4. ASSUME NEW h \in Handlers, NEW x, Clearing, work' = [work EXCEPT ![h] = x], x.at = "store",
             desk'.confirmed = {}, desk'.status = "paused" => desk'.clock # "on" \/ together' # 0 \/ reloads' # 0,
             together' = 0 => \A g \in Handlers : g # h => work[g].at = "free"
      PROVE  ConfirmInv'
  <2>1. said' = {} /\ announced' = FALSE
        /\ (late' = FALSE => \A g \in Handlers : work[g].at # "confirm")
    BY <1>0, <1>4 DEF Clearing
  <2>2. \A g \in Handlers : work'[g] = IF g = h THEN x ELSE work[g]
    BY <1>0, <1>4, OnlyOne
  <2>3. late' = FALSE => \A g \in Handlers : work'[g].at # "confirm"
    BY <1>4, <2>1, <2>2
  <2>4. together' = 0 => \A g \in Handlers : work'[g].at \notin {"confirm", "start"}
    BY <1>4, <2>2
  <2>5. QED
    BY <1>4, <2>1, <2>3, <2>4 DEF ConfirmInv
<1>5. ASSUME NEW h \in Handlers, FinishStartTask(h) PROVE ConfirmInv'
  <2> DEFINE d == [desk EXCEPT !.confirmed = {}, !.clock = Started]
             x == [at |-> "store", row |-> Row(d)]
  <2>1. /\ work[h].at = "start" /\ desk' = d /\ work' = [work EXCEPT ![h] = x] /\ Clearing
        /\ UNCHANGED <<together, reloads>>
    BY <1>5 DEF FinishStartTask, Keep
  <2>2. x.at = "store"
    OBVIOUS
  <2> HIDE DEF x
  <2>3. desk'.confirmed = {} /\ desk'.status = desk.status
    BY <1>0, <2>1 DEF Sessions
  <2> HIDE DEF d
  <2>4. together' = 0 /\ reloads' = 0 => desk.status = "running"
    BY <1>0, <2>1 DEF ConfirmInv
  <2>5. together' = 0 => \A g \in Handlers : g # h => work[g].at = "free"
    BY <1>0, <2>1 DEF Alone
  <2>6. desk'.status = "paused" => desk'.clock # "on" \/ together' # 0 \/ reloads' # 0
    BY <2>3, <2>4
  <2>7. QED
    BY <1>4, <2>1, <2>2, <2>3, <2>5, <2>6
<1>6. ASSUME NEW h \in Handlers, ResetTask(h) PROVE ConfirmInv'
  <2> DEFINE fresh == [p \in Members |->
                        [NewMember EXCEPT !.same = (desk.essays # {}), !.read = desk.member[p].read]]
             d == [desk EXCEPT !.status = "waiting", !.clock = "off", !.confirmed = {}, !.member = fresh]
             x == [at |-> "store", row |-> Row(d)]
  <2>1. Take(h, x) /\ desk' = d /\ Clearing
    BY <1>6 DEF ResetTask
  <2>2. x.at = "store"
    OBVIOUS
  <2> HIDE DEF x, fresh
  <2>3. desk'.confirmed = {} /\ desk'.status = "waiting"
    BY <1>0, <2>1 DEF Sessions
  <2> HIDE DEF d
  <2>4. work' = [work EXCEPT ![h] = x] /\ (together' = 0 => \A g \in Handlers : work[g].at = "free")
    BY <1>0, <2>1, TakeIs
  <2>5. QED
    BY <1>4, <2>1, <2>2, <2>3, <2>4
<1>7. ASSUME NEW h \in Handlers, NEW status \in {"running", "paused"}, TurnTask(h, status) PROVE ConfirmInv'
  <2> DEFINE hands == IF status = "running" THEN "on" ELSE Held
             d == [desk EXCEPT !.status = status, !.clock = hands]
             x == [at |-> "store", row |-> Row(d)]
  <2>1. Take(h, x) /\ desk' = d /\ UNCHANGED <<said, late, announced, reloads>>
    BY <1>7 DEF TurnTask
  <2>2. x.at = "store"
    OBVIOUS
  <2> HIDE DEF x
  <2>3. status = "paused" => hands # "on"
    BY DEF Held
  <2> HIDE DEF hands
  <2>4. desk'.confirmed = desk.confirmed /\ desk'.status = status /\ desk'.clock = hands
    BY <1>0, <2>1 DEF Sessions
  <2> HIDE DEF d
  <2>5. \A g \in Handlers : work'[g] = IF g = h THEN x ELSE work[g]
    BY <1>0, <2>1, TakeIs, OnlyOne
  <2>6. together' = 0 => \A g \in Handlers : work[g].at = "free"
    BY <1>0, <2>1, TakeIs
  <2>7. QED
    BY <1>0, <2>1, <2>2, <2>3, <2>4, <2>5, <2>6 DEF ConfirmInv
<1>8. CASE Reload
  <2>1. /\ desk' = stored /\ said' = stored.confirmed /\ announced' = FALSE /\ reloads' = reloads + 1
        /\ \A g \in Handlers : work'[g].at = "free"
    BY <1>8 DEF Reload, Spare
  <2>2. reloads' # 0
    BY <2>1 DEF AnswersInv, AnswersTypes
  <2>3. QED
    BY <2>1, <2>2 DEF ConfirmInv
<1>9. ASSUME desk'.confirmed = desk.confirmed, desk'.status = desk.status, desk'.clock = desk.clock,
             UNCHANGED <<said, late, announced, reloads>>,
             work' = work \/ \E h \in Handlers : \E x : x.at \notin {"confirm", "start"} /\ work' = [work EXCEPT ![h] = x]
      PROVE  ConfirmInv'
  <2>1. \A g \in Handlers : work'[g] = work[g] \/ work'[g].at \notin {"confirm", "start"}
    BY <1>0, <1>9
  <2>2. QED
    BY <1>0, <1>9, <2>1, ConfirmKept
<1>10. QED
  BY <1>1, <1>2, <1>3, <1>5, <1>6, <1>7, <1>8, <1>9, DeskConfirms DEF AnswersNext

-----------------------------------------------------------------------------
LEMMA AnswersBegin == AnswersInit => AnswersInv
<1> SUFFICES ASSUME AnswersInit PROVE AnswersInv
  OBVIOUS
<1> DEFINE d == [status |-> "waiting", clock |-> "off", confirmed |-> {}, drawn |-> 0,
                 essays |-> {}, member |-> [p \in Members |-> NewMember]]
<1>1. /\ desk = d /\ stored = d /\ work = [h \in Handlers |-> Spare] /\ said = {} /\ had = {{}}
      /\ late = FALSE /\ refused = FALSE /\ announced = FALSE
      /\ together = 0 /\ answers = 0 /\ reloads = 0
  BY DEF AnswersInit
<1>2. /\ NewMember \in Participants /\ NewMember.money = Capital /\ NewMember.history = <<>>
      /\ NewMember.ranks = <<>> /\ NewMember.own = {} /\ NewMember.same = FALSE /\ NewMember.read = {}
  BY AnswersAssumption DEF NewMember, Participants, Ranking
<1>3. /\ d \in Sessions /\ d.status = "waiting" /\ d.clock = "off" /\ d.confirmed = {} /\ d.drawn = 0
      /\ d.essays = {} /\ \A p \in Members : d.member[p] = NewMember
  BY <1>2 DEF Sessions
<1> HIDE DEF d
<1>4. \A p \in Members : Listed(d, p) = {}
  BY <1>2, <1>3 DEF Listed
<1>5. ASSUME NEW p \in Members
      PROVE  SoundMember(d.member[p], Listed(d, p), d.essays, 0, 0) /\ OnceEach(d.member[p])
             /\ d.member[p].ranks = <<>>
  <2> DEFINE m == d.member[p]
  <2>1. m.money = Capital /\ m.history = <<>> /\ m.ranks = <<>>
    BY <1>2, <1>3
  <2>2. Len(m.history) = 0 /\ Len(m.ranks) = 0
    BY <2>1
  <2> HIDE DEF m
  <2>3. Chained(m) /\ Spent(m) /\ OnceEach(m)
    BY <2>1, <2>2 DEF OnceEach, Chained, Spent, Left
  <2>4. SoundMember(m, Listed(d, p), d.essays, 0, 0)
    BY <1>3, <1>4, <2>2, <2>3 DEF SoundMember
  <2>5. QED
    BY <2>1, <2>3, <2>4 DEF m
<1>6. Sound(d, {{}}, 0, 0) /\ Halves = 0
  BY <1>1, <1>3, <1>5 DEF Sound, Members, Halves
<1>7. Row(d) = d
  <2> DEFINE c == Row(d)
  <2>1. /\ c \in Sessions /\ c.essays = d.essays /\ c.confirmed = d.confirmed
        /\ c.status = d.status /\ c.drawn = d.drawn /\ c.clock = d.clock
        /\ \A p \in Members :
             /\ c.member[p].money = d.member[p].money /\ c.member[p].history = d.member[p].history
             /\ c.member[p].ranks = d.member[p].ranks /\ c.member[p].read = d.member[p].read
    BY <1>3, RowIs
  <2>2. \A p \in Members : c.member[p].same = FALSE /\ c.member[p].own = Listed(d, p)
    BY <1>3, RowIs
  <2> HIDE DEF c
  <2>3. \A p \in Members : c.member[p].same = d.member[p].same /\ c.member[p].own = d.member[p].own
    <3>1. \A p \in Members : d.member[p].same = FALSE /\ d.member[p].own = {}
      BY <1>2, <1>3
    <3>2. QED
      BY <1>4, <2>2, <3>1, Zenon
  <2>4. c = d
    BY <1>3, <2>1, <2>3, SameSession
  <2>5. QED
    BY <2>4 DEF c
<1>8. \A h \in Handlers : work[h].at = "free"
  BY <1>1 DEF Spare
<1>9. AnswersTypes
  BY <1>1 DEF AnswersTypes, Steps, Spare
<1>10. CopiesInv
  BY <1>1, <1>6, <1>7, <1>8 DEF CopiesInv, Storing
<1>11. FlightInv /\ Alone
  BY <1>8, NothingChecked DEF FlightInv, Alone
<1>12. ConfirmInv /\ StoreInv
  BY <1>1, <1>3, <1>7, <1>8 DEF ConfirmInv, StoreInv, Storing
<1>13. QED
  BY <1>9, <1>10, <1>11, <1>12 DEF AnswersInv

LEMMA AnswersStay == AnswersInv /\ [AnswersNext]_answerVars => AnswersInv'
<1>1. AnswersInv /\ AnswersNext => AnswersInv'
  BY CopiesStay, AnswerTypesStay, FlightStays, ConfirmStays DEF AnswersInv
<1>2. AnswersInv /\ UNCHANGED answerVars => AnswersInv'
  BY DEF AnswersInv, AnswersTypes, CopiesInv, FlightInv, Alone, ConfirmInv, StoreInv, Storing, Halves,
     answerVars
<1>3. QED
  BY <1>1, <1>2

(* What no request holds is as it should be.                                 *)
LEMMA AnswersSuffice == AnswersInv => AnswersAreKept
<1> SUFFICES ASSUME AnswersInv PROVE AnswersAreKept
  OBVIOUS
<1>0. /\ Sound(desk, had, together, Halves) /\ desk \in Sessions /\ Capital \in Nat
      /\ \A p \in Members : SoundMember(desk.member[p], Listed(desk, p), desk.essays, together, Halves)
      /\ \A p \in Members : desk.member[p] \in Participants
  BY AnswersAssumption DEF AnswersInv, CopiesInv, Sound, Sessions
<1>1. AnswersTypeOK
  BY <1>0 DEF AnswersTypeOK, SoundMember, Sessions, Participants
<1>2. InvestmentsChain
  <2> SUFFICES ASSUME NEW p \in Members
      PROVE  LET history == desk.member[p].history
                 left == [i \in 0..Len(history) |-> IF i = 0 THEN Capital ELSE history[i].after]
             IN  /\ desk.member[p].money = left[Len(history)]
                 /\ \A i \in 1..Len(history) :
                     /\ history[i].after = history[i].before - history[i].amount /\ history[i].after >= 0
                     /\ \E j \in 0..(i - 1) : history[i].before = left[j]
    BY DEF InvestmentsChain
  <2> DEFINE m == desk.member[p]
             history == desk.member[p].history
             left == [i \in 0..Len(history) |-> IF i = 0 THEN Capital ELSE history[i].after]
  <2> DEFINE T == [amount : Nat, before : Nat, after : Nat]
  <2>0. history \in Seq(T)
    BY <1>0 DEF Participants
  <2>1. Len(history) \in Nat /\ \A i \in 1..Len(history) : history[i] \in T
    <3> HIDE DEF T, history
    <3>1. QED
      BY <2>0
  <2>2. Chained(m)
    BY <1>0 DEF SoundMember
  <2>3. \A j \in 0..Len(history) : left[j] = Left(m, j)
    BY DEF Left
  <2>4. m.money = left[Len(history)]
    <3>1. m.money = Left(m, Len(history)) /\ Len(history) \in 0..Len(history)
      BY <2>1, <2>2 DEF Chained
    <3> HIDE DEF left, m, history
    <3>2. QED
      BY <2>3, <3>1
  <2>5. ASSUME NEW i \in 1..Len(history)
        PROVE  /\ history[i].after = history[i].before - history[i].amount /\ history[i].after >= 0
               /\ \E j \in 0..(i - 1) : history[i].before = left[j]
    <3>1. history[i].after = history[i].before - history[i].amount /\ history[i].after >= 0
      BY <2>1, <2>2 DEF Chained
    <3>2. PICK j \in 0..(i - 1) : history[i].before = Left(m, j)
      BY <2>2 DEF Chained
    <3>3. j \in 0..Len(history)
      BY <2>1
    <3> HIDE DEF left
    <3>4. history[i].before = left[j]
      BY <2>3, <3>2, <3>3
    <3>5. QED
      BY <3>1, <3>4
  <2>6. QED
    BY <2>4, <2>5
<1>3. InvestedIsSpent
  <2> SUFFICES ASSUME together = 0, NEW p \in Members, NEW i \in 1..Len(desk.member[p].history)
      PROVE  desk.member[p].history[i].before
                = IF i = 1 THEN Capital ELSE desk.member[p].history[i - 1].after
    BY DEF InvestedIsSpent
  <2>1. Spent(desk.member[p])
    BY <1>0 DEF SoundMember
  <2>2. QED
    BY <2>1 DEF Spent, Left
<1>4. RankingsStand
  <2>1. \A p \in Members : \A i \in 1..Len(desk.member[p].ranks) : desk.member[p].ranks[i].essay \in desk.essays
    BY <1>0 DEF SoundMember
  <2>2. ASSUME together = 0, NEW p \in Persons, NEW e \in Essays
        PROVE  Cardinality(Places(desk.member[p].ranks, e)) <= 1
    <3> DEFINE places == Places(desk.member[p].ranks, e)
    <3>1. \A i, j \in places : i = j
      BY <1>0, <2>2 DEF Sound, OnceEach, Places
    <3>2. places = {} \/ \E i : places = {i}
      BY <3>1
    <3> HIDE DEF places
    <3>3. Cardinality(places) <= 1
      BY <3>2, FS_EmptySet, FS_Singleton
    <3>4. QED
      BY <3>3 DEF places
  <2>3. ASSUME NEW p \in Bots, desk.member[p].ranks # <<>>
        PROVE  LET ranks == desk.member[p].ranks
               IN  /\ {ranks[i].essay : i \in 1..Len(ranks)} \in had
                   /\ \A i, j \in 1..Len(ranks) : i # j => ranks[i].rank # ranks[j].rank
    BY <1>0, <2>3 DEF Sound, Whole
  <2>4. QED
    BY <2>1, <2>2, <2>3 DEF RankingsStand
<1>5. EssaysAreShared
  <2>1. ~refused => Halves = 0
    BY DEF Halves
  <2>2. QED
    BY <1>0, <2>1 DEF EssaysAreShared, SoundMember
<1>6. ConfirmedSaidSo
  BY DEF AnswersInv, AnswersTypes, ConfirmInv, ConfirmedSaidSo
<1>7. ConfirmationsCount
  BY DEF AnswersInv, ConfirmInv, ConfirmationsCount
<1>8. StoredIsCurrent
  <2> SUFFICES ASSUME \A h \in Handlers : work[h] = Spare, together = 0, ~refused PROVE stored = Row(desk)
    BY DEF StoredIsCurrent
  <2>1. refused = FALSE /\ \A h \in Handlers : work[h].at = "free"
    BY DEF AnswersInv, AnswersTypes, Spare
  <2>2. QED
    BY <2>1 DEF AnswersInv, StoreInv
<1>9. QED
  BY <1>1, <1>2, <1>3, <1>4, <1>5, <1>6, <1>7, <1>8 DEF AnswersAreKept

(* What participants answer is kept as it was given, in all three tasks and  *)
(* for any participants, capital, essays, requests and restarts              *)
(* (TaskAnswers.AnswersAreKept).                                             *)
THEOREM AnswersKept == AnswersSpec => []AnswersAreKept
<1>1. AnswersSpec => []AnswersInv
  BY AnswersBegin, AnswersStay, PTL DEF AnswersSpec
<1>2. QED
  BY <1>1, AnswersSuffice, PTL

-----------------------------------------------------------------------------
(* Sums over finite sets: induction on the size of a set, from the theorem *)
(* that the numbers are well-founded.                                      *)

Below == {ss \in Nat \X Nat : ss[1] < ss[2]}
LEMMA BelowFounded == IsWellFoundedOn(Below, Nat)
BY NatLessThanWellFounded DEF OpToRel, Below

LEMMA SetInduction ==
    ASSUME NEW S, 0 \in S, \A n \in Nat : n \in S => n + 1 \in S
    PROVE  Nat \subseteq S
<1> DEFINE T == Nat \ S
<1> SUFFICES ASSUME T # {} PROVE FALSE
  OBVIOUS
<1>1. PICK x \in T : \A y \in T : ~(<<y, x>> \in Below)
  <2> T \subseteq Nat
    OBVIOUS
  <2> HIDE DEF T
  <2> QED BY WFMin, BelowFounded
<1>2. \A y \in T : ~(y < x)
  BY <1>1 DEF Below
<1>3. x # 0 /\ x - 1 \in Nat /\ x - 1 < x
  OBVIOUS
<1>4. x - 1 \in S
  BY <1>2, <1>3
<1> QED BY <1>3, <1>4

Pick(s) == CHOOSE x \in s : TRUE
Sums(g, f, S) ==
    g = [s \in SUBSET S |-> IF s = {} THEN 0 ELSE f[Pick(s)] + g[s \ {Pick(s)}]]

LEMMA TotalDef ==
    ASSUME NEW f, NEW S
    PROVE  TotalOf(f, S) = (CHOOSE g : Sums(g, f, S))[S]
BY DEF TotalOf, MapThenSumSet, MapThenFoldSet, Sums, Pick

\* Of a sum on the subsets of a finite set there is one, by induction on their size.
Sized(S, n) == {s \in SUBSET S : Cardinality(s) <= n}
SumsTo(g, f, S, n) ==
    g = [s \in Sized(S, n) |-> IF s = {} THEN 0 ELSE f[Pick(s)] + g[s \ {Pick(s)}]]

LEMMA Smaller ==
    ASSUME NEW S, IsFiniteSet(S), NEW s \in SUBSET S, s # {}
    PROVE  /\ Pick(s) \in s /\ s \ {Pick(s)} \in SUBSET S
           /\ IsFiniteSet(s) /\ Cardinality(s) \in Nat \ {0}
           /\ Cardinality(s \ {Pick(s)}) = Cardinality(s) - 1
<1>1. Pick(s) \in s
  BY DEF Pick
<1>2. IsFiniteSet(s) /\ Cardinality(s) \in Nat
  BY FS_Subset, FS_CardinalityType
<1>3. Cardinality(s \ {Pick(s)}) = Cardinality(s) - 1
  BY <1>1, <1>2, FS_RemoveElement
<1>4. Cardinality(s) # 0
  BY <1>2, FS_EmptySet
<1> QED BY <1>1, <1>2, <1>3, <1>4

LEMMA SumsExist ==
    ASSUME NEW f, NEW S, IsFiniteSet(S)
    PROVE  Sums(CHOOSE g : Sums(g, f, S), f, S)
<1> DEFINE D == {n \in Nat : \E g : SumsTo(g, f, S, n)}
<1>1. 0 \in D
  <2> DEFINE g == [s \in Sized(S, 0) |-> 0]
  <2>1. \A s \in Sized(S, 0) : s = {}
    <3> SUFFICES ASSUME NEW s \in Sized(S, 0), s # {} PROVE FALSE
      OBVIOUS
    <3>1. s \in SUBSET S /\ Cardinality(s) <= 0
      BY DEF Sized
    <3>2. Cardinality(s) \in Nat \ {0}
      BY <3>1, Smaller
    <3> QED BY <3>1, <3>2
  <2>2. SumsTo(g, f, S, 0)
    BY <2>1 DEF SumsTo
  <2> HIDE DEF g
  <2> QED BY <2>2
<1>2. ASSUME NEW n \in Nat, n \in D PROVE n + 1 \in D
  <2>1. PICK g : SumsTo(g, f, S, n)
    BY <1>2
  <2> DEFINE h == [s \in Sized(S, n + 1) |-> IF s = {} THEN 0 ELSE f[Pick(s)] + g[s \ {Pick(s)}]]
  <2>2. ASSUME NEW s \in Sized(S, n + 1), s # {} PROVE s \ {Pick(s)} \in Sized(S, n)
    BY <2>2, Smaller DEF Sized
  <2>3. Sized(S, n) \subseteq Sized(S, n + 1)
    <3> SUFFICES ASSUME NEW s \in Sized(S, n) PROVE s \in Sized(S, n + 1)
      OBVIOUS
    <3>1. s \in SUBSET S /\ Cardinality(s) <= n /\ IsFiniteSet(s) /\ Cardinality(s) \in Nat
      BY FS_Subset, FS_CardinalityType DEF Sized
    <3> QED BY <3>1 DEF Sized
  <2>4. \A s \in Sized(S, n) : h[s] = g[s]
    <3> SUFFICES ASSUME NEW s \in Sized(S, n) PROVE h[s] = g[s]
      OBVIOUS
    <3>1. g[s] = IF s = {} THEN 0 ELSE f[Pick(s)] + g[s \ {Pick(s)}]
      BY <2>1 DEF SumsTo
    <3> QED BY <3>1, <2>3
  <2>5. SumsTo(h, f, S, n + 1)
    <3>1. \A s \in Sized(S, n + 1) : s # {} => h[s \ {Pick(s)}] = g[s \ {Pick(s)}]
      BY <2>2, <2>4
    <3>2. h = [s \in Sized(S, n + 1) |-> IF s = {} THEN 0 ELSE f[Pick(s)] + h[s \ {Pick(s)}]]
      <4> HIDE DEF h
      <4>1. h = [s \in Sized(S, n + 1) |-> IF s = {} THEN 0 ELSE f[Pick(s)] + g[s \ {Pick(s)}]]
        BY DEF h
      <4> QED BY <4>1, <3>1
    <3> QED BY <3>2 DEF SumsTo
  <2> HIDE DEF h
  <2> QED BY <2>5
<1>3. Nat \subseteq D
  <2> HIDE DEF D
  <2> QED BY <1>1, <1>2, SetInduction
<1>4. Cardinality(S) \in Nat /\ Sized(S, Cardinality(S)) = SUBSET S
  <2>1. Cardinality(S) \in Nat
    BY FS_CardinalityType
  <2>2. \A s \in SUBSET S : Cardinality(s) <= Cardinality(S)
    BY FS_Subset
  <2> QED BY <2>1, <2>2 DEF Sized
<1>5. PICK g : SumsTo(g, f, S, Cardinality(S))
  BY <1>3, <1>4
<1>6. Sums(g, f, S)
  BY <1>4, <1>5 DEF SumsTo, Sums
<1> QED BY <1>6


\* What holds of a set when it holds of the smaller ones holds of all subsets.
LEMMA SizeInduction ==
    ASSUME NEW S, IsFiniteSet(S), NEW D,
           \A s \in SUBSET S :
               (\A t \in SUBSET S : Cardinality(t) < Cardinality(s) => t \in D) => s \in D
    PROVE  SUBSET S \subseteq D
<1> DEFINE N == {n \in Nat : \A t \in SUBSET S : Cardinality(t) < n => t \in D}
<1>0. \A t \in SUBSET S : Cardinality(t) \in Nat
  BY FS_Subset, FS_CardinalityType
<1>1. 0 \in N
  BY <1>0
<1>2. ASSUME NEW n \in Nat, n \in N PROVE n + 1 \in N
  <2>1. ASSUME NEW s \in SUBSET S, Cardinality(s) < n + 1 PROVE s \in D
    <3>1. \A t \in SUBSET S : Cardinality(t) < Cardinality(s) => t \in D
      BY <1>0, <1>2, <2>1
    <3> QED BY <3>1
  <2> QED BY <2>1
<1>3. Nat \subseteq N
  <2> HIDE DEF N
  <2> QED BY <1>1, <1>2, SetInduction
<1>4. ASSUME NEW s \in SUBSET S PROVE s \in D
  <2>1. Cardinality(s) + 1 \in N /\ Cardinality(s) \in Nat
    BY <1>0, <1>3
  <2> QED BY <2>1
<1> QED BY <1>4

LEMMA SumsAgree ==
    ASSUME NEW S, IsFiniteSet(S), NEW T \in SUBSET S, NEW f, NEW h, NEW g, NEW k,
           Sums(g, f, S), Sums(k, h, T), \A x \in T : f[x] = h[x]
    PROVE  \A s \in SUBSET T : g[s] = k[s]
<1> DEFINE D == {s \in SUBSET T : g[s] = k[s]}
<1>0. IsFiniteSet(T)
  BY FS_Subset
<1>1. ASSUME NEW s \in SUBSET T,
             \A t \in SUBSET T : Cardinality(t) < Cardinality(s) => t \in D
      PROVE  s \in D
  <2>1. g[s] = IF s = {} THEN 0 ELSE f[Pick(s)] + g[s \ {Pick(s)}]
    BY DEF Sums
  <2>2. k[s] = IF s = {} THEN 0 ELSE h[Pick(s)] + k[s \ {Pick(s)}]
    BY DEF Sums
  <2>3. CASE s = {}
    BY <2>1, <2>2, <2>3
  <2>4. CASE s # {}
    <3>1. /\ Pick(s) \in s /\ s \ {Pick(s)} \in SUBSET T
          /\ Cardinality(s \ {Pick(s)}) < Cardinality(s)
      BY <1>0, <2>4, Smaller
    <3>2. g[s \ {Pick(s)}] = k[s \ {Pick(s)}]
      BY <1>1, <3>1
    <3> QED BY <2>1, <2>2, <2>4, <3>1, <3>2
  <2> QED BY <2>3, <2>4
<1>2. SUBSET T \subseteq D
  <2> HIDE DEF D
  <2> QED BY <1>0, <1>1, SizeInduction
<1> QED BY <1>2

\* Any element may be taken first.
Splits(g, f, S) == \A s \in SUBSET S : g[s] \in Int /\ \A x \in s : g[s] = f[x] + g[s \ {x}]

LEMMA SumsSplit ==
    ASSUME NEW S, IsFiniteSet(S), NEW f, f \in [S -> Int], NEW g, Sums(g, f, S)
    PROVE  Splits(g, f, S)
<1> DEFINE Good(s) == g[s] \in Int /\ \A x \in s : g[s] = f[x] + g[s \ {x}]
           D == {s \in SUBSET S : Good(s)}
<1>1. ASSUME NEW s \in SUBSET S,
             \A t \in SUBSET S : Cardinality(t) < Cardinality(s) => t \in D
      PROVE  s \in D
  <2>1. g[s] = IF s = {} THEN 0 ELSE f[Pick(s)] + g[s \ {Pick(s)}]
    BY DEF Sums
  <2>3. CASE s = {}
    BY <2>1, <2>3
  <2>4. CASE s # {}
    <3> DEFINE c == Pick(s)
    <3>0. /\ c \in s /\ Cardinality(s) \in Nat \ {0}
          /\ Cardinality(s \ {c}) = Cardinality(s) - 1
      BY <2>4, Smaller
    <3>1. /\ c \in s /\ s \ {c} \in SUBSET S /\ c \in S
          /\ Cardinality(s \ {c}) < Cardinality(s)
      <4> HIDE DEF c
      <4> QED BY <3>0
    <3>2. g[s \ {c}] \in Int /\ f[c] \in Int /\ g[s] = f[c] + g[s \ {c}]
      BY <1>1, <2>1, <2>4, <3>1
    <3>3. ASSUME NEW x \in s, x # c PROVE g[s] = f[x] + g[s \ {x}]
      <4>0. IsFiniteSet(s) /\ Cardinality(s) \in Nat
        BY FS_Subset, FS_CardinalityType
      <4>1. /\ x \in s \ {c} /\ c \in s \ {x} /\ s \ {x} \in SUBSET S
            /\ Cardinality(s \ {x}) < Cardinality(s)
        BY <3>1, <3>3, <4>0, FS_RemoveElement
      <4>2. g[s \ {c}] = f[x] + g[(s \ {c}) \ {x}]
        BY <1>1, <3>1, <4>1
      <4>3. g[s \ {x}] = f[c] + g[(s \ {x}) \ {c}]
        BY <1>1, <4>1
      <4>4. (s \ {c}) \ {x} = (s \ {x}) \ {c}
        OBVIOUS
      <4>6. /\ (s \ {c}) \ {x} \in SUBSET S
            /\ Cardinality((s \ {c}) \ {x}) < Cardinality(s)
        <5>1. IsFiniteSet(s \ {c}) /\ Cardinality(s \ {c}) = Cardinality(s) - 1
          BY <3>1, <4>0, FS_RemoveElement
        <5>2. Cardinality((s \ {c}) \ {x}) = Cardinality(s \ {c}) - 1
          BY <4>1, <5>1, FS_RemoveElement
        <5> HIDE DEF c
        <5> QED BY <3>1, <4>0, <5>1, <5>2
      <4>5. g[(s \ {c}) \ {x}] \in Int /\ f[x] \in Int
        BY <1>1, <3>1, <4>6
      <4>7. g[(s \ {x}) \ {c}] = g[(s \ {c}) \ {x}]
        BY <4>4
      <4> HIDE DEF c
      <4> QED BY <3>2, <4>2, <4>3, <4>5, <4>7
    <3>4. \A x \in s : g[s] = f[x] + g[s \ {x}]
      BY <3>2, <3>3
    <3>5. g[s] \in Int
      <4> HIDE DEF c
      <4> QED BY <3>2
    <3> QED BY <3>4, <3>5
  <2> QED BY <2>3, <2>4
<1>2. SUBSET S \subseteq D
  <2> HIDE DEF D
  <2> QED BY <1>1, SizeInduction
<1> QED BY <1>2 DEF Splits

LEMMA TotalAgrees ==
    ASSUME NEW S, IsFiniteSet(S), NEW f, NEW h, \A x \in S : f[x] = h[x]
    PROVE  TotalOf(f, S) = TotalOf(h, S)
<1>1. /\ Sums(CHOOSE g : Sums(g, f, S), f, S) /\ Sums(CHOOSE g : Sums(g, h, S), h, S)
  BY SumsExist
<1>2. (CHOOSE g : Sums(g, f, S))[S] = (CHOOSE g : Sums(g, h, S))[S]
  <2> DEFINE g == CHOOSE g : Sums(g, f, S)
             k == CHOOSE k : Sums(k, h, S)
  <2>1. Sums(g, f, S) /\ Sums(k, h, S) /\ S \in SUBSET S
    BY <1>1
  <2> HIDE DEF g, k
  <2>2. \A s \in SUBSET S : g[s] = k[s]
    BY <2>1, SumsAgree
  <2> QED BY <2>2 DEF g, k
<1> QED BY <1>2, TotalDef

LEMMA TotalSplits ==
    ASSUME NEW S, IsFiniteSet(S), NEW f \in [S -> Int]
    PROVE  /\ TotalOf(f, S) \in Int
           /\ \A x \in S : TotalOf(f, S) = f[x] + TotalOf(f, S \ {x})
<1>1. PICK g : Sums(g, f, S) /\ TotalOf(f, S) = g[S]
  BY SumsExist, TotalDef
<1>2. ASSUME NEW x \in S PROVE TotalOf(f, S \ {x}) = g[S \ {x}]
  <2> DEFINE k == CHOOSE k : Sums(k, f, S \ {x})
  <2>1. IsFiniteSet(S \ {x}) /\ S \ {x} \in SUBSET S
    BY FS_RemoveElement
  <2>2. Sums(k, f, S \ {x}) /\ TotalOf(f, S \ {x}) = k[S \ {x}]
    BY <2>1, SumsExist, TotalDef
  <2> HIDE DEF k
  <2> QED BY <1>1, <2>1, <2>2, SumsAgree
<1>3. g[S] \in Int /\ \A x \in S : g[S] = f[x] + g[S \ {x}]
  <2>1. Splits(g, f, S)
    BY <1>1, SumsSplit
  <2> QED BY <2>1 DEF Splits
<1> QED BY <1>1, <1>2, <1>3

\* What changes one term changes the sum by as much.
LEMMA TotalChanges ==
    ASSUME NEW S, IsFiniteSet(S), NEW f \in [S -> Int], NEW h \in [S -> Int], NEW x \in S,
           \A y \in S \ {x} : h[y] = f[y]
    PROVE  /\ TotalOf(f, S) \in Int /\ TotalOf(h, S) \in Int
           /\ TotalOf(h, S) = TotalOf(f, S) + (h[x] - f[x])
<1>1. IsFiniteSet(S \ {x})
  BY FS_RemoveElement
<1>2. TotalOf(f, S \ {x}) = TotalOf(h, S \ {x})
  BY <1>1, TotalAgrees
<1>3. TotalOf(f, S) = f[x] + TotalOf(f, S \ {x}) /\ TotalOf(h, S) = h[x] + TotalOf(h, S \ {x})
  BY TotalSplits
<1>4. TotalOf(f, S) \in Int /\ TotalOf(h, S) \in Int
  BY TotalSplits
<1>5. TotalOf(f, S \ {x}) \in Int
  <2> DEFINE k == [y \in S \ {x} |-> f[y]]
  <2>1. k \in [S \ {x} -> Int] /\ \A y \in S \ {x} : k[y] = f[y]
    OBVIOUS
  <2> HIDE DEF k
  <2>2. TotalOf(k, S \ {x}) \in Int
    BY <1>1, <2>1, TotalSplits
  <2> QED BY <1>1, <2>1, <2>2, TotalAgrees
<1> QED BY <1>2, <1>3, <1>4, <1>5

LEMMA TotalZero ==
    ASSUME NEW S, IsFiniteSet(S), NEW f, \A x \in S : f[x] = 0
    PROVE  TotalOf(f, S) = 0
<1>1. PICK g : Sums(g, f, S) /\ TotalOf(f, S) = g[S]
  BY SumsExist, TotalDef
<1> DEFINE D == {s \in SUBSET S : g[s] = 0}
<1>2. ASSUME NEW s \in SUBSET S,
             \A t \in SUBSET S : Cardinality(t) < Cardinality(s) => t \in D
      PROVE  s \in D
  <2>1. g[s] = IF s = {} THEN 0 ELSE f[Pick(s)] + g[s \ {Pick(s)}]
    BY <1>1 DEF Sums
  <2>2. CASE s = {}
    BY <2>1, <2>2
  <2>3. CASE s # {}
    <3>1. /\ Pick(s) \in s /\ s \ {Pick(s)} \in SUBSET S
          /\ Cardinality(s) \in Nat /\ Cardinality(s \ {Pick(s)}) = Cardinality(s) - 1
      BY <2>3, Smaller
    <3>2. g[s \ {Pick(s)}] = 0 /\ f[Pick(s)] = 0
      BY <1>2, <3>1
    <3> QED BY <2>1, <2>3, <3>2
  <2> QED BY <2>2, <2>3
<1>3. SUBSET S \subseteq D
  <2> HIDE DEF D
  <2> QED BY <1>2, SizeInduction
<1> QED BY <1>1, <1>3

LEMMA TotalMoves ==
    ASSUME NEW S, IsFiniteSet(S), NEW f \in [S -> Int], NEW h \in [S -> Int],
           NEW x \in S, NEW y \in S, x # y, \A z \in S \ {x, y} : h[z] = f[z]
    PROVE  /\ TotalOf(f, S) \in Int /\ TotalOf(h, S) \in Int
           /\ TotalOf(h, S) = TotalOf(f, S) + (h[x] - f[x]) + (h[y] - f[y])
<1> DEFINE m == [z \in S |-> IF z = x THEN h[x] ELSE f[z]]
<1>1. /\ m \in [S -> Int] /\ m[x] = h[x] /\ m[y] = f[y]
      /\ \A z \in S \ {x} : m[z] = f[z]
      /\ \A z \in S \ {y} : h[z] = m[z]
  OBVIOUS
<1> HIDE DEF m
<1>2. /\ TotalOf(f, S) \in Int /\ TotalOf(m, S) \in Int
      /\ TotalOf(m, S) = TotalOf(f, S) + (m[x] - f[x])
  BY <1>1, TotalChanges
<1>3. TotalOf(h, S) \in Int /\ TotalOf(h, S) = TotalOf(m, S) + (h[y] - m[y])
  BY <1>1, TotalChanges
<1>4. h[x] \in Int /\ h[y] \in Int /\ f[x] \in Int /\ f[y] \in Int
  OBVIOUS
<1> QED BY <1>1, <1>2, <1>3, <1>4
-----------------------------------------------------------------------------
(* ShapeFactory, for any participants, shapes, prices, orders and threads.   *)

Bags == [Shapes -> Nat]
Owners ==
    [money : Int, inventory : Bags, making : Bags, made : Nat, tasks : Bags,
     fulfilled : Nat, started : Nat]
Offers == [id : Nat, from : Players, to : Players, kind : {"buy", "sell"}, shape : Shapes]
Ends == [id : Nat, how : {"accepted", "declined", "cancelled"}]
Games == [player : [Players -> Owners], offers : Seq(Offers), ended : Seq(Ends)]

(* What a thread does next.                                                  *)
Makes == [at : {"make"}, who : Players, shape : Shapes, left : {1, 2}, money : Int]
Collects == [at : {"collect"}, who : Players, due : {One(s) : s \in Shapes}, rest : Bags]
Settles ==
    [at : {"settle"}, offer : Offers, index : Nat \ {0}, how : {"accepted", "declined", "cancelled"}]
Doings == [at : {"free"}] \cup [at : {"save"}, row : Games] \cup Makes \cup Collects \cup Settles

FactoryTypes ==
    /\ game \in Games /\ saved \in Games
    /\ threads \in [Threads -> Doings]
    /\ proposed \in Nat /\ overlaps \in Nat /\ restarted \in Nat /\ unsaved \in BOOLEAN

(* A game adds up: the accounts, the limits, and every offer once.           *)
Money(g) == [p \in Players |-> g.player[p].money]
Worth(g) ==
    [p \in Players |->
        StartingMoney + IncentiveMoney * g.player[p].fulfilled - ShapeCost * g.player[p].started]
StartedBy(g) == [p \in Players |-> g.player[p].started]
Accounted(g) ==
    [p \in Players |->
        Size(g.player[p].making) + Size(g.player[p].inventory) + g.player[p].fulfilled]

Within(g) ==
    \A p \in Players :
        /\ g.player[p].money >= 0
        /\ g.player[p].made + Size(g.player[p].making) <= MaxProductionNum

OfferedOnce(g, last) ==
    /\ \A i \in 1..Len(g.offers) : g.offers[i].from # g.offers[i].to /\ g.offers[i].id <= last
    /\ \A i, j \in 1..Len(g.offers) : g.offers[i].id = g.offers[j].id => i = j
    /\ \A i \in 1..Len(g.ended) : g.ended[i].id <= last
    /\ \A i, j \in 1..Len(g.ended) : g.ended[i].id = g.ended[j].id => i = j
    /\ \A i \in 1..Len(g.offers), j \in 1..Len(g.ended) : g.offers[i].id # g.ended[j].id

Balanced(g) ==
    Total(Money(g)) = Total(Worth(g)) /\ Total(StartedBy(g)) = Total(Accounted(g))

AddsUp(g, last) == Balanced(g) /\ Within(g) /\ OfferedOnce(g, last)

(* What a thread has checked still holds.                                    *)
Holds(r, g) ==
    /\ r.at = "make" =>
        /\ r.money = g.player[r.who].money /\ r.money >= ShapeCost
        /\ g.player[r.who].made + Size(g.player[r.who].making) < MaxProductionNum
    /\ r.at = "collect" =>
        \E s \in Shapes :
            /\ g.player[r.who].making[s] > 0
            /\ r.due = One(s) /\ r.rest = Minus(g.player[r.who].making, One(s))
    /\ r.at = "settle" =>
        /\ r.index <= Len(g.offers) /\ r.offer = g.offers[r.index]
        /\ r.how = "accepted" =>
            /\ g.player[Seller(r.offer)].inventory[r.offer.shape] > 0
            /\ g.player[Buyer(r.offer)].money >= TradePrice
    /\ r.at = "save" => r.row = g

OneAtWork == \A t, u \in Threads : threads[t] # Free /\ threads[u] # Free => t = u

FactoryInv ==
    /\ FactoryTypes
    /\ overlaps = 0 =>
        /\ OneAtWork /\ AddsUp(game, proposed) /\ AddsUp(saved, proposed)
        /\ \A t \in Threads : Holds(threads[t], game)
        /\ SavedIsCurrent

-----------------------------------------------------------------------------
(* Bags.                                                                     *)
LEMMA FiniteSets == IsFiniteSet(Shapes) /\ IsFiniteSet(Players)
BY FactoryAssumption, FS_Union DEF Players

LEMMA BagTypes ==
    /\ Nothing \in Bags /\ \A s \in Shapes : One(s) \in Bags
    /\ \A a, b \in Bags : Plus(a, b) \in Bags /\ Minus(a, b) \in Bags
BY DEF Nothing, Bags, One, Plus, Minus

LEMMA SizeType == \A b \in Bags : Size(b) \in Int
<1> SUFFICES ASSUME NEW b \in Bags PROVE Size(b) \in Int
  OBVIOUS
<1>1. b \in [Shapes -> Int]
  BY DEF Bags
<1> QED BY <1>1, FiniteSets, TotalSplits DEF Size

LEMMA SizeNothing == Size(Nothing) = 0
<1>1. \A s \in Shapes : Nothing[s] = 0
  BY DEF Nothing
<1> QED BY <1>1, FiniteSets, TotalZero DEF Size

LEMMA SizePlus ==
    ASSUME NEW b \in Bags, NEW s \in Shapes PROVE Size(Plus(b, One(s))) = Size(b) + 1
<1> DEFINE c == Plus(b, One(s))
<1>1. b \in [Shapes -> Int] /\ c \in [Shapes -> Int]
  BY DEF Bags, Plus, One
<1>2. c[s] = b[s] + 1 /\ \A t \in Shapes \ {s} : c[t] = b[t]
  BY DEF Bags, Plus, One
<1> HIDE DEF c
<1>3. TotalOf(c, Shapes) = TotalOf(b, Shapes) + (c[s] - b[s]) /\ TotalOf(b, Shapes) \in Int
  BY <1>1, <1>2, FiniteSets, TotalChanges
<1>4. b[s] \in Int
  BY <1>1
<1> QED BY <1>2, <1>3, <1>4 DEF c, Size

LEMMA SizeMinus ==
    ASSUME NEW b \in Bags, NEW s \in Shapes, b[s] > 0
    PROVE  Size(Minus(b, One(s))) = Size(b) - 1
<1> DEFINE c == Minus(b, One(s))
<1>1. b \in [Shapes -> Int] /\ c \in [Shapes -> Int]
  BY DEF Bags, Minus, One
<1>2. c[s] = b[s] - 1 /\ \A t \in Shapes \ {s} : c[t] = b[t]
  <2>1. c[s] = b[s] - 1
    BY DEF Bags, Minus, One
  <2>2. ASSUME NEW t \in Shapes \ {s} PROVE c[t] = b[t]
    BY DEF Bags, Minus, One
  <2> QED BY <2>1, <2>2
<1> HIDE DEF c
<1>3. TotalOf(c, Shapes) = TotalOf(b, Shapes) + (c[s] - b[s]) /\ TotalOf(b, Shapes) \in Int
  BY <1>1, <1>2, FiniteSets, TotalChanges
<1>4. b[s] \in Int
  BY <1>1
<1> QED BY <1>2, <1>3, <1>4 DEF c, Size

LEMMA SizeOne == ASSUME NEW s \in Shapes PROVE Size(One(s)) = 1
<1>1. Plus(Nothing, One(s)) = One(s)
  BY DEF Plus, Nothing, One
<1>2. Size(Plus(Nothing, One(s))) = Size(Nothing) + 1
  BY BagTypes, SizePlus
<1> QED BY <1>1, <1>2, SizeNothing

-----------------------------------------------------------------------------
(* Accounts.                                                                 *)
LEMMA Accounts ==
    ASSUME NEW g \in Games
    PROVE  /\ Money(g) \in [Players -> Int] /\ Worth(g) \in [Players -> Int]
           /\ StartedBy(g) \in [Players -> Int] /\ Accounted(g) \in [Players -> Int]
<1>1. ASSUME NEW p \in Players
      PROVE  /\ g.player[p] \in Owners /\ g.player[p].money \in Int
             /\ g.player[p].started \in Nat /\ g.player[p].fulfilled \in Nat
             /\ g.player[p].making \in Bags /\ g.player[p].inventory \in Bags
  BY DEF Games, Owners
<1>2. StartingMoney \in Nat /\ IncentiveMoney \in Nat /\ ShapeCost \in Nat
  BY FactoryAssumption
<1>3. ASSUME NEW p \in Players
      PROVE StartingMoney + IncentiveMoney * g.player[p].fulfilled - ShapeCost * g.player[p].started \in Int
  BY <1>1, <1>2
<1>4. ASSUME NEW p \in Players
      PROVE Size(g.player[p].making) + Size(g.player[p].inventory) + g.player[p].fulfilled \in Int
  <2>1. Size(g.player[p].making) \in Int /\ Size(g.player[p].inventory) \in Int
    BY <1>1, SizeType
  <2> QED BY <2>1, <1>1
<1> QED BY <1>1, <1>3, <1>4 DEF Money, Worth, StartedBy, Accounted

LEMMA OneBalances ==
    ASSUME NEW g \in Games, NEW h \in Games, NEW p \in Players, Balanced(g),
           \A q \in Players \ {p} : h.player[q] = g.player[q],
           Money(h)[p] - Money(g)[p] = Worth(h)[p] - Worth(g)[p],
           StartedBy(h)[p] - StartedBy(g)[p] = Accounted(h)[p] - Accounted(g)[p]
    PROVE  Balanced(h)
<1>0. /\ {Money(g), Money(h)} \subseteq [Players -> Int] /\ {Worth(g), Worth(h)} \subseteq [Players -> Int]
      /\ {StartedBy(g), StartedBy(h)} \subseteq [Players -> Int]
      /\ {Accounted(g), Accounted(h)} \subseteq [Players -> Int]
  BY Accounts
<1>1. \A q \in Players \ {p} : /\ Money(h)[q] = Money(g)[q] /\ Worth(h)[q] = Worth(g)[q]
                              /\ StartedBy(h)[q] = StartedBy(g)[q] /\ Accounted(h)[q] = Accounted(g)[q]
  BY DEF Money, Worth, StartedBy, Accounted
<1>2. /\ TotalOf(Money(g), Players) \in Int
      /\ TotalOf(Money(h), Players) = TotalOf(Money(g), Players) + (Money(h)[p] - Money(g)[p])
  BY <1>0, <1>1, FiniteSets, TotalChanges
<1>3. /\ TotalOf(Worth(g), Players) \in Int
      /\ TotalOf(Worth(h), Players) = TotalOf(Worth(g), Players) + (Worth(h)[p] - Worth(g)[p])
  BY <1>0, <1>1, FiniteSets, TotalChanges
<1>4. /\ TotalOf(StartedBy(g), Players) \in Int
      /\ TotalOf(StartedBy(h), Players) = TotalOf(StartedBy(g), Players) + (StartedBy(h)[p] - StartedBy(g)[p])
  BY <1>0, <1>1, FiniteSets, TotalChanges
<1>5. /\ TotalOf(Accounted(g), Players) \in Int
      /\ TotalOf(Accounted(h), Players) = TotalOf(Accounted(g), Players) + (Accounted(h)[p] - Accounted(g)[p])
  BY <1>0, <1>1, FiniteSets, TotalChanges
<1> QED BY <1>2, <1>3, <1>4, <1>5 DEF Balanced, Total

\* A trade moves money and a shape from one to another.
LEMMA TwoBalance ==
    ASSUME NEW g \in Games, NEW h \in Games, NEW p \in Players, NEW q \in Players, p # q, Balanced(g),
           \A r \in Players \ {p, q} : h.player[r] = g.player[r],
           \A r \in {p, q} : Worth(h)[r] = Worth(g)[r] /\ StartedBy(h)[r] = StartedBy(g)[r],
           Money(h)[p] + Money(h)[q] = Money(g)[p] + Money(g)[q],
           Accounted(h)[p] + Accounted(h)[q] = Accounted(g)[p] + Accounted(g)[q]
    PROVE  Balanced(h)
<1>0. /\ {Money(g), Money(h)} \subseteq [Players -> Int] /\ {Worth(g), Worth(h)} \subseteq [Players -> Int]
      /\ {StartedBy(g), StartedBy(h)} \subseteq [Players -> Int]
      /\ {Accounted(g), Accounted(h)} \subseteq [Players -> Int]
  BY Accounts
<1>1. \A r \in Players \ {p, q} : /\ Money(h)[r] = Money(g)[r] /\ Worth(h)[r] = Worth(g)[r]
                                 /\ StartedBy(h)[r] = StartedBy(g)[r] /\ Accounted(h)[r] = Accounted(g)[r]
  BY DEF Money, Worth, StartedBy, Accounted
<1>2. /\ TotalOf(Money(g), Players) \in Int
      /\ TotalOf(Money(h), Players) =
             TotalOf(Money(g), Players) + (Money(h)[p] - Money(g)[p]) + (Money(h)[q] - Money(g)[q])
  <2>1. \A r \in Players \ {p, q} : Money(h)[r] = Money(g)[r]
    BY <1>1
  <2>2. Money(g) \in [Players -> Int] /\ Money(h) \in [Players -> Int]
    BY <1>0
  <2> QED BY <2>1, <2>2, FiniteSets, TotalMoves
<1>3. TotalOf(Worth(h), Players) = TotalOf(Worth(g), Players)
  <2>1. \A r \in Players : Worth(h)[r] = Worth(g)[r]
    BY <1>1
  <2> QED BY <2>1, FiniteSets, TotalAgrees
<1>4. TotalOf(StartedBy(h), Players) = TotalOf(StartedBy(g), Players)
  <2>1. \A r \in Players : StartedBy(h)[r] = StartedBy(g)[r]
    BY <1>1
  <2> QED BY <2>1, FiniteSets, TotalAgrees
<1>5. /\ TotalOf(Accounted(g), Players) \in Int
      /\ TotalOf(Accounted(h), Players) =
             TotalOf(Accounted(g), Players) + (Accounted(h)[p] - Accounted(g)[p]) + (Accounted(h)[q] - Accounted(g)[q])
  <2>1. \A r \in Players \ {p, q} : Accounted(h)[r] = Accounted(g)[r]
    BY <1>1
  <2>2. Accounted(g) \in [Players -> Int] /\ Accounted(h) \in [Players -> Int]
    BY <1>0
  <2> QED BY <2>1, <2>2, FiniteSets, TotalMoves
<1>6. /\ {Money(g)[p], Money(h)[p], Money(g)[q], Money(h)[q]} \subseteq Int
      /\ {Accounted(g)[p], Accounted(h)[p], Accounted(g)[q], Accounted(h)[q]} \subseteq Int
  BY <1>0
<1>7. \A a, b, c, d, e \in Int : c + d = a + b => e + (c - a) + (d - b) = e
  OBVIOUS
<1>8. TotalOf(Money(h), Players) = TotalOf(Money(g), Players)
  <2> DEFINE a == Money(g)[p]  b == Money(g)[q]  c == Money(h)[p]  d == Money(h)[q]
             e == TotalOf(Money(g), Players)
  <2>1. {a, b, c, d, e} \subseteq Int /\ c + d = a + b /\ TotalOf(Money(h), Players) = e + (c - a) + (d - b)
    BY <1>2, <1>6
  <2> HIDE DEF a, b, c, d, e
  <2>2. TotalOf(Money(h), Players) = e
    BY <2>1, <1>7
  <2> QED BY <2>2 DEF e
<1>9. TotalOf(Accounted(h), Players) = TotalOf(Accounted(g), Players)
  BY <1>5, <1>6, <1>7
<1> QED BY <1>3, <1>4, <1>8, <1>9 DEF Balanced, Total

LEMMA SamePlayers ==
    ASSUME NEW g, NEW h, h.player = g.player
    PROVE  (Balanced(h) <=> Balanced(g)) /\ (Within(h) <=> Within(g))
<1>1. Money(h) = Money(g) /\ Worth(h) = Worth(g) /\ StartedBy(h) = StartedBy(g) /\ Accounted(h) = Accounted(g)
  BY DEF Money, Worth, StartedBy, Accounted
<1>2. Balanced(h) <=> Balanced(g)
  BY <1>1 DEF Balanced
<1>3. Within(h) <=> Within(g)
  BY DEF Within
<1> QED BY <1>2, <1>3

-----------------------------------------------------------------------------
(* What the operations do to a game.                                         *)
LEMMA Owner ==
    ASSUME NEW g \in Games, NEW p \in Players
    PROVE  /\ g.player[p] \in Owners /\ g.player[p].money \in Int
           /\ g.player[p].started \in Nat /\ g.player[p].fulfilled \in Nat /\ g.player[p].made \in Nat
           /\ {g.player[p].making, g.player[p].inventory, g.player[p].tasks} \subseteq Bags
BY DEF Games, Owners

LEMMA Becomes ==
    ASSUME NEW g \in Games, NEW p \in Players, NEW owner \in Owners, NEW h, h = Become(g, p, owner)
    PROVE  /\ h \in Games /\ h.offers = g.offers /\ h.ended = g.ended
           /\ h.player[p] = owner /\ \A q \in Players \ {p} : h.player[q] = g.player[q]
BY DEF Become, Games

\* What becomes of who begins a shape, collects, is paid, sells and buys.
Making(o, s, money) == [o EXCEPT !.money = money - ShapeCost, !.making = Plus(@, One(s)), !.started = @ + 1]
Collecting(o, s, rest) == [o EXCEPT !.inventory = Plus(@, One(s)), !.made = @ + Size(One(s)), !.making = rest]
Paying(o, s) == [o EXCEPT !.inventory = Minus(@, One(s)), !.tasks = Minus(@, One(s)), !.money = @ + IncentiveMoney,
                     !.fulfilled = @ + 1]
Selling(o, s) == [o EXCEPT !.inventory = Minus(@, One(s)), !.money = @ + TradePrice]
Buying(o, s) == [o EXCEPT !.inventory = Plus(@, One(s)), !.money = @ - TradePrice]

LEMMA MadeIs ==
    ASSUME NEW o \in Owners, NEW s \in Shapes, NEW money \in Int, NEW n,
           n = Making(o, s, money)
    PROVE  /\ n \in Owners
           /\ n.money = money - ShapeCost /\ n.making = Plus(o.making, One(s)) /\ n.started = o.started + 1
           /\ n.fulfilled = o.fulfilled /\ n.inventory = o.inventory /\ n.made = o.made
<1>1. ShapeCost \in Nat /\ Plus(o.making, One(s)) \in Bags
  BY FactoryAssumption, BagTypes DEF Owners, Making
<1>2. n.money \in Int /\ n.started \in Nat
  BY <1>1 DEF Owners, Making
<1>3. /\ n.money = money - ShapeCost /\ n.making = Plus(o.making, One(s)) /\ n.started = o.started + 1
      /\ n.fulfilled = o.fulfilled /\ n.inventory = o.inventory /\ n.made = o.made
  BY DEF Owners, Making
<1>4. n \in Owners
  BY <1>1, <1>2 DEF Owners, Making
<1> QED BY <1>3, <1>4

LEMMA CollectedIs ==
    ASSUME NEW o \in Owners, NEW s \in Shapes, NEW rest \in Bags, NEW n,
           n = Collecting(o, s, rest)
    PROVE  /\ n \in Owners
           /\ n.inventory = Plus(o.inventory, One(s)) /\ n.made = o.made + 1 /\ n.making = rest
           /\ n.money = o.money /\ n.fulfilled = o.fulfilled /\ n.started = o.started
<1>1. Size(One(s)) = 1 /\ Plus(o.inventory, One(s)) \in Bags
  BY SizeOne, BagTypes DEF Owners, Collecting
<1>2. /\ n.inventory = Plus(o.inventory, One(s)) /\ n.made = o.made + 1 /\ n.making = rest
      /\ n.money = o.money /\ n.fulfilled = o.fulfilled /\ n.started = o.started
  BY <1>1 DEF Owners, Collecting
<1>3. n.made \in Nat
  BY <1>2 DEF Owners, Collecting
<1>4. n \in Owners
  BY <1>1, <1>2, <1>3 DEF Owners, Collecting
<1> QED BY <1>2, <1>4

LEMMA PaidIs ==
    ASSUME NEW o \in Owners, NEW s \in Shapes, NEW n,
           n = Paying(o, s)
    PROVE  /\ n \in Owners
           /\ n.inventory = Minus(o.inventory, One(s)) /\ n.money = o.money + IncentiveMoney
           /\ n.fulfilled = o.fulfilled + 1
           /\ n.making = o.making /\ n.made = o.made /\ n.started = o.started
<1>1. /\ IncentiveMoney \in Nat /\ Minus(o.inventory, One(s)) \in Bags
      /\ Minus(o.tasks, One(s)) \in Bags
  BY FactoryAssumption, BagTypes DEF Owners, Paying
<1>2. /\ n.inventory = Minus(o.inventory, One(s)) /\ n.money = o.money + IncentiveMoney
      /\ n.fulfilled = o.fulfilled + 1
      /\ n.making = o.making /\ n.made = o.made /\ n.started = o.started
  BY DEF Owners, Paying
<1>3. n.money \in Int /\ n.fulfilled \in Nat
  BY <1>1, <1>2 DEF Owners, Paying
<1>4. n \in Owners
  BY <1>1, <1>2, <1>3 DEF Owners, Paying
<1> QED BY <1>2, <1>4

LEMMA SoldIs ==
    ASSUME NEW o \in Owners, NEW s \in Shapes, NEW n,
           n = Selling(o, s)
    PROVE  /\ n \in Owners
           /\ n.inventory = Minus(o.inventory, One(s)) /\ n.money = o.money + TradePrice
           /\ n.fulfilled = o.fulfilled /\ n.making = o.making /\ n.made = o.made /\ n.started = o.started
<1>1. TradePrice \in Nat /\ Minus(o.inventory, One(s)) \in Bags
  BY FactoryAssumption, BagTypes DEF Owners, Selling
<1>2. /\ n.inventory = Minus(o.inventory, One(s)) /\ n.money = o.money + TradePrice
      /\ n.fulfilled = o.fulfilled /\ n.making = o.making /\ n.made = o.made /\ n.started = o.started
  BY DEF Owners, Selling
<1>3. n.money \in Int
  BY <1>1, <1>2 DEF Owners, Selling
<1>4. n \in Owners
  BY <1>1, <1>2, <1>3 DEF Owners, Selling
<1> QED BY <1>2, <1>4

LEMMA BoughtIs ==
    ASSUME NEW o \in Owners, NEW s \in Shapes, NEW n,
           n = Buying(o, s)
    PROVE  /\ n \in Owners
           /\ n.inventory = Plus(o.inventory, One(s)) /\ n.money = o.money - TradePrice
           /\ n.fulfilled = o.fulfilled /\ n.making = o.making /\ n.made = o.made /\ n.started = o.started
<1>1. TradePrice \in Nat /\ Plus(o.inventory, One(s)) \in Bags
  BY FactoryAssumption, BagTypes DEF Owners, Buying
<1>2. /\ n.inventory = Plus(o.inventory, One(s)) /\ n.money = o.money - TradePrice
      /\ n.fulfilled = o.fulfilled /\ n.making = o.making /\ n.made = o.made /\ n.started = o.started
  BY DEF Owners, Buying
<1>3. n.money \in Int
  BY <1>1, <1>2 DEF Owners, Buying
<1>4. n \in Owners
  BY <1>1, <1>2, <1>3 DEF Owners, Buying
<1> QED BY <1>2, <1>4

LEMMA Books ==
    ASSUME NEW g, NEW p \in Players
    PROVE  /\ Money(g)[p] = g.player[p].money /\ StartedBy(g)[p] = g.player[p].started
           /\ Worth(g)[p] = StartingMoney + IncentiveMoney * g.player[p].fulfilled
                              - ShapeCost * g.player[p].started
           /\ Accounted(g)[p] = Size(g.player[p].making) + Size(g.player[p].inventory)
                                  + g.player[p].fulfilled
BY DEF Money, StartedBy, Worth, Accounted

LEMMA SameOffers ==
    ASSUME NEW g, NEW h, NEW last, OfferedOnce(g, last), h.offers = g.offers, h.ended = g.ended
    PROVE  OfferedOnce(h, last)
BY DEF OfferedOnce

\* A shape is begun.
LEMMA MadeGame ==
    ASSUME game \in Games, NEW p \in Players, NEW s \in Shapes, NEW money \in Int, NEW h, h = Made(p, s, money)
    PROVE  LET o == game.player[p]
               n == h.player[p]
           IN  /\ h \in Games /\ h.offers = game.offers /\ h.ended = game.ended
               /\ \A q \in Players \ {p} : h.player[q] = game.player[q]
               /\ n.money = money - ShapeCost /\ n.making = Plus(o.making, One(s))
               /\ n.started = o.started + 1
               /\ n.fulfilled = o.fulfilled /\ n.inventory = o.inventory /\ n.made = o.made
<1> DEFINE o == game.player[p]
           n == Making(o, s, money)
<1>1. o \in Owners
  BY Owner
<1>2. /\ n \in Owners
      /\ n.money = money - ShapeCost /\ n.making = Plus(o.making, One(s)) /\ n.started = o.started + 1
      /\ n.fulfilled = o.fulfilled /\ n.inventory = o.inventory /\ n.made = o.made
  <2> HIDE DEF o
  <2> QED BY <1>1, MadeIs
<1>3. h = Become(game, p, n)
  BY DEF Made, Me, Making
<1> HIDE DEF n
<1>4. /\ h \in Games /\ h.offers = game.offers /\ h.ended = game.ended
      /\ h.player[p] = n /\ \A q \in Players \ {p} : h.player[q] = game.player[q]
  BY <1>2, <1>3, Becomes
<1> QED BY <1>2, <1>4

LEMMA MadeAdds ==
    ASSUME game \in Games, NEW last, AddsUp(game, last), NEW p \in Players, NEW s \in Shapes,
           Me(p).money >= ShapeCost, Me(p).made + Size(Me(p).making) < MaxProductionNum,
           NEW h, h = Made(p, s, Me(p).money)
    PROVE  AddsUp(h, last) /\ h \in Games
<1> DEFINE o == game.player[p]
           n == h.player[p]
<1>1. o \in Owners /\ o.money \in Int /\ {o.started, o.fulfilled, o.made} \subseteq Nat
      /\ {o.making, o.inventory} \subseteq Bags
  BY Owner
<1>2. /\ h \in Games /\ h.offers = game.offers /\ h.ended = game.ended
      /\ \A q \in Players \ {p} : h.player[q] = game.player[q]
      /\ n.money = o.money - ShapeCost /\ n.making = Plus(o.making, One(s)) /\ n.started = o.started + 1
      /\ n.fulfilled = o.fulfilled /\ n.inventory = o.inventory /\ n.made = o.made
  BY <1>1, MadeGame DEF Me
<1> HIDE DEF o, n
<1>5. /\ Size(n.making) = Size(o.making) + 1 /\ Size(o.making) \in Int /\ Size(o.inventory) \in Int
  BY <1>1, <1>2, SizePlus, SizeType
<1>6. /\ {StartingMoney, IncentiveMoney, ShapeCost, MaxProductionNum} \subseteq Nat
      /\ o.money >= ShapeCost /\ o.made + Size(o.making) < MaxProductionNum
  BY FactoryAssumption DEF o, Me
<1>7. Money(h)[p] - Money(game)[p] = Worth(h)[p] - Worth(game)[p]
  <2>1. Money(h)[p] = o.money - ShapeCost /\ Money(game)[p] = o.money
    BY <1>2, Books DEF o, n
  <2>2. /\ Worth(h)[p] = StartingMoney + IncentiveMoney * o.fulfilled - ShapeCost * (o.started + 1)
        /\ Worth(game)[p] = StartingMoney + IncentiveMoney * o.fulfilled - ShapeCost * o.started
    BY <1>2, Books DEF o, n
  <2>3. \A a, b, c \in Int : a - b * (c + 1) = a - b * c - b
    OBVIOUS
  <2>4. ShapeCost * (o.started + 1) = ShapeCost * o.started + ShapeCost
    BY <1>1, <1>6
  <2>5. StartingMoney + IncentiveMoney * o.fulfilled \in Int /\ ShapeCost * o.started \in Int
    BY <1>1, <1>6
  <2>6. \A a, b, c, d \in Int : (d - c) - d = (a - (b + c)) - (a - b)
    OBVIOUS
  <2> QED BY <1>1, <1>6, <2>1, <2>2, <2>4, <2>5, <2>6
<1>8. StartedBy(h)[p] - StartedBy(game)[p] = Accounted(h)[p] - Accounted(game)[p]
  <2>1. StartedBy(h)[p] = o.started + 1 /\ StartedBy(game)[p] = o.started
    BY <1>2, Books DEF o, n
  <2>2. /\ Accounted(h)[p] = (Size(o.making) + 1) + Size(o.inventory) + o.fulfilled
        /\ Accounted(game)[p] = Size(o.making) + Size(o.inventory) + o.fulfilled
    BY <1>2, <1>5, Books DEF o, n
  <2> QED BY <1>1, <1>5, <2>1, <2>2
<1>9. Balanced(h)
  BY <1>2, <1>7, <1>8, OneBalances DEF AddsUp
<1>10. Within(h)
  <2>1. n.money >= 0 /\ n.made + Size(n.making) <= MaxProductionNum
    BY <1>1, <1>2, <1>5, <1>6
  <2> QED BY <1>2, <2>1 DEF Within, AddsUp, n
<1> QED BY <1>2, <1>9, <1>10, SameOffers DEF AddsUp

\* A shape that is due is collected.
LEMMA CollectedGame ==
    ASSUME game \in Games, NEW p \in Players, NEW s \in Shapes, NEW rest \in Bags,
           NEW h, h = Become(game, p, Collecting(Me(p), s, rest))
    PROVE  LET o == game.player[p]
               n == h.player[p]
           IN  /\ h \in Games /\ h.offers = game.offers /\ h.ended = game.ended
               /\ \A q \in Players \ {p} : h.player[q] = game.player[q]
               /\ n.inventory = Plus(o.inventory, One(s)) /\ n.made = o.made + 1 /\ n.making = rest
               /\ n.money = o.money /\ n.fulfilled = o.fulfilled /\ n.started = o.started
<1> DEFINE o == game.player[p]
           n == Collecting(o, s, rest)
<1>1. o \in Owners
  BY Owner
<1>2. /\ n \in Owners
      /\ n.inventory = Plus(o.inventory, One(s)) /\ n.made = o.made + 1 /\ n.making = rest
      /\ n.money = o.money /\ n.fulfilled = o.fulfilled /\ n.started = o.started
  <2> HIDE DEF o
  <2> QED BY <1>1, CollectedIs
<1>3. h = Become(game, p, n)
  BY DEF Me
<1> HIDE DEF n
<1>4. /\ h \in Games /\ h.offers = game.offers /\ h.ended = game.ended
      /\ h.player[p] = n /\ \A q \in Players \ {p} : h.player[q] = game.player[q]
  BY <1>2, <1>3, Becomes
<1> QED BY <1>2, <1>4

LEMMA CollectedAdds ==
    ASSUME game \in Games, NEW last, AddsUp(game, last), NEW p \in Players, NEW s \in Shapes,
           Me(p).making[s] > 0, NEW rest, rest = Minus(Me(p).making, One(s)),
           NEW h, h = Become(game, p, Collecting(Me(p), s, rest))
    PROVE  AddsUp(h, last) /\ h \in Games
<1> DEFINE o == game.player[p]
           n == h.player[p]
<1>1. o \in Owners /\ o.money \in Int /\ {o.started, o.fulfilled, o.made} \subseteq Nat
      /\ {o.making, o.inventory} \subseteq Bags
  BY Owner
<1>0. rest \in Bags /\ rest = Minus(o.making, One(s)) /\ o.making[s] > 0
  BY <1>1, BagTypes DEF Me
<1>2. /\ h \in Games /\ h.offers = game.offers /\ h.ended = game.ended
      /\ \A q \in Players \ {p} : h.player[q] = game.player[q]
      /\ n.inventory = Plus(o.inventory, One(s)) /\ n.made = o.made + 1 /\ n.making = rest
      /\ n.money = o.money /\ n.fulfilled = o.fulfilled /\ n.started = o.started
  BY <1>0, CollectedGame
<1> HIDE DEF o, n
<1>5. /\ Size(n.making) = Size(o.making) - 1 /\ Size(n.inventory) = Size(o.inventory) + 1
      /\ Size(o.making) \in Int /\ Size(o.inventory) \in Int
  BY <1>0, <1>1, <1>2, SizePlus, SizeMinus, SizeType
<1>7. Money(h)[p] = Money(game)[p] /\ Worth(h)[p] = Worth(game)[p]
  BY <1>2, Books DEF o, n
<1>8. StartedBy(h)[p] = StartedBy(game)[p] /\ Accounted(h)[p] = Accounted(game)[p]
  <2>1. /\ Accounted(h)[p] = (Size(o.making) - 1) + (Size(o.inventory) + 1) + o.fulfilled
        /\ Accounted(game)[p] = Size(o.making) + Size(o.inventory) + o.fulfilled
        /\ StartedBy(h)[p] = StartedBy(game)[p]
    BY <1>2, <1>5, Books DEF o, n
  <2> QED BY <1>1, <1>5, <2>1
<1>9. Balanced(h)
  <2>1. \A f \in {Money(game), Worth(game), StartedBy(game), Accounted(game)} : f[p] \in Int
    BY Accounts
  <2>2. /\ Money(h)[p] - Money(game)[p] = Worth(h)[p] - Worth(game)[p]
        /\ StartedBy(h)[p] - StartedBy(game)[p] = Accounted(h)[p] - Accounted(game)[p]
    BY <1>7, <1>8, <2>1
  <2> QED BY <1>2, <2>2, OneBalances DEF AddsUp
<1>10. Within(h)
  <2>1. MaxProductionNum \in Nat /\ o.money >= 0 /\ o.made + Size(o.making) <= MaxProductionNum
    BY FactoryAssumption DEF AddsUp, Within, o
  <2>2. n.money >= 0 /\ n.made + Size(n.making) <= MaxProductionNum
    BY <1>1, <1>2, <1>5, <2>1
  <2> QED BY <1>2, <2>2 DEF Within, AddsUp, n
<1> QED BY <1>2, <1>9, <1>10, SameOffers DEF AddsUp

\* An order is fulfilled.
LEMMA PaidAdds ==
    ASSUME game \in Games, NEW last, AddsUp(game, last), NEW p \in Players, NEW s \in Shapes,
           Me(p).inventory[s] > 0, NEW h, h = Paid(p, s)
    PROVE  AddsUp(h, last)
<1> DEFINE o == game.player[p]
           n == Paying(o, s)
<1>1. o \in Owners /\ o.money \in Int /\ {o.started, o.fulfilled, o.made} \subseteq Nat
      /\ {o.making, o.inventory} \subseteq Bags
  BY Owner
<1>0. o.inventory[s] > 0
  BY DEF Me
<1>2. /\ n \in Owners
      /\ n.inventory = Minus(o.inventory, One(s)) /\ n.money = o.money + IncentiveMoney
      /\ n.fulfilled = o.fulfilled + 1
      /\ n.making = o.making /\ n.made = o.made /\ n.started = o.started
  <2> HIDE DEF o
  <2> QED BY <1>1, PaidIs
<1>3. h = Become(game, p, n)
  BY DEF Paid, Me, Paying
<1> HIDE DEF n
<1>4. /\ h \in Games /\ h.offers = game.offers /\ h.ended = game.ended
      /\ h.player[p] = n /\ \A q \in Players \ {p} : h.player[q] = game.player[q]
  BY <1>2, <1>3, Becomes
<1> HIDE DEF o
<1>5. /\ Size(n.inventory) = Size(o.inventory) - 1
      /\ Size(o.making) \in Int /\ Size(o.inventory) \in Int
  BY <1>0, <1>1, <1>2, SizeMinus, SizeType
<1>6. {StartingMoney, IncentiveMoney, ShapeCost, MaxProductionNum} \subseteq Nat
  BY FactoryAssumption
<1>7. Money(h)[p] - Money(game)[p] = Worth(h)[p] - Worth(game)[p]
  <2> DEFINE a == IncentiveMoney * o.fulfilled  c == ShapeCost * o.started
             b == IncentiveMoney * (o.fulfilled + 1)
  <2>1. Money(h)[p] = o.money + IncentiveMoney /\ Money(game)[p] = o.money
    BY <1>2, <1>4, Books DEF o
  <2>2. Worth(h)[p] = StartingMoney + b - c /\ Worth(game)[p] = StartingMoney + a - c
    BY <1>2, <1>4, Books DEF o
  <2>3. b = a + IncentiveMoney
    BY <1>1, <1>6
  <2>4. a \in Int /\ c \in Int /\ o.money \in Int /\ StartingMoney \in Int /\ IncentiveMoney \in Int
    BY <1>1, <1>6
  <2> HIDE DEF a, b, c
  <2>5. Money(h)[p] - Money(game)[p] = IncentiveMoney
    BY <2>1, <2>4
  <2>6. Worth(h)[p] - Worth(game)[p] = IncentiveMoney
    BY <2>2, <2>3, <2>4
  <2> QED BY <2>5, <2>6
<1>8. StartedBy(h)[p] - StartedBy(game)[p] = Accounted(h)[p] - Accounted(game)[p]
  <2>1. StartedBy(h)[p] = o.started /\ StartedBy(game)[p] = o.started
    BY <1>2, <1>4, Books DEF o
  <2>2. /\ Accounted(h)[p] = Size(o.making) + (Size(o.inventory) - 1) + (o.fulfilled + 1)
        /\ Accounted(game)[p] = Size(o.making) + Size(o.inventory) + o.fulfilled
    BY <1>2, <1>4, <1>5, Books DEF o
  <2> QED BY <1>1, <1>5, <2>1, <2>2
<1>9. Balanced(h)
  BY <1>4, <1>7, <1>8, OneBalances DEF AddsUp
<1>10. Within(h)
  <2>1. o.money >= 0 /\ o.made + Size(o.making) <= MaxProductionNum
    BY DEF AddsUp, Within, o
  <2>2. n.money >= 0 /\ n.made + Size(n.making) <= MaxProductionNum
    BY <1>1, <1>2, <1>5, <1>6, <2>1
  <2> QED BY <1>4, <2>2 DEF Within, AddsUp
<1> QED BY <1>4, <1>9, <1>10, SameOffers DEF AddsUp

\* Types alone, for requests that overlap.
LEMMA PaidType ==
    ASSUME game \in Games, NEW p \in Players, NEW s \in Shapes PROVE Paid(p, s) \in Games
<1> DEFINE o == game.player[p]
           n == Paying(o, s)
<1>1. o \in Owners
  BY Owner
<1>2. n \in Owners
  <2> HIDE DEF o
  <2> QED BY <1>1, PaidIs
<1>3. Paid(p, s) = Become(game, p, n)
  BY DEF Paid, Me, Paying
<1> HIDE DEF n
<1> QED BY <1>2, <1>3, Becomes

\* A trade is carried out.
LEMMA TradedIs ==
    ASSUME game \in Games, NEW o \in Offers, NEW h, h = Traded(game, o)
    PROVE  /\ h \in Games /\ h.offers = game.offers /\ h.ended = game.ended
           /\ Seller(o) # Buyer(o) =>
              LET a == game.player[Seller(o)]
                  b == game.player[Buyer(o)]
                  c == h.player[Seller(o)]
                  d == h.player[Buyer(o)]
              IN  /\ \A q \in Players \ {Seller(o), Buyer(o)} : h.player[q] = game.player[q]
                  /\ c.inventory = Minus(a.inventory, One(o.shape)) /\ c.money = a.money + TradePrice
                  /\ c.fulfilled = a.fulfilled /\ c.making = a.making /\ c.made = a.made /\ c.started = a.started
                  /\ d.inventory = Plus(b.inventory, One(o.shape)) /\ d.money = b.money - TradePrice
                  /\ d.fulfilled = b.fulfilled /\ d.making = b.making /\ d.made = b.made /\ d.started = b.started
<1>0. Seller(o) \in Players /\ Buyer(o) \in Players /\ o.shape \in Shapes
  BY DEF Offers, Seller, Buyer
<1> DEFINE p == Seller(o)  q == Buyer(o)  s == o.shape  a == game.player[p]
           c == Selling(a, s)
           m == Sold(game, o)
           b == m.player[q]
           d == Buying(b, s)
<1> HIDE DEF p, q, s
<1>a. p \in Players /\ q \in Players /\ s \in Shapes
  BY <1>0 DEF p, q, s
<1>1. a \in Owners
  BY <1>a, Owner
<1>2. /\ c \in Owners
      /\ c.inventory = Minus(a.inventory, One(s)) /\ c.money = a.money + TradePrice
      /\ c.fulfilled = a.fulfilled /\ c.making = a.making /\ c.made = a.made /\ c.started = a.started
  <2> HIDE DEF a
  <2> QED BY <1>a, <1>1, SoldIs
<1>3. m = Become(game, p, c)
  BY DEF Sold, p, s, Selling
<1> HIDE DEF c, m
<1>4. /\ m \in Games /\ m.offers = game.offers /\ m.ended = game.ended
      /\ m.player[p] = c /\ \A r \in Players \ {p} : m.player[r] = game.player[r]
  BY <1>a, <1>2, <1>3, Becomes
<1>5. b \in Owners
  BY <1>a, <1>4, Owner
<1>6. /\ d \in Owners
      /\ d.inventory = Plus(b.inventory, One(s)) /\ d.money = b.money - TradePrice
      /\ d.fulfilled = b.fulfilled /\ d.making = b.making /\ d.made = b.made /\ d.started = b.started
  <2> HIDE DEF b
  <2> QED BY <1>a, <1>5, BoughtIs
<1>7. h = Become(m, q, d)
  BY DEF Traded, m, q, s, Buying
<1> HIDE DEF d
<1>8. /\ h \in Games /\ h.offers = m.offers /\ h.ended = m.ended
      /\ h.player[q] = d /\ \A r \in Players \ {q} : h.player[r] = m.player[r]
  BY <1>a, <1>4, <1>6, <1>7, Becomes
<1>9. p # q => /\ h.player[p] = c /\ b = game.player[q]
               /\ \A r \in Players \ {p, q} : h.player[r] = game.player[r]
  BY <1>a, <1>4, <1>8
<1>10. h \in Games /\ h.offers = game.offers /\ h.ended = game.ended
  BY <1>4, <1>8
<1>11. ASSUME p # q
       PROVE  /\ \A r \in Players \ {p, q} : h.player[r] = game.player[r]
              /\ h.player[p].inventory = Minus(a.inventory, One(s)) /\ h.player[p].money = a.money + TradePrice
              /\ h.player[p].fulfilled = a.fulfilled /\ h.player[p].making = a.making
              /\ h.player[p].made = a.made /\ h.player[p].started = a.started
              /\ h.player[q].inventory = Plus(game.player[q].inventory, One(s))
              /\ h.player[q].money = game.player[q].money - TradePrice
              /\ h.player[q].fulfilled = game.player[q].fulfilled /\ h.player[q].making = game.player[q].making
              /\ h.player[q].made = game.player[q].made /\ h.player[q].started = game.player[q].started
  <2> HIDE DEF a, b
  <2>1. h.player[p] = c /\ h.player[q] = d /\ b = game.player[q]
    BY <1>8, <1>9, <1>11
  <2> QED BY <1>2, <1>6, <1>9, <1>11, <2>1
<1> QED BY <1>10, <1>11 DEF p, q, s

LEMMA TradedAdds ==
    ASSUME game \in Games, NEW last, AddsUp(game, last), NEW o \in Offers, o.from # o.to,
           Me(Seller(o)).inventory[o.shape] > 0, Me(Buyer(o)).money >= TradePrice,
           NEW h, h = Traded(game, o)
    PROVE  AddsUp(h, last)
<1> DEFINE p == Seller(o)  q == Buyer(o)  s == o.shape
           a == game.player[p]  b == game.player[q]  c == h.player[p]  d == h.player[q]
<1>1. p \in Players /\ q \in Players /\ s \in Shapes /\ p # q
  BY DEF Offers, Seller, Buyer
<1>2. /\ h \in Games /\ h.offers = game.offers /\ h.ended = game.ended
      /\ \A r \in Players \ {p, q} : h.player[r] = game.player[r]
      /\ c.inventory = Minus(a.inventory, One(s)) /\ c.money = a.money + TradePrice
      /\ c.fulfilled = a.fulfilled /\ c.making = a.making /\ c.made = a.made /\ c.started = a.started
      /\ d.inventory = Plus(b.inventory, One(s)) /\ d.money = b.money - TradePrice
      /\ d.fulfilled = b.fulfilled /\ d.making = b.making /\ d.made = b.made /\ d.started = b.started
  BY <1>1, TradedIs
<1>3. a.inventory[s] > 0 /\ b.money >= TradePrice /\ TradePrice \in Nat
  BY FactoryAssumption DEF Me
<1> HIDE DEF p, q, s
<1>4. /\ {a.money, b.money} \subseteq Int /\ {a.fulfilled, b.fulfilled, a.made, b.made} \subseteq Nat
      /\ {a.making, a.inventory, b.making, b.inventory} \subseteq Bags
  BY <1>1, Owner
<1> HIDE DEF a, b, c, d
<1>5. /\ Size(c.inventory) = Size(a.inventory) - 1 /\ Size(d.inventory) = Size(b.inventory) + 1
      /\ {Size(a.inventory), Size(b.inventory), Size(a.making), Size(b.making)} \subseteq Int
  BY <1>1, <1>2, <1>3, <1>4, SizePlus, SizeMinus, SizeType
<1>6. \A r \in {p, q} : Worth(h)[r] = Worth(game)[r] /\ StartedBy(h)[r] = StartedBy(game)[r]
  BY <1>1, <1>2, Books DEF a, b, c, d
<1>7. Money(h)[p] + Money(h)[q] = Money(game)[p] + Money(game)[q]
  <2>1. /\ Money(h)[p] = a.money + TradePrice /\ Money(h)[q] = b.money - TradePrice
        /\ Money(game)[p] = a.money /\ Money(game)[q] = b.money
    BY <1>1, <1>2, Books DEF a, b, c, d
  <2> QED BY <1>3, <1>4, <2>1
<1>8. Accounted(h)[p] + Accounted(h)[q] = Accounted(game)[p] + Accounted(game)[q]
  <2>1. /\ Accounted(h)[p] = Size(a.making) + (Size(a.inventory) - 1) + a.fulfilled
        /\ Accounted(h)[q] = Size(b.making) + (Size(b.inventory) + 1) + b.fulfilled
        /\ Accounted(game)[p] = Size(a.making) + Size(a.inventory) + a.fulfilled
        /\ Accounted(game)[q] = Size(b.making) + Size(b.inventory) + b.fulfilled
    BY <1>1, <1>2, <1>5, Books DEF a, b, c, d
  <2> QED BY <1>4, <1>5, <2>1
<1>9. Balanced(h)
  BY <1>1, <1>2, <1>6, <1>7, <1>8, TwoBalance DEF AddsUp
<1>10. Within(h)
  <2>1. /\ a.money >= 0 /\ a.made + Size(a.making) <= MaxProductionNum
        /\ b.made + Size(b.making) <= MaxProductionNum
    BY <1>1 DEF AddsUp, Within, a, b
  <2>2. /\ c.money >= 0 /\ c.made + Size(c.making) <= MaxProductionNum
        /\ d.money >= 0 /\ d.made + Size(d.making) <= MaxProductionNum
    BY <1>2, <1>3, <1>4, <2>1
  <2>3. ASSUME NEW r \in Players
        PROVE  h.player[r].money >= 0 /\ h.player[r].made + Size(h.player[r].making) <= MaxProductionNum
    <3>1. CASE r \in {p, q}
      BY <2>2, <3>1 DEF c, d
    <3>2. CASE r \notin {p, q}
      BY <1>2, <3>2 DEF AddsUp, Within
    <3> QED BY <3>1, <3>2
  <2> QED BY <2>3 DEF Within
<1> QED BY <1>2, <1>9, <1>10, SameOffers DEF AddsUp

\* The lists of a game.
LEMMA Lists ==
    ASSUME NEW g \in Games
    PROVE  /\ g.offers \in Seq(Offers) /\ g.ended \in Seq(Ends)
           /\ Len(g.offers) \in Nat /\ Len(g.ended) \in Nat
           /\ \A i \in 1..Len(g.offers) : g.offers[i] \in Offers /\ g.offers[i].id \in Nat
           /\ \A i \in 1..Len(g.ended) : g.ended[i] \in Ends /\ g.ended[i].id \in Nat
<1>1. g.offers \in Seq(Offers) /\ g.ended \in Seq(Ends)
  BY DEF Games
<1>2. \A i \in 1..Len(g.offers) : g.offers[i] \in Offers
  BY <1>1
<1>3. \A i \in 1..Len(g.ended) : g.ended[i] \in Ends
  BY <1>1
<1>4. (\A o \in Offers : o.id \in Nat) /\ \A e \in Ends : e.id \in Nat
  BY DEF Offers, Ends
<1>5. Len(g.offers) \in Nat /\ Len(g.ended) \in Nat
  BY <1>1
<1> QED BY <1>1, <1>2, <1>3, <1>4, <1>5

WithLists(g, offers, ended) == [g EXCEPT !.offers = offers, !.ended = ended]
LEMMA Changed ==
    ASSUME NEW g \in Games, NEW offers \in Seq(Offers), NEW ended \in Seq(Ends), NEW h,
           h = WithLists(g, offers, ended)
    PROVE  h \in Games /\ h.player = g.player /\ h.offers = offers /\ h.ended = ended
BY DEF Games, WithLists

\* An offer is made.
Offering(g, o) == [g EXCEPT !.offers = Append(@, o)]
LEMMA OfferAdds ==
    ASSUME NEW g \in Games, NEW last \in Nat, NEW o \in Offers, NEW h, h = Offering(g, o)
    PROVE  /\ h \in Games
           /\ AddsUp(g, last) => AddsUp(g, last + 1)
           /\ AddsUp(g, last) /\ o.id = last + 1 /\ o.from # o.to => AddsUp(h, last + 1)
<1> DEFINE q == Append(g.offers, o)  n == Len(g.offers)
<1>2. /\ g.offers \in Seq(Offers) /\ g.ended \in Seq(Ends) /\ n \in Nat
      /\ \A i \in 1..n : g.offers[i].id \in Nat
      /\ \A i \in 1..Len(g.ended) : g.ended[i].id \in Nat
  BY Lists
<1>3. q \in Seq(Offers) /\ Len(q) = n + 1 /\ q[n + 1] = o /\ \A i \in 1..n : q[i] = g.offers[i]
  BY <1>2, Appended
<1>1. h \in Games /\ h.player = g.player /\ h.offers = q /\ h.ended = g.ended
  <2>1. h = WithLists(g, q, g.ended)
    BY DEF Games, WithLists, Offering
  <2>2. q \in Seq(Offers) /\ g.ended \in Seq(Ends)
    BY <1>2, <1>3
  <2> HIDE DEF q, n
  <2> QED BY <2>1, <2>2, Changed
<1> HIDE DEF q, n
<1>4. OfferedOnce(g, last) => OfferedOnce(g, last + 1)
  BY <1>2 DEF OfferedOnce, n
<1>5. ASSUME OfferedOnce(g, last), o.id = last + 1, o.from # o.to PROVE OfferedOnce(h, last + 1)
  <2>b. /\ \A i \in 1..n : g.offers[i].from # g.offers[i].to /\ g.offers[i].id <= last
        /\ \A i, j \in 1..n : g.offers[i].id = g.offers[j].id => i = j
        /\ \A i \in 1..n, j \in 1..Len(g.ended) : g.offers[i].id # g.ended[j].id
        /\ \A i \in 1..Len(g.ended) : g.ended[i].id <= last
        /\ \A i, j \in 1..Len(g.ended) : g.ended[i].id = g.ended[j].id => i = j
    BY <1>5 DEF OfferedOnce, n
  <2>0. /\ \A i \in 1..n : q[i].from # q[i].to /\ q[i].id <= last /\ q[i].id \in Nat
        /\ \A i, j \in 1..n : q[i].id = q[j].id => i = j
        /\ \A i \in 1..n, j \in 1..Len(g.ended) : q[i].id # g.ended[j].id
        /\ \A i \in 1..Len(g.ended) : g.ended[i].id <= last /\ g.ended[i].id \in Nat
    BY <1>2, <1>3, <2>b
  <2>a. 1..(n + 1) = (1..n) \cup {n + 1}
    BY <1>2
  <2>1. \A i \in 1..(n + 1) : q[i].from # q[i].to /\ q[i].id <= last + 1
    BY <1>3, <1>5, <2>0, <2>a
  <2>2. \A i, j \in 1..(n + 1) : q[i].id = q[j].id => i = j
    BY <1>3, <1>5, <2>0, <2>a
  <2>3. \A i \in 1..(n + 1), j \in 1..Len(g.ended) : q[i].id # g.ended[j].id
    BY <1>3, <1>5, <2>0, <2>a
  <2>4. /\ \A i \in 1..Len(g.ended) : g.ended[i].id <= last + 1
        /\ \A i, j \in 1..Len(g.ended) : g.ended[i].id = g.ended[j].id => i = j
    BY <2>0, <2>b
  <2>5. h.offers = q /\ h.ended = g.ended /\ Len(q) = n + 1
    BY <1>1, <1>3
  <2> QED BY <2>1, <2>2, <2>3, <2>4, <2>5 DEF OfferedOnce
<1> QED BY <1>1, <1>4, <1>5, SamePlayers DEF AddsUp

LEMMA Removed ==
    ASSUME NEW S, NEW q \in Seq(S), NEW i \in 1..Len(q)
    PROVE  /\ RemoveAt(q, i) \in Seq(S) /\ Len(RemoveAt(q, i)) = Len(q) - 1
           /\ \A j \in 1..(Len(q) - 1) : RemoveAt(q, i)[j] = q[IF j < i THEN j ELSE j + 1]
<1> DEFINE a == SubSeq(q, 1, i - 1)  b == SubSeq(q, i + 1, Len(q))
<1>1. a \in Seq(S) /\ Len(a) = i - 1 /\ \A j \in 1..(i - 1) : a[j] = q[j]
  OBVIOUS
<1>2. b \in Seq(S) /\ Len(b) = Len(q) - i /\ \A j \in 1..(Len(q) - i) : b[j] = q[i + j]
  OBVIOUS
<1>3. RemoveAt(q, i) = a \o b
  BY DEF RemoveAt
<1> HIDE DEF a, b
<1>0. Len(q) \in Nat /\ i \in Int /\ i >= 1 /\ i <= Len(q)
  OBVIOUS
<1>7. /\ a \o b \in Seq(S) /\ Len(a \o b) = Len(a) + Len(b)
      /\ \A j \in 1..(Len(a) + Len(b)) : (a \o b)[j] = IF j <= Len(a) THEN a[j] ELSE b[j - Len(a)]
  <2>1. a \in Seq(S) /\ b \in Seq(S)
    BY <1>1, <1>2
  <2> QED BY <2>1, ConcatProperties
<1>4. a \o b \in Seq(S) /\ Len(a \o b) = Len(q) - 1
  BY <1>0, <1>1, <1>2, <1>7
<1>6. \A j \in 1..(Len(q) - 1) : (a \o b)[j] = IF j <= i - 1 THEN a[j] ELSE b[j - (i - 1)]
  BY <1>0, <1>1, <1>2, <1>7
<1>5. ASSUME NEW j \in 1..(Len(q) - 1) PROVE (a \o b)[j] = q[IF j < i THEN j ELSE j + 1]
  <2>0. j \in Int /\ j >= 1 /\ j <= Len(q) - 1
    BY <1>0
  <2>1. CASE j < i
    <3>1. j \in 1..(i - 1)
      BY <1>0, <2>0, <2>1
    <3> QED BY <1>0, <1>1, <1>6, <2>0, <2>1, <3>1
  <2>2. CASE j >= i
    <3>0. ~(j <= i - 1)
      BY <1>0, <2>0, <2>2
    <3>1. (a \o b)[j] = b[j - (i - 1)]
      BY <1>6, <3>0
    <3>2. j - (i - 1) \in 1..(Len(q) - i) /\ i + (j - (i - 1)) = j + 1
      BY <1>0, <2>0, <2>2
    <3>3. b[j - (i - 1)] = q[i + (j - (i - 1))]
      BY <1>2, <3>2
    <3>4. ~(j < i)
      BY <1>0, <2>0, <2>2
    <3> QED BY <3>1, <3>2, <3>3, <3>4
  <2>3. j < i \/ j >= i
    BY <1>0, <2>0
  <2> QED BY <2>1, <2>2, <2>3
<1> QED BY <1>3, <1>4, <1>5

\* An offer is over.
Record(g, o, how) == [g EXCEPT !.ended = Append(@, [id |-> o.id, how |-> how])]
Drop(g, i) == [g EXCEPT !.offers = RemoveAt(@, i)]
LEMMA OverAdds ==
    ASSUME NEW g \in Games, NEW last \in Nat, NEW o \in Offers, NEW i \in 1..Len(g.offers),
           NEW how \in {"accepted", "declined", "cancelled"}, NEW h, h = Drop(Record(g, o, how), i)
    PROVE  /\ h \in Games
           /\ AddsUp(g, last) /\ o = g.offers[i] => AddsUp(h, last)
<1> DEFINE e == [id |-> o.id, how |-> how]
           q == RemoveAt(g.offers, i)  ended == Append(g.ended, e)
           n == Len(g.offers)  m == Len(g.ended)
<1>0. e \in Ends /\ e.id = o.id
  BY DEF Ends, Offers
<1> HIDE DEF e
<1>1. /\ g.offers \in Seq(Offers) /\ g.ended \in Seq(Ends) /\ n \in Nat /\ m \in Nat
      /\ \A j \in 1..n : g.offers[j].id \in Nat
      /\ \A j \in 1..m : g.ended[j].id \in Nat
  BY Lists
<1>2. /\ q \in Seq(Offers) /\ Len(q) = n - 1
      /\ \A j \in 1..(n - 1) : q[j] = g.offers[IF j < i THEN j ELSE j + 1]
  BY <1>1, Removed
<1>3. ended \in Seq(Ends) /\ Len(ended) = m + 1 /\ ended[m + 1] = e /\ \A j \in 1..m : ended[j] = g.ended[j]
  BY <1>0, <1>1, Appended
<1>4. h \in Games /\ h.player = g.player /\ h.offers = q /\ h.ended = ended
  <2>1. h = WithLists(g, q, ended)
    BY DEF Drop, Record, Games, e, WithLists
  <2> HIDE DEF q, ended
  <2> QED BY <1>2, <1>3, <2>1, Changed
<1>a. i \in 1..n
  OBVIOUS
<1> HIDE DEF q, ended, n, m
<1>5. ASSUME OfferedOnce(g, last), o = g.offers[i] PROVE OfferedOnce(h, last)
  <2>0. /\ \A j \in 1..n : g.offers[j].from # g.offers[j].to /\ g.offers[j].id <= last
        /\ \A j, k \in 1..n : g.offers[j].id = g.offers[k].id => j = k
        /\ \A j \in 1..m : g.ended[j].id <= last
        /\ \A j, k \in 1..m : g.ended[j].id = g.ended[k].id => j = k
        /\ \A j \in 1..n, k \in 1..m : g.offers[j].id # g.ended[k].id
    BY <1>5 DEF OfferedOnce, n, m
  <2> DEFINE From(j) == IF j < i THEN j ELSE j + 1
  <2>1. \A j \in 1..(n - 1) : q[j] = g.offers[From(j)] /\ From(j) \in 1..n /\ From(j) # i
    <3>1. \A j \in 1..(n - 1) : q[j] = g.offers[From(j)]
      BY <1>2
    <3>2. \A j \in 1..(n - 1) : From(j) \in 1..n /\ From(j) # i
      BY <1>1, <1>a
    <3> HIDE DEF From
    <3> QED BY <3>1, <3>2
  <2>2. \A j, k \in 1..(n - 1) : From(j) = From(k) => j = k
    BY <1>1, <1>a
  <2>3. 1..(m + 1) = (1..m) \cup {m + 1}
    BY <1>1
  <2> HIDE DEF From
  <2>4. \A j \in 1..(n - 1) : q[j].from # q[j].to /\ q[j].id <= last
    BY <2>0, <2>1
  <2>5. \A j, k \in 1..(n - 1) : q[j].id = q[k].id => j = k
    BY <2>0, <2>1, <2>2
  <2>6. e.id <= last /\ \A j \in 1..m : ended[j].id # e.id
    BY <1>0, <1>3, <1>5, <1>a, <2>0
  <2>7. \A j \in 1..(m + 1) : ended[j].id <= last
    BY <1>3, <2>0, <2>3, <2>6
  <2>8. \A j, k \in 1..(m + 1) : ended[j].id = ended[k].id => j = k
    BY <1>3, <2>0, <2>3, <2>6
  <2>9. \A j \in 1..(n - 1) : q[j].id # e.id
    BY <1>0, <1>5, <1>a, <2>0, <2>1
  <2>10. \A j \in 1..(n - 1), k \in 1..(m + 1) : q[j].id # ended[k].id
    BY <1>3, <2>0, <2>1, <2>3, <2>9
  <2> QED BY <1>2, <1>3, <1>4, <2>4, <2>5, <2>7, <2>8, <2>10 DEF OfferedOnce
<1> QED BY <1>4, <1>5, SamePlayers DEF AddsUp

LEMMA RecordType ==
    ASSUME NEW g \in Games, NEW o \in Offers, NEW how \in {"accepted", "declined", "cancelled"}
    PROVE  Record(g, o, how) \in Games
<1> DEFINE e == [id |-> o.id, how |-> how]  ended == Append(g.ended, e)
<1>1. e \in Ends
  BY DEF Ends, Offers
<1> HIDE DEF e
<1>2. g.offers \in Seq(Offers) /\ ended \in Seq(Ends)
  BY <1>1, Lists, Appended
<1>3. Record(g, o, how) = WithLists(g, g.offers, ended)
  BY DEF Record, Games, e, WithLists
<1> HIDE DEF ended
<1> QED BY <1>2, <1>3, Changed

-----------------------------------------------------------------------------
(* What a thread does next.                                                  *)
LEMMA DoingKinds ==
    ASSUME NEW r \in Doings
    PROVE  /\ r.at \in {"free", "save", "make", "collect", "settle"}
           /\ r.at = "free" <=> r = Free
           /\ r.at = "save" => r.row \in Games
           /\ r.at = "make" => r \in Makes
           /\ r.at = "collect" => r \in Collects
           /\ r.at = "settle" => r \in Settles
<1>1. CASE r \in [at : {"free"}]
  BY <1>1 DEF Free
<1>2. CASE r \in [at : {"save"}, row : Games]
  BY <1>2 DEF Free
<1>3. CASE r \in Makes
  BY <1>3 DEF Makes, Free
<1>4. CASE r \in Collects
  BY <1>4 DEF Collects, Free
<1>5. CASE r \in Settles
  BY <1>5 DEF Settles, Free
<1> QED BY <1>1, <1>2, <1>3, <1>4, <1>5 DEF Doings

LEMMA Freed == ASSUME NEW g PROVE Holds(Free, g) /\ Free \in Doings
BY DEF Holds, Free, Doings

LEMMA SaveStep ==
    ASSUME NEW g \in Games, NEW r, r = [at |-> "save", row |-> g]
    PROVE  Holds(r, g) /\ r \in Doings /\ r # Free
<1>1. r.at = "save" /\ r.row = g /\ r \in [at : {"save"}, row : Games]
  OBVIOUS
<1>2. r \in Doings
  BY <1>1 DEF Doings
<1>3. Holds(r, g)
  BY <1>1 DEF Holds
<1>4. r # Free
  BY <1>1 DEF Free
<1> QED BY <1>2, <1>3, <1>4

\* A request begins: unless it overlaps another one, it is the only one.
LEMMA Begins ==
    ASSUME FactoryTypes, NEW t \in Threads, NEW step \in Doings, step # Free, Begin(t, step)
    PROVE  /\ threads' \in [Threads -> Doings] /\ overlaps' \in Nat
           /\ threads'[t] = step
           /\ overlaps' = 0 =>
                overlaps = 0 /\ \A u \in Threads : threads[u] = Free /\ (u # t => threads'[u] = Free)
<1>1. threads \in [Threads -> Doings] /\ overlaps \in Nat
  BY DEF FactoryTypes
<1>2. threads' = [threads EXCEPT ![t] = step]
  BY DEF Begin
<1>3. threads' \in [Threads -> Doings] /\ threads'[t] = step /\ \A u \in Threads \ {t} : threads'[u] = threads[u]
  BY <1>1, <1>2
<1>4. CASE \A u \in Threads : threads[u] = Free
  <2>1. overlaps' = overlaps
    BY <1>4 DEF Begin
  <2> QED BY <1>1, <1>3, <1>4, <2>1
<1>5. CASE ~(\A u \in Threads : threads[u] = Free)
  <2>1. overlaps' = overlaps + 1
    BY <1>5 DEF Begin
  <2>2. overlaps' \in Nat /\ overlaps' # 0
    BY <1>1, <2>1
  <2> QED BY <1>3, <2>2
<1> QED BY <1>4, <1>5

LEMMA Begun ==
    ASSUME FactoryInv, NEW t \in Threads, NEW step \in Doings, step # Free, Begin(t, step),
           game' \in Games, saved' = saved, proposed' \in Nat, restarted' = restarted, unsaved' = unsaved,
           overlaps = 0 => /\ AddsUp(game', proposed') /\ AddsUp(saved, proposed')
                           /\ Holds(step, game')
    PROVE  FactoryInv'
<1>0. FactoryTypes
  BY DEF FactoryInv
<1>1. /\ threads' \in [Threads -> Doings] /\ overlaps' \in Nat
      /\ threads'[t] = step
      /\ overlaps' = 0 =>
           overlaps = 0 /\ \A u \in Threads : threads[u] = Free /\ (u # t => threads'[u] = Free)
  BY <1>0, Begins
<1>2. FactoryTypes'
  BY <1>0, <1>1 DEF FactoryTypes
<1>3. ASSUME overlaps' = 0
      PROVE  /\ OneAtWork' /\ AddsUp(game', proposed') /\ AddsUp(saved', proposed')
             /\ \A u \in Threads : Holds(threads'[u], game')
             /\ SavedIsCurrent'
  <2>1. /\ overlaps = 0 /\ \A u \in Threads : u # t => threads'[u] = Free
        /\ AddsUp(game', proposed') /\ AddsUp(saved, proposed') /\ Holds(step, game')
    BY <1>1, <1>3
  <2>2. OneAtWork'
    BY <2>1 DEF OneAtWork
  <2>3. \A u \in Threads : Holds(threads'[u], game')
    BY <1>1, <2>1, Freed
  <2>4. SavedIsCurrent'
    BY <1>1 DEF SavedIsCurrent
  <2> QED BY <2>1, <2>2, <2>3, <2>4
<1> QED BY <1>2, <1>3 DEF FactoryInv

\* A request that is in flight goes on, alone unless requests overlap.
LEMMA Goes ==
    ASSUME FactoryInv, NEW t \in Threads, threads[t] # Free,
           threads' \in [Threads -> Doings], \A u \in Threads \ {t} : threads'[u] = threads[u],
           game' \in Games, saved' \in Games, proposed' = proposed, restarted' = restarted,
           overlaps' = overlaps, unsaved' \in BOOLEAN,
           overlaps = 0 => /\ AddsUp(game', proposed) /\ AddsUp(saved', proposed)
                           /\ Holds(threads'[t], game')
                           /\ threads'[t] = Free /\ ~unsaved' => saved' = game'
    PROVE  FactoryInv'
<1>0. FactoryTypes
  BY DEF FactoryInv
<1>2. FactoryTypes'
  BY <1>0 DEF FactoryTypes
<1>3. ASSUME overlaps' = 0
      PROVE  /\ OneAtWork' /\ AddsUp(game', proposed') /\ AddsUp(saved', proposed')
             /\ \A u \in Threads : Holds(threads'[u], game')
             /\ SavedIsCurrent'
  <2>1. OneAtWork /\ overlaps = 0
    BY <1>3 DEF FactoryInv
  <2>2. \A u \in Threads \ {t} : threads'[u] = Free
    BY <2>1 DEF OneAtWork
  <2>3. OneAtWork'
    BY <2>2 DEF OneAtWork
  <2>4. \A u \in Threads : Holds(threads'[u], game')
    BY <2>1, <2>2, Freed
  <2>5. SavedIsCurrent'
    BY <2>1 DEF SavedIsCurrent
  <2> QED BY <2>1, <2>3, <2>4, <2>5
<1> QED BY <1>2, <1>3 DEF FactoryInv

LEMMA Commits ==
    ASSUME FactoryInv, NEW t \in Threads, threads[t] # Free, NEW g \in Games, Commit(t, g),
           saved' = saved, proposed' = proposed, restarted' = restarted,
           overlaps' = overlaps, unsaved' = unsaved,
           overlaps = 0 => AddsUp(g, proposed)
    PROVE  FactoryInv'
<1>1. FactoryTypes
  BY DEF FactoryInv
<1> DEFINE step == [at |-> "save", row |-> g]
<1>2. Holds(step, g) /\ step \in Doings /\ step # Free
  BY SaveStep
<1>3. game' = g /\ threads' = [threads EXCEPT ![t] = step]
  BY DEF Commit
<1> HIDE DEF step
<1>4. /\ threads' \in [Threads -> Doings] /\ threads'[t] = step
      /\ \A u \in Threads \ {t} : threads'[u] = threads[u]
  BY <1>1, <1>2, <1>3 DEF FactoryTypes
<1>5. saved' \in Games /\ unsaved' \in BOOLEAN
  BY <1>1 DEF FactoryTypes
<1>6. overlaps = 0 => AddsUp(saved', proposed)
  BY DEF FactoryInv
<1> QED BY <1>2, <1>3, <1>4, <1>5, <1>6, Goes

-----------------------------------------------------------------------------
(* The operations.                                                           *)
LEMMA Known ==
    ASSUME FactoryInv
    PROVE  game \in Games /\ saved \in Games /\ proposed \in Nat /\ unsaved \in BOOLEAN
<1>1. FactoryTypes
  BY DEF FactoryInv
<1> QED BY <1>1 DEF FactoryTypes

LEMMA Working ==
    ASSUME FactoryInv, NEW t \in Threads
    PROVE  /\ threads \in [Threads -> Doings] /\ threads[t] \in Doings
           /\ threads[t].at # "free" => threads[t] # Free
<1>1. FactoryTypes
  BY DEF FactoryInv
<1>2. threads \in [Threads -> Doings] /\ threads[t] \in Doings
  BY <1>1 DEF FactoryTypes
<1>3. threads[t].at # "free" => threads[t] # Free
  BY DEF Free
<1> QED BY <1>2, <1>3

LEMMA Adding ==
    ASSUME FactoryInv, overlaps = 0
    PROVE  AddsUp(game, proposed) /\ AddsUp(saved, proposed) /\ \A t \in Threads : Holds(threads[t], game)
BY DEF FactoryInv

LEMMA SaveKeeps == ASSUME FactoryInv, NEW t \in Threads, Save(t) PROVE FactoryInv'
<1>1. /\ threads[t].at = "save" /\ saved' = threads[t].row /\ threads' = [threads EXCEPT ![t] = Free]
      /\ game' = game /\ proposed' = proposed /\ restarted' = restarted /\ overlaps' = overlaps
      /\ unsaved' = unsaved
  BY DEF Save
<1>2. /\ game \in Games /\ threads \in [Threads -> Doings] /\ threads[t] \in Doings /\ unsaved \in BOOLEAN
      /\ threads[t] # Free
      /\ overlaps = 0 => AddsUp(game, proposed) /\ AddsUp(saved, proposed) /\ Holds(threads[t], game)
  <2>1. game \in Games /\ unsaved \in BOOLEAN
    BY Known
  <2>2. threads \in [Threads -> Doings] /\ threads[t] \in Doings /\ threads[t] # Free
    BY <1>1, Working
  <2> QED BY <2>1, <2>2, Adding
<1>3. threads[t].row \in Games
  BY <1>1, <1>2, DoingKinds
<1>4. /\ threads' \in [Threads -> Doings] /\ threads'[t] = Free
      /\ \A u \in Threads \ {t} : threads'[u] = threads[u]
  BY <1>1, <1>2, Freed
<1>5. overlaps = 0 => saved' = game
  BY <1>1, <1>2 DEF Holds
<1>6. Holds(threads'[t], game')
  BY <1>4, Freed
<1>7. game' \in Games /\ saved' \in Games /\ unsaved' \in BOOLEAN
  BY <1>1, <1>2, <1>3
<1> QED BY <1>1, <1>2, <1>4, <1>5, <1>6, <1>7, Goes

LEMMA BeginMakeKeeps ==
    ASSUME FactoryInv, NEW t \in Threads, NEW p \in Players, NEW s \in Shapes, NEW quantity \in {1, 2},
           BeginMake(t, p, s, quantity)
    PROVE  FactoryInv'
<1> DEFINE step == [at |-> "make", who |-> p, shape |-> s, left |-> quantity, money |-> Me(p).money]
<1>1. /\ MayMake(p) /\ Begin(t, step) /\ game' = game /\ saved' = saved /\ proposed' = proposed
      /\ restarted' = restarted /\ unsaved' = unsaved
  BY DEF BeginMake
<1>2. /\ game \in Games /\ saved \in Games /\ proposed \in Nat
      /\ overlaps = 0 => AddsUp(game, proposed) /\ AddsUp(saved, proposed)
  BY Known, Adding
<1>3. Me(p).money \in Int
  BY <1>2, Owner DEF Me
<1>4. step \in Makes /\ step.at = "make" /\ step.who = p /\ step.money = game.player[p].money
  BY <1>3 DEF Makes, Me
<1> HIDE DEF step
<1>5. step \in Doings /\ step # Free
  BY <1>4 DEF Doings, Free
<1>6. Holds(step, game')
  BY <1>1, <1>4 DEF Holds, MayMake, Me
<1>7. game' \in Games /\ proposed' \in Nat
  BY <1>1, <1>2
<1>8. overlaps = 0 => AddsUp(game', proposed') /\ AddsUp(saved, proposed')
  BY <1>1, <1>2
<1> QED BY <1>1, <1>5, <1>6, <1>7, <1>8, Begun

LEMMA BeginCollectKeeps ==
    ASSUME FactoryInv, NEW t \in Threads, NEW p \in Players, NEW s \in Shapes, BeginCollect(t, p, s)
    PROVE  FactoryInv'
<1> DEFINE step == [at |-> "collect", who |-> p, due |-> One(s), rest |-> Minus(Me(p).making, One(s))]
<1>1. /\ Me(p).making[s] > 0 /\ Begin(t, step) /\ game' = game /\ saved' = saved /\ proposed' = proposed
      /\ restarted' = restarted /\ unsaved' = unsaved
  BY DEF BeginCollect
<1>2. /\ game \in Games /\ saved \in Games /\ proposed \in Nat
      /\ overlaps = 0 => AddsUp(game, proposed) /\ AddsUp(saved, proposed)
  BY Known, Adding
<1>3. Minus(Me(p).making, One(s)) \in Bags
  <2>1. Me(p).making \in Bags
    BY <1>2, Owner DEF Me
  <2> QED BY <2>1, BagTypes
<1>4. /\ step \in Collects /\ step.at = "collect" /\ step.who = p /\ step.due = One(s)
      /\ step.rest = Minus(game.player[p].making, One(s))
  BY <1>3 DEF Collects, Me
<1> HIDE DEF step
<1>5. step \in Doings /\ step # Free
  BY <1>4 DEF Doings, Free
<1>6. Holds(step, game')
  BY <1>1, <1>4 DEF Holds, Me
<1>7. game' \in Games /\ proposed' \in Nat
  BY <1>1, <1>2
<1>8. overlaps = 0 => AddsUp(game', proposed') /\ AddsUp(saved, proposed')
  BY <1>1, <1>2
<1> QED BY <1>1, <1>5, <1>6, <1>7, <1>8, Begun

LEMMA PaidKeeps ==
    ASSUME FactoryInv, NEW t \in Threads, NEW p \in Players, NEW s \in Shapes,
           Me(p).inventory[s] > 0, BeginCommit(t, Paid(p, s)),
           saved' = saved, proposed' = proposed, restarted' = restarted, unsaved' = unsaved
    PROVE  FactoryInv'
<1> DEFINE g == Paid(p, s)  step == [at |-> "save", row |-> g]
<1>1. game' = g /\ Begin(t, step)
  BY DEF BeginCommit
<1>2. /\ game \in Games /\ saved \in Games /\ proposed \in Nat
      /\ overlaps = 0 => AddsUp(game, proposed) /\ AddsUp(saved, proposed)
  BY Known, Adding
<1>3. g \in Games
  BY <1>2, PaidType
<1>4. overlaps = 0 => AddsUp(g, proposed)
  BY <1>2, PaidAdds
<1> HIDE DEF g
<1>5. Holds(step, g) /\ step \in Doings /\ step # Free
  BY <1>3, SaveStep
<1> HIDE DEF step
<1>7. game' \in Games /\ proposed' \in Nat
  BY <1>1, <1>2, <1>3
<1>8. overlaps = 0 => AddsUp(game', proposed') /\ AddsUp(saved, proposed') /\ Holds(step, game')
  BY <1>1, <1>2, <1>4, <1>5
<1> QED BY <1>1, <1>5, <1>7, <1>8, Begun

LEMMA OfferedKeeps ==
    ASSUME FactoryInv, NEW t \in Threads, NEW p \in Players, NEW q \in Players \ {p},
           NEW way \in {"buy", "sell"}, NEW s \in Shapes, Offered(t, OfferOf(p, q, way, s))
    PROVE  FactoryInv'
<1> DEFINE o == OfferOf(p, q, way, s)  g == Offering(game, o)  step == [at |-> "save", row |-> g]
<1>1. /\ game' = g /\ Begin(t, step) /\ proposed' = proposed + 1 /\ saved' = saved
      /\ restarted' = restarted /\ unsaved' = unsaved
  BY DEF Offered, BeginCommit, Offering
<1>2. /\ game \in Games /\ saved \in Games /\ proposed \in Nat
      /\ overlaps = 0 => AddsUp(game, proposed) /\ AddsUp(saved, proposed)
  BY Known, Adding
<1>3. o \in Offers /\ o.id = proposed + 1 /\ o.from # o.to
  BY <1>2 DEF Offers, OfferOf
<1> HIDE DEF o
<1>4. /\ g \in Games
      /\ AddsUp(game, proposed) => AddsUp(g, proposed + 1)
      /\ AddsUp(saved, proposed) => AddsUp(saved, proposed + 1)
  BY <1>2, <1>3, OfferAdds
<1> HIDE DEF g
<1>5. Holds(step, g) /\ step \in Doings /\ step # Free
  BY <1>4, SaveStep
<1> HIDE DEF step
<1>7. game' \in Games /\ proposed' \in Nat
  BY <1>1, <1>2, <1>4
<1>8. overlaps = 0 => AddsUp(game', proposed') /\ AddsUp(saved, proposed') /\ Holds(step, game')
  BY <1>1, <1>2, <1>4, <1>5
<1> QED BY <1>1, <1>5, <1>7, <1>8, Begun

LEMMA LookUpKeeps ==
    ASSUME FactoryInv, NEW t \in Threads, NEW i \in 1..Len(game.offers),
           NEW how \in {"accepted", "declined", "cancelled"},
           how = "accepted" => MayTrade(game.offers[i]), LookUp(t, i, how)
    PROVE  FactoryInv'
<1> DEFINE step == [at |-> "settle", offer |-> game.offers[i], index |-> i, how |-> how]
<1>1. /\ Begin(t, step) /\ game' = game /\ saved' = saved /\ proposed' = proposed
      /\ restarted' = restarted /\ unsaved' = unsaved
  BY DEF LookUp
<1>2. /\ game \in Games /\ saved \in Games /\ proposed \in Nat
      /\ overlaps = 0 => AddsUp(game, proposed) /\ AddsUp(saved, proposed)
  BY Known, Adding
<1>3. game.offers[i] \in Offers /\ i \in Nat \ {0} /\ i <= Len(game.offers)
  BY <1>2, Lists
<1>4. step \in Settles /\ step.at = "settle" /\ step.offer = game.offers[i] /\ step.index = i /\ step.how = how
  BY <1>3 DEF Settles
<1> HIDE DEF step
<1>5. step \in Doings /\ step # Free
  BY <1>4 DEF Doings, Free
<1>6. Holds(step, game)
  BY <1>3, <1>4 DEF Holds, MayTrade, Me
<1>7. game' \in Games /\ proposed' \in Nat
  BY <1>1, <1>2
<1>8. overlaps = 0 => AddsUp(game', proposed') /\ AddsUp(saved, proposed') /\ Holds(step, game')
  BY <1>1, <1>2, <1>6
<1> QED BY <1>1, <1>5, <1>7, <1>8, Begun

\* An agent that makes several goes on with the next one.
NextOne(r, money) == [r EXCEPT !.left = @ - 1, !.money = money]
LEMMA MakeAgain ==
    ASSUME NEW r \in Makes, r.left > 1, NEW money \in Int, NEW n,
           n = NextOne(r, money)
    PROVE  n \in Doings /\ n # Free /\ n.at = "make" /\ n.who = r.who /\ n.money = money
<1>1. r.left \in {1, 2} /\ r.left - 1 \in {1, 2}
  BY DEF Makes
<1>2. n \in Makes /\ n.at = "make" /\ n.who = r.who /\ n.money = money
  BY <1>1 DEF Makes, NextOne
<1>3. n # Free
  BY <1>2 DEF Free
<1> QED BY <1>2, <1>3 DEF Doings

LEMMA FinishMakeKeeps == ASSUME FactoryInv, NEW t \in Threads, FinishMake(t) PROVE FactoryInv'
<1> DEFINE r == threads[t]  p == r.who  s == r.shape  g == Made(p, s, r.money)
           again == /\ g.player[p].made + Size(g.player[p].making) < MaxProductionNum
                    /\ g.player[p].money >= ShapeCost
<1>1. /\ r.at = "make" /\ saved' = saved /\ proposed' = proposed /\ restarted' = restarted
      /\ overlaps' = overlaps
  BY DEF FinishMake
<1>2. /\ game \in Games /\ saved \in Games /\ unsaved \in BOOLEAN
      /\ overlaps = 0 => AddsUp(game, proposed) /\ AddsUp(saved, proposed) /\ Holds(r, game)
  BY Known, Adding
<1>3. threads \in [Threads -> Doings] /\ r \in Makes /\ r # Free
  BY <1>1, Working, DoingKinds
<1>4. p \in Players /\ s \in Shapes /\ r.money \in Int
  BY <1>3 DEF Makes
<1>5. g \in Games
  BY <1>2, <1>4, MadeGame
<1>6. overlaps = 0 => AddsUp(g, proposed)
  <2> HIDE DEF r, g
  <2>1. SUFFICES ASSUME overlaps = 0 PROVE AddsUp(g, proposed)
    OBVIOUS
  <2>2. AddsUp(game, proposed)
    BY <1>2, <2>1
  <2>3. /\ r.money = Me(p).money /\ Me(p).money >= ShapeCost
        /\ Me(p).made + Size(Me(p).making) < MaxProductionNum
    BY <1>1, <1>2, <2>1 DEF Holds, Me
  <2>4. g = Made(p, s, Me(p).money)
    BY <2>3 DEF g
  <2> QED BY <1>2, <1>4, <2>2, <2>3, <2>4, MadeAdds
<1>7. g.player[p].money \in Int
  BY <1>4, <1>5, Owner
<1>8. \/ Commit(t, g) /\ unsaved' = unsaved
      \/ /\ r.left > 1 /\ again /\ game' = g /\ unsaved' = unsaved
         /\ threads' = [threads EXCEPT ![t].left = @ - 1, ![t].money = g.player[p].money]
      \/ game' = g /\ unsaved' = TRUE /\ threads' = [threads EXCEPT ![t] = Free]
  BY DEF FinishMake
<1>9. CASE Commit(t, g) /\ unsaved' = unsaved
  <2> HIDE DEF g
  <2> QED BY <1>1, <1>3, <1>5, <1>6, <1>9, Commits
<1>10. CASE /\ r.left > 1 /\ again /\ game' = g /\ unsaved' = unsaved
            /\ threads' = [threads EXCEPT ![t].left = @ - 1, ![t].money = g.player[p].money]
  <2> DEFINE money == g.player[p].money
             n == NextOne(r, money)
  <2>0. money \in Int
    BY <1>7
  <2> HIDE DEF money
  <2>1. n \in Doings /\ n # Free /\ n.at = "make" /\ n.who = p /\ n.money = money
    <3>1. n = NextOne(r, money)
      OBVIOUS
    <3>2. r \in Makes /\ r.left > 1
      BY <1>3, <1>10
    <3> HIDE DEF r, n
    <3> QED BY <2>0, <3>1, <3>2, MakeAgain
  <2>2. threads' = [threads EXCEPT ![t] = n]
    <3>1. threads' = [threads EXCEPT ![t].left = @ - 1, ![t].money = money]
      BY <1>10 DEF money
    <3> HIDE DEF p, s, g, again
    <3> QED BY <1>3, <3>1 DEF NextOne
  <2> HIDE DEF n
  <2>3. /\ threads' \in [Threads -> Doings] /\ threads'[t] = n
        /\ \A u \in Threads \ {t} : threads'[u] = threads[u]
    BY <1>3, <2>1, <2>2
  <2>4. Holds(n, g)
    <3> HIDE DEF g
    <3> QED BY <1>10, <2>1 DEF Holds, money
  <2> HIDE DEF g, again, r
  <2>5. game' \in Games /\ saved' \in Games /\ unsaved' \in BOOLEAN /\ threads[t] # Free
    BY <1>1, <1>2, <1>3, <1>5, <1>10 DEF r
  <2>6. overlaps = 0 => AddsUp(game', proposed) /\ AddsUp(saved', proposed)
    BY <1>1, <1>2, <1>6, <1>10
  <2>7. Holds(threads'[t], game') /\ threads'[t] # Free
    BY <1>10, <2>1, <2>3, <2>4
  <2> QED BY <1>1, <2>3, <2>5, <2>6, <2>7, Goes
<1>11. CASE game' = g /\ unsaved' = TRUE /\ threads' = [threads EXCEPT ![t] = Free]
  <2> HIDE DEF g, again
  <2>1. /\ threads' \in [Threads -> Doings] /\ threads'[t] = Free
        /\ \A u \in Threads \ {t} : threads'[u] = threads[u]
    BY <1>3, <1>11, Freed
  <2>5. game' \in Games /\ saved' \in Games /\ unsaved' \in BOOLEAN /\ threads[t] # Free
    BY <1>1, <1>2, <1>3, <1>5, <1>11
  <2>6. overlaps = 0 => AddsUp(game', proposed) /\ AddsUp(saved', proposed)
    BY <1>1, <1>2, <1>6, <1>11
  <2>7. Holds(threads'[t], game') /\ unsaved'
    BY <1>11, <2>1, Freed
  <2> QED BY <1>1, <2>1, <2>5, <2>6, <2>7, Goes
<1> HIDE DEF g, again
<1> QED BY <1>8, <1>9, <1>10, <1>11

LEMMA FinishCollectKeeps == ASSUME FactoryInv, NEW t \in Threads, FinishCollect(t) PROVE FactoryInv'
<1> DEFINE r == threads[t]  p == r.who
           g == Become(game, p, [Me(p) EXCEPT !.inventory = Plus(@, r.due), !.made = @ + Size(r.due),
                                              !.making = r.rest])
<1>1. /\ r.at = "collect" /\ saved' = saved /\ proposed' = proposed /\ restarted' = restarted
      /\ overlaps' = overlaps /\ unsaved' = unsaved /\ Commit(t, g)
  BY DEF FinishCollect
<1>2. /\ game \in Games
      /\ overlaps = 0 => AddsUp(game, proposed) /\ Holds(r, game)
  BY Known, Adding
<1>3. r \in Collects /\ r # Free
  BY <1>1, Working, DoingKinds
<1>4. PICK s \in Shapes : r.due = One(s)
  BY <1>3 DEF Collects
<1>5. p \in Players /\ r.rest \in Bags
  BY <1>3 DEF Collects
<1>6. g = Become(game, p, Collecting(Me(p), s, r.rest))
  BY <1>4 DEF Collecting
<1> HIDE DEF g
<1>7. g \in Games
  BY <1>2, <1>5, <1>6, CollectedGame
<1>8. ASSUME overlaps = 0 PROVE AddsUp(g, proposed)
  <2> HIDE DEF r
  <2>1. PICK x \in Shapes : /\ Me(p).making[x] > 0 /\ r.due = One(x)
                            /\ r.rest = Minus(Me(p).making, One(x))
    BY <1>1, <1>2, <1>8 DEF Holds, Me
  <2>2. g = Become(game, p, Collecting(Me(p), x, r.rest))
    <3>1. One(x) = One(s)
      BY <1>4, <2>1
    <3> QED BY <1>6, <3>1 DEF Collecting
  <2>3. AddsUp(game, proposed)
    BY <1>2, <1>8
  <2> QED BY <1>2, <1>5, <2>1, <2>2, <2>3, CollectedAdds
<1> QED BY <1>1, <1>3, <1>7, <1>8, Commits

LEMMA SettledKeeps ==
    ASSUME FactoryInv, NEW t \in Threads, NEW r \in Settles, r = threads[t], NEW g \in Games,
           g.offers = game.offers, Settled(t, g, r),
           overlaps = 0 => AddsUp(g, proposed)
    PROVE  FactoryInv'
<1> DEFINE recorded == Record(g, r.offer, r.how)
           h == Drop(recorded, r.index)
<1>1. /\ saved' = saved /\ proposed' = proposed /\ restarted' = restarted
      /\ overlaps' = overlaps /\ unsaved' = unsaved
      /\ IF r.index <= Len(game.offers) THEN Commit(t, h)
         ELSE game' = recorded /\ threads' = [threads EXCEPT ![t] = Free]
  BY DEF Settled, Record, Drop
<1>2. /\ game \in Games /\ saved \in Games /\ proposed \in Nat /\ unsaved \in BOOLEAN
      /\ overlaps = 0 => AddsUp(saved, proposed) /\ Holds(r, game)
  BY Known, Adding
<1>3. /\ r.at = "settle" /\ r.offer \in Offers /\ r.index \in Nat \ {0}
      /\ r.how \in {"accepted", "declined", "cancelled"}
  BY DEF Settles
<1>4. threads \in [Threads -> Doings] /\ threads[t] # Free
  BY <1>3, Working
<1>5. recorded \in Games
  BY <1>3, RecordType
<1>6. overlaps = 0 => r.index <= Len(game.offers) /\ r.offer = g.offers[r.index]
  BY <1>2, <1>3 DEF Holds
<1>7. CASE r.index <= Len(game.offers)
  <2>1. r.index \in 1..Len(g.offers)
    BY <1>3, <1>7, Lists
  <2>2. /\ h \in Games
        /\ AddsUp(g, proposed) /\ r.offer = g.offers[r.index] => AddsUp(h, proposed)
    <3> DEFINE o == r.offer  how == r.how  i == r.index
    <3>1. o \in Offers /\ how \in {"accepted", "declined", "cancelled"} /\ i \in 1..Len(g.offers)
      BY <1>3, <2>1
    <3>2. h = Drop(Record(g, o, how), i)
      OBVIOUS
    <3> HIDE DEF o, how, i, h
    <3>3. h \in Games /\ (AddsUp(g, proposed) /\ o = g.offers[i] => AddsUp(h, proposed))
      BY <1>2, <3>1, <3>2, OverAdds
    <3> QED BY <3>3 DEF o, i
  <2> HIDE DEF h, recorded
  <2>3. Commit(t, h)
    BY <1>1, <1>7
  <2>4. overlaps = 0 => AddsUp(h, proposed)
    BY <1>6, <2>2
  <2> QED BY <1>1, <1>4, <2>2, <2>3, <2>4, Commits
<1>8. CASE ~(r.index <= Len(game.offers))
  <2> HIDE DEF h, recorded
  <2>1. game' = recorded /\ threads' = [threads EXCEPT ![t] = Free]
    BY <1>1, <1>8
  <2>2. overlaps # 0
    BY <1>6, <1>8
  <2>3. /\ threads' \in [Threads -> Doings] /\ \A u \in Threads \ {t} : threads'[u] = threads[u]
    BY <1>4, <2>1, Freed
  <2>4. game' \in Games /\ saved' \in Games /\ unsaved' \in BOOLEAN
    BY <1>1, <1>2, <1>5, <2>1
  <2> QED BY <1>1, <1>4, <2>2, <2>3, <2>4, Goes
<1> QED BY <1>7, <1>8

LEMMA FinishAcceptKeeps == ASSUME FactoryInv, NEW t \in Threads, FinishAccept(t) PROVE FactoryInv'
<1> DEFINE r == threads[t]  g == Traded(game, r.offer)
<1>1. r.at = "settle" /\ r.how = "accepted" /\ Settled(t, g, r)
  BY DEF FinishAccept
<1>2. r \in Settles /\ r.offer \in Offers
  <2>1. r \in Settles
    BY <1>1, Working, DoingKinds
  <2> QED BY <2>1 DEF Settles
<1>3. /\ game \in Games
      /\ overlaps = 0 => AddsUp(game, proposed) /\ Holds(r, game)
  BY Known, Adding
<1>4. g \in Games /\ g.offers = game.offers
  BY <1>2, <1>3, TradedIs
<1>5. ASSUME overlaps = 0 PROVE AddsUp(g, proposed)
  <2>1. /\ AddsUp(game, proposed)
        /\ r.index <= Len(game.offers) /\ r.offer = game.offers[r.index]
        /\ Me(Seller(r.offer)).inventory[r.offer.shape] > 0
        /\ Me(Buyer(r.offer)).money >= TradePrice
    BY <1>1, <1>3, <1>5 DEF Holds, Me
  <2>2. r.index \in 1..Len(game.offers)
    BY <1>2, <1>3, <2>1, Lists DEF Settles
  <2>3. r.offer.from # r.offer.to
    BY <2>1, <2>2 DEF AddsUp, OfferedOnce
  <2> DEFINE o == r.offer
  <2> HIDE DEF r
  <2>4. o \in Offers /\ o.from # o.to /\ Me(Seller(o)).inventory[o.shape] > 0
        /\ Me(Buyer(o)).money >= TradePrice /\ g = Traded(game, o)
    BY <1>2, <2>1, <2>3
  <2> HIDE DEF o, g
  <2> QED BY <1>3, <2>1, <2>4, TradedAdds
<1> HIDE DEF g
<1> QED BY <1>1, <1>2, <1>4, <1>5, SettledKeeps

LEMMA FinishKeeps ==
    ASSUME FactoryInv, NEW t \in Threads, FinishDecline(t) \/ FinishCancel(t) PROVE FactoryInv'
<1> DEFINE r == threads[t]
<1>1. r.at = "settle" /\ Settled(t, game, r)
  BY DEF FinishDecline, FinishCancel
<1>2. r \in Settles
  BY <1>1, Working, DoingKinds
<1>3. game \in Games /\ (overlaps = 0 => AddsUp(game, proposed))
  BY Known, Adding
<1> QED BY <1>1, <1>2, <1>3, SettledKeeps

LEMMA RestartKeeps == ASSUME FactoryInv, RestartServer PROVE FactoryInv'
<1>1. /\ restarted' = restarted + 1 /\ game' = saved /\ threads' = [t \in Threads |-> Free]
      /\ saved' = saved /\ proposed' = proposed /\ overlaps' = overlaps /\ unsaved' = unsaved
  BY DEF RestartServer
<1>2. FactoryTypes'
  <2>1. threads' \in [Threads -> Doings]
    BY <1>1, Freed
  <2>2. FactoryTypes
    BY DEF FactoryInv
  <2> QED BY <1>1, <2>1, <2>2 DEF FactoryTypes
<1>3. OneAtWork' /\ SavedIsCurrent'
  BY <1>1 DEF OneAtWork, SavedIsCurrent
<1>4. \A t \in Threads : Holds(threads'[t], game')
  BY <1>1, Freed
<1>5. overlaps' = 0 => AddsUp(game', proposed') /\ AddsUp(saved', proposed')
  BY <1>1, Adding
<1> QED BY <1>2, <1>3, <1>4, <1>5 DEF FactoryInv

LEMMA FactoryStep == ASSUME FactoryInv, [FactoryNext]_factoryVars PROVE FactoryInv'
<1>1. CASE UNCHANGED factoryVars
  BY <1>1 DEF factoryVars, FactoryInv, FactoryTypes, OneAtWork, SavedIsCurrent
<1>2. CASE RestartServer
  BY <1>2, RestartKeeps
<1>3. ASSUME NEW t \in Threads, Save(t) \/ FinishMake(t) \/ FinishCollect(t) \/ FinishAccept(t)
                                \/ FinishDecline(t) \/ FinishCancel(t)
      PROVE  FactoryInv'
  BY <1>3, SaveKeeps, FinishMakeKeeps, FinishCollectKeeps, FinishAcceptKeeps, FinishKeeps
<1>4. ASSUME NEW t \in Threads, NEW p \in Players, NEW s \in Shapes,
             \/ BeginMake(t, p, s, 1) \/ BeginMake(t, p, s, 2) \/ BeginCollect(t, p, s)
             \/ SubmitShape(t, p, s) \/ FulfillOrder(t, p, s)
      PROVE  FactoryInv'
  <2>1. CASE BeginMake(t, p, s, 1) \/ BeginMake(t, p, s, 2)
    BY <2>1, BeginMakeKeeps
  <2>2. CASE BeginCollect(t, p, s)
    BY <2>2, BeginCollectKeeps
  <2>3. CASE SubmitShape(t, p, s) \/ FulfillOrder(t, p, s)
    BY <2>3, PaidKeeps DEF SubmitShape, FulfillOrder
  <2> QED BY <1>4, <2>1, <2>2, <2>3
<1>5. ASSUME NEW t \in Threads, NEW p \in Players, NEW s \in Shapes, NEW q \in Players \ {p},
             NEW way \in {"buy", "sell"}, SubmitTrade(t, p, q, way, s) \/ ProposeTradeOffer(t, p, q, way, s)
      PROVE  FactoryInv'
  <2>1. Offered(t, OfferOf(p, q, way, s))
    BY <1>5 DEF SubmitTrade, ProposeTradeOffer
  <2> QED BY <2>1, OfferedKeeps
<1>6. ASSUME NEW t \in Threads, NEW i \in 1..Len(game.offers), NEW how \in {"accepted", "declined"},
             BeginRespond(t, i, how) \/ BeginTradeResponse(t, i, how)
      PROVE  FactoryInv'
  <2>1. (how = "accepted" => MayTrade(game.offers[i])) /\ LookUp(t, i, how)
    BY <1>6 DEF BeginRespond, BeginTradeResponse
  <2> QED BY <2>1, LookUpKeeps
<1>7. ASSUME NEW t \in Threads, NEW i \in 1..Len(game.offers), BeginCancel(t, i) \/ BeginCancelTradeOffer(t, i)
      PROVE  FactoryInv'
  <2>1. LookUp(t, i, "cancelled")
    BY <1>7 DEF BeginCancel, BeginCancelTradeOffer
  <2> QED BY <2>1, LookUpKeeps
<1> QED BY <1>1, <1>2, <1>3, <1>4, <1>5, <1>6, <1>7 DEF FactoryNext

LEMMA FactoryBegins == ASSUME FactoryInit PROVE FactoryInv
<1>1. /\ game = [player |-> [p \in Players |-> NewPlayer], offers |-> <<>>, ended |-> <<>>]
      /\ saved = game /\ threads = [t \in Threads |-> Free]
      /\ proposed = 0 /\ restarted = 0 /\ overlaps = 0 /\ unsaved = FALSE
  BY DEF FactoryInit
<1>2. /\ {StartingMoney, ShapeCost, IncentiveMoney, MaxProductionNum} \subseteq Nat
      /\ InitialTasks \in Bags
  BY FactoryAssumption DEF Bags
<1>3. NewPlayer \in Owners
  BY <1>2, BagTypes DEF NewPlayer, Owners
<1>4. game.player = [p \in Players |-> NewPlayer] /\ game.offers = <<>> /\ game.ended = <<>>
  BY <1>1
<1>5. game \in Games
  <2> DEFINE players == [p \in Players |-> NewPlayer]
  <2>1. players \in [Players -> Owners]
    BY <1>3
  <2> HIDE DEF players
  <2> QED BY <1>1, <2>1 DEF Games, players
<1>6. \A p \in Players : /\ game.player[p].money = StartingMoney /\ game.player[p].fulfilled = 0
                         /\ game.player[p].started = 0 /\ game.player[p].made = 0
                         /\ Size(game.player[p].making) = 0 /\ Size(game.player[p].inventory) = 0
  BY <1>4, SizeNothing DEF NewPlayer
<1>7. Balanced(game)
  <2>1. \A p \in Players : Money(game)[p] = Worth(game)[p]
    BY <1>2, <1>6, Books
  <2>2. \A p \in Players : StartedBy(game)[p] = Accounted(game)[p]
    BY <1>6, Books
  <2>3. TotalOf(Money(game), Players) = TotalOf(Worth(game), Players)
    BY <2>1, FiniteSets, TotalAgrees
  <2>4. TotalOf(StartedBy(game), Players) = TotalOf(Accounted(game), Players)
    BY <2>2, FiniteSets, TotalAgrees
  <2> QED BY <2>3, <2>4 DEF Balanced, Total
<1>8. Within(game)
  BY <1>2, <1>6 DEF Within
<1>9. OfferedOnce(game, proposed)
  BY <1>4 DEF OfferedOnce
<1>10. FactoryTypes
  BY <1>1, <1>5, Freed DEF FactoryTypes
<1>11. OneAtWork /\ SavedIsCurrent /\ \A t \in Threads : Holds(threads[t], game)
  BY <1>1, Freed DEF OneAtWork, SavedIsCurrent
<1>12. AddsUp(game, proposed) /\ AddsUp(saved, proposed)
  BY <1>1, <1>7, <1>8, <1>9 DEF AddsUp
<1> QED BY <1>10, <1>11, <1>12 DEF FactoryInv

LEMMA OneOrNone ==
    ASSUME NEW S, \A x, y \in S : x = y
    PROVE  Cardinality(S) \in Nat /\ Cardinality(S) <= 1 /\ (S = {} => Cardinality(S) = 0)
<1>1. CASE S = {}
  BY <1>1, FS_EmptySet
<1>2. CASE S # {}
  <2>1. PICK x : S = {x}
    BY <1>2
  <2> QED BY <2>1, FS_Singleton
<1> QED BY <1>1, <1>2

LEMMA EndsOnce == ASSUME OfferedOnce(game, proposed) PROVE OfferEndsOnce
<1> SUFFICES ASSUME NEW id \in 1..proposed
             PROVE  Cardinality({i \in 1..Len(game.offers) : game.offers[i].id = id})
                      + Cardinality({i \in 1..Len(game.ended) : game.ended[i].id = id}) <= 1
  BY DEF OfferEndsOnce
<1> DEFINE S == {i \in 1..Len(game.offers) : game.offers[i].id = id}
           T == {i \in 1..Len(game.ended) : game.ended[i].id = id}
<1>1. (\A x, y \in S : x = y) /\ (\A x, y \in T : x = y) /\ (S = {} \/ T = {})
  BY DEF OfferedOnce
<1> HIDE DEF S, T
<1>2. /\ Cardinality(S) \in Nat /\ Cardinality(S) <= 1 /\ (S = {} => Cardinality(S) = 0)
      /\ Cardinality(T) \in Nat /\ Cardinality(T) <= 1 /\ (T = {} => Cardinality(T) = 0)
  BY <1>1, OneOrNone
<1>3. Cardinality(S) + Cardinality(T) <= 1
  BY <1>1, <1>2
<1> QED BY <1>3 DEF S, T

LEMMA FactoryHolds == ASSUME FactoryInv PROVE GameAddsUp
<1>1. FactoryTypeOK
  <2>1. ASSUME NEW p \in Players
        PROVE  /\ Me(p).money \in Int
               /\ {Me(p).made, Me(p).fulfilled, Me(p).started} \subseteq Nat
               /\ {Me(p).inventory, Me(p).making, Me(p).tasks} \subseteq [Shapes -> Nat]
    BY Known, Owner DEF Me, Bags
  <2>2. \A t \in Threads : threads[t].at \in {"free", "save", "make", "collect", "settle"}
    BY Working, DoingKinds
  <2> QED BY <2>1, <2>2 DEF FactoryTypeOK
<1>2. ASSUME overlaps = 0 PROVE Balanced(game) /\ Within(game) /\ OfferedOnce(game, proposed)
  BY <1>2, Adding DEF AddsUp
<1>3. MoneyAccounted
  BY <1>2 DEF MoneyAccounted, Balanced, Money, Worth, Me
<1>4. ShapesAccounted
  BY <1>2 DEF ShapesAccounted, Balanced, StartedBy, Accounted, Me
<1>5. NoDebt /\ WithinProductionLimit
  BY <1>2 DEF NoDebt, WithinProductionLimit, Within, Me
<1>6. OfferEndsOnce
  <2>1. CASE overlaps = 0
    BY <1>2, <2>1, EndsOnce
  <2>2. CASE overlaps # 0
    BY <2>2 DEF OfferEndsOnce
  <2> QED BY <2>1, <2>2
<1>7. SavedIsCurrent
  <2>1. CASE overlaps = 0
    BY <2>1 DEF FactoryInv
  <2>2. CASE overlaps # 0
    BY <2>2 DEF SavedIsCurrent
  <2> QED BY <2>1, <2>2
<1> QED BY <1>1, <1>3, <1>4, <1>5, <1>6, <1>7 DEF GameAddsUp

\* ShapeFactory: while no two requests are in flight together, the game adds up
\* (backend/game/shapefactory.py, services/production_service.py): the money is
\* what was given out and earned less what production cost, every shape begun is
\* in one place, nobody is in debt or past the limit, an offer ends once, and a
\* restart goes on from the same game.
THEOREM GameKept == FactorySpec => []GameAddsUp
<1>1. FactoryInit => FactoryInv
  BY FactoryBegins
<1>2. FactoryInv /\ [FactoryNext]_factoryVars => FactoryInv'
  BY FactoryStep
<1>3. FactoryInv => GameAddsUp
  BY FactoryHolds
<1> QED BY <1>1, <1>2, <1>3, PTL DEF FactorySpec

-----------------------------------------------------------------------------
(* Messages, for any participants, threads, window and number of messages.   *)

Texts == [time : Nat, from : Company, to : Company \cup {Group}]
ChatPlaces == Company \cup {"session"}
In(lists, place) == ToSet(Listing(lists, place))
Concerns(m, place) == place = "session" \/ place \in Histories(m)

(* What a thread does next.                                                  *)
Placing == [at : {"look", "make"}, m : Texts, todo : Seq(ChatPlaces)]
Placed == [at : {"row", "show"}, m : Texts, todo : {<<>>}]
Distinct(q) == \A i, j \in 1..Len(q) : q[i] = q[j] => i = j
Rowing == [at : {"row"}] \cup [at : {"row"}, m : Texts, todo : {<<>>}]
Sending(s) ==
    \/ s = NoSend \/ s \in Placing \/ s \in Placed \/ s \in [at : {"row"}]
    \/ s.at = "save" /\ s.of \in Rowing /\ s.n \in Nat

Carries(s, m) ==
    \/ s.at \in {"look", "make", "show"} /\ m = s.m
    \/ s.at = "row" /\ "m" \in DOMAIN s /\ m = s.m
    \/ s.at = "save" /\ "m" \in DOMAIN s.of /\ m = s.of.m
StillTo(s) == IF s.at \in {"look", "make"} THEN ToSet(s.todo) ELSE {}

ChatTypes ==
    /\ DOMAIN sends = Senders /\ \A t \in Senders : Sending(sends[t])
    /\ shown \subseteq Texts /\ older \in BOOLEAN
    /\ written \in Nat /\ boots \in Nat
    /\ rows \in [taken : Nat, newest : Nat]

(* Every copy of the lists has a message once and where it belongs.          *)
Orderly(lists, last) ==
    /\ DOMAIN lists \subseteq ChatPlaces
    /\ \A place \in DOMAIN lists :
        /\ lists[place] \in Seq(Texts)
        /\ \A i, j \in 1..Len(lists[place]) :
            lists[place][i].time = lists[place][j].time => i = j
        /\ \A i \in 1..Len(lists[place]) :
            lists[place][i].time <= last /\ Concerns(lists[place][i], place)

ListsSound ==
    /\ Orderly(chat, written) /\ Orderly(kept, written)
    /\ \A t \in Senders : sends[t].at = "save" => Orderly(sends[t].copy, written)

(* A message on its way has places left to go to, and is in none of them.    *)
ToGo(lists, s, last) ==
    /\ s.m.time <= last /\ Len(s.todo) > 0 /\ Distinct(s.todo)
    /\ \A place \in ToSet(s.todo) :
        Concerns(s.m, place) /\ \A n \in In(lists, place) : n.time # s.m.time

OnItsWay ==
    /\ \A t \in Senders : sends[t].at \in {"look", "make"} => ToGo(chat, sends[t], written)
    /\ \A t, u \in Senders :
        /\ sends[t].at \in {"look", "make"} /\ sends[u].at \in {"look", "make"}
        /\ sends[t].m.time = sends[u].m.time
        => t = u

(* It is in every place it belongs to and that it has not still to go to.    *)
Arrived(lists, again, m, left) ==
    \A place \in ChatPlaces \ again : Concerns(m, place) => m \in In(lists, place) \/ place \in left
Arrivals ==
    /\ \A t \in Senders : \A m \in Texts : Carries(sends[t], m) => Arrived(chat, remade, m, StillTo(sends[t]))
    /\ boots = 0 => \A m \in shown : Arrived(chat, remade, m, {})

(* Of the rows that were taken the later ones have more.                     *)
Session(lists) == In(lists, "session")
RowsGrow ==
    /\ Session(kept) \subseteq Session(chat)
    /\ \A t \in Senders : sends[t].at = "save" =>
        /\ Session(sends[t].copy) \subseteq Session(chat)
        /\ sends[t].n >= rows.newest => Session(kept) \subseteq Session(sends[t].copy)
        /\ \A m \in Texts : Carries(sends[t], m) => m \in Session(sends[t].copy)
        /\ \A u \in Senders :
            sends[u].at = "save" /\ sends[t].n <= sends[u].n =>
                Session(sends[t].copy) \subseteq Session(sends[u].copy)
    /\ \A t \in Senders :
        sends[t].at = "show" /\ sends[t].m.from \in Robots => sends[t].m \in Session(kept)
    /\ \A m \in shown : m.from \in Robots => m \in Session(kept)

ChatInv ==
    /\ ChatTypes /\ ListsSound /\ OnItsWay /\ Arrivals
    /\ rows.newest <= rows.taken
    /\ \A t \in Senders : sends[t].at = "save" => sends[t].n <= rows.taken
    /\ ~older /\ "session" \notin remade => RowsGrow

-----------------------------------------------------------------------------
(* Lists.                                                                    *)
LEMMA ListOf ==
    ASSUME NEW S, NEW q \in Seq(S)
    PROVE  /\ Len(q) \in Nat /\ DOMAIN q = 1..Len(q) /\ ToSet(q) \subseteq S
           /\ ToSet(q) = {q[i] : i \in 1..Len(q)}
           /\ \A i \in 1..Len(q) : q[i] \in ToSet(q) /\ q[i] \in S
<1>1. Len(q) \in Nat /\ DOMAIN q = 1..Len(q) /\ \A i \in 1..Len(q) : q[i] \in S
  OBVIOUS
<1> QED BY <1>1 DEF ToSet

LEMMA Nowhere == ToSet(<<>>) = {}
BY DEF ToSet

LEMMA Single ==
    ASSUME NEW S, NEW x \in S
    PROVE  /\ <<x>> \in Seq(S) /\ Len(<<x>>) = 1 /\ <<x>>[1] = x /\ ToSet(<<x>>) = {x}
<1>1. <<x>> \in Seq(S) /\ Len(<<x>>) = 1 /\ <<x>>[1] = x
  OBVIOUS
<1>2. ToSet(<<x>>) = {<<x>>[i] : i \in 1..1}
  BY <1>1, ListOf
<1> QED BY <1>1, <1>2

LEMMA Extended ==
    ASSUME NEW S, NEW q \in Seq(S), NEW x \in S
    PROVE  ToSet(Append(q, x)) = ToSet(q) \cup {x}
<1> DEFINE n == Len(q)  r == Append(q, x)
<1>1. /\ r \in Seq(S) /\ n \in Nat /\ Len(r) = n + 1 /\ r[n + 1] = x
      /\ \A i \in 1..n : r[i] = q[i]
  BY Appended
<1>2. ToSet(q) = {q[i] : i \in 1..n}
  BY ListOf
<1> HIDE DEF n, r
<1>3. ToSet(r) = {r[i] : i \in 1..(n + 1)}
  BY <1>1, ListOf
<1>4. 1..(n + 1) = (1..n) \cup {n + 1}
  BY <1>1
<1>5. ToSet(r) = ToSet(q) \cup {x}
  BY <1>1, <1>2, <1>3, <1>4
<1> QED BY <1>5 DEF r

LEMMA Rest ==
    ASSUME NEW S, NEW q \in Seq(S), Len(q) > 0, Distinct(q)
    PROVE  /\ Tail(q) \in Seq(S) /\ Len(Tail(q)) = Len(q) - 1 /\ Distinct(Tail(q))
           /\ Head(q) \in S /\ Head(q) \in ToSet(q)
           /\ ToSet(Tail(q)) = ToSet(q) \ {Head(q)}
<1> DEFINE n == Len(q)  r == Tail(q)
<1>1. /\ r \in Seq(S) /\ n \in Nat /\ n # 0 /\ Len(r) = n - 1 /\ Head(q) = q[1]
      /\ \A i \in 1..(n - 1) : r[i] = q[i + 1]
  OBVIOUS
<1>2. ToSet(q) = {q[i] : i \in 1..n} /\ \A i \in 1..n : q[i] \in ToSet(q) /\ q[i] \in S
  BY ListOf
<1>3. ToSet(r) = {r[i] : i \in 1..(n - 1)}
  BY <1>1, ListOf
<1>4. \A i, j \in 1..n : q[i] = q[j] => i = j
  BY DEF Distinct
<1> HIDE DEF n, r
<1>5. 1 \in 1..n /\ \A i \in 1..(n - 1) : i + 1 \in 1..n /\ i + 1 # 1
  BY <1>1
<1>6. \A k \in 1..n : k # 1 => k - 1 \in 1..(n - 1) /\ (k - 1) + 1 = k
  BY <1>1
<1>7. ToSet(r) = ToSet(q) \ {q[1]}
  <2>1. ASSUME NEW i \in 1..(n - 1) PROVE r[i] \in ToSet(q) \ {q[1]}
    BY <1>1, <1>2, <1>4, <1>5
  <2>2. ASSUME NEW k \in 1..n, q[k] # q[1] PROVE q[k] \in ToSet(r)
    <3>1. k - 1 \in 1..(n - 1) /\ (k - 1) + 1 = k
      BY <1>6, <2>2
    <3>2. r[k - 1] = q[k]
      BY <1>1, <3>1
    <3> QED BY <1>3, <3>1, <3>2
  <2> QED BY <1>2, <1>3, <2>1, <2>2
<1>8. \A i, j \in 1..(n - 1) : r[i] = r[j] => i = j
  <2> SUFFICES ASSUME NEW i \in 1..(n - 1), NEW j \in 1..(n - 1), r[i] = r[j] PROVE i = j
    OBVIOUS
  <2>1. i + 1 = j + 1
    BY <1>1, <1>4, <1>5
  <2> QED BY <1>1, <2>1
<1> QED BY <1>1, <1>2, <1>5, <1>7, <1>8 DEF r, n, Distinct

\* The places of a set, each once, after the session.
LEMMA Route ==
    ASSUME NEW S, IsFiniteSet(S), NEW x, x \notin S
    PROVE  LET q == <<x>> \o SetToSeq(S)
           IN  /\ q \in Seq(S \cup {x}) /\ Len(q) > 0 /\ Distinct(q) /\ ToSet(q) = S \cup {x}
<1> DEFINE n == Cardinality(S)  r == SetToSeq(S)
<1>1. n \in Nat /\ ExistsBijection(1..n, S)
  BY FS_CardinalityType
<1>2. PICK f \in [1..n -> S] : IsInjective(f)
  BY <1>1 DEF ExistsBijection, Bijection, Injection, IsInjective
<1>3. r \in [1..n -> S] /\ IsInjective(r)
  BY <1>2 DEF SetToSeq
<1>4. r \in Seq(S) /\ Len(r) = n
  BY <1>1, <1>3
<1> DEFINE T == {r[i] : i \in 1..n}
<1>5. T \subseteq S /\ ExistsBijection(1..n, T)
  <2>1. T \subseteq S
    BY <1>3
  <2>2. r \in Bijection(1..n, T)
    BY <1>3 DEF Bijection, Injection, Surjection, IsInjective
  <2> QED BY <2>1, <2>2 DEF ExistsBijection
<1>6. T = S
  <2>1. IsFiniteSet(T) /\ Cardinality(T) = n
    BY <1>1, <1>5, FS_CountingElements, FS_Subset
  <2> QED BY <1>5, <2>1, FS_Subset
<1>7. ToSet(r) = S /\ \A i, j \in 1..n : r[i] = r[j] => i = j
  <2>1. ToSet(r) = T
    BY <1>4, ListOf
  <2>2. \A i, j \in 1..n : r[i] = r[j] => i = j
    BY <1>3 DEF IsInjective
  <2> QED BY <1>6, <2>1, <2>2
<1> HIDE DEF n, r, T
<1> DEFINE q == <<x>> \o r  U == S \cup {x}
<1>8. <<x>> \in Seq(U) /\ Len(<<x>>) = 1 /\ <<x>>[1] = x /\ r \in Seq(U)
  <2>1. r \in Seq(U)
    BY <1>4
  <2> QED BY <2>1
<1>9. /\ q \in Seq(U) /\ Len(q) = n + 1
      /\ \A i \in 1..(n + 1) : q[i] = IF i <= 1 THEN x ELSE r[i - 1]
  <2>1. /\ <<x>> \o r \in Seq(U) /\ Len(<<x>> \o r) = Len(<<x>>) + Len(r)
        /\ \A i \in 1..(Len(<<x>>) + Len(r)) : (<<x>> \o r)[i] =
             IF i <= Len(<<x>>) THEN <<x>>[i] ELSE r[i - Len(<<x>>)]
    <3> HIDE DEF U
    <3> QED BY <1>8, ConcatProperties
  <2>2. Len(<<x>>) + Len(r) = n + 1
    BY <1>1, <1>4, <1>8
  <2>3. \A i \in 1..(n + 1) : q[i] = IF i <= 1 THEN <<x>>[i] ELSE r[i - 1]
    BY <1>8, <2>1, <2>2
  <2>4. \A i \in 1..(n + 1) : i <= 1 => <<x>>[i] = x
    BY <1>1, <1>8
  <2> QED BY <2>1, <2>2, <2>3, <2>4
<1> HIDE DEF q
<1>10. /\ 1..(n + 1) = {1} \cup {i + 1 : i \in 1..n} /\ q[1] = x
       /\ \A i \in 1..n : q[i + 1] = r[i] /\ r[i] \in S
  <2>1. 1..(n + 1) = {1} \cup {i + 1 : i \in 1..n}
    <3>1. \A k \in 1..(n + 1) : k = 1 \/ (k - 1 \in 1..n /\ (k - 1) + 1 = k)
      BY <1>1
    <3>2. 1 \in 1..(n + 1) /\ \A i \in 1..n : i + 1 \in 1..(n + 1)
      BY <1>1
    <3> QED BY <3>1, <3>2
  <2>2. \A i \in 1..n : i + 1 \in 1..(n + 1) /\ ~(i + 1 <= 1) /\ (i + 1) - 1 = i
    BY <1>1
  <2>3. \A i \in 1..n : q[i + 1] = r[i]
    BY <1>9, <2>2
  <2>4. \A i \in 1..n : r[i] \in S
    BY <1>4, ListOf
  <2>5. 1 \in 1..(n + 1) /\ 1 <= 1
    BY <1>1
  <2> QED BY <1>9, <2>1, <2>3, <2>4, <2>5
<1>11. ToSet(q) = S \cup {x}
  <2>1. ToSet(q) = {q[i] : i \in 1..(n + 1)}
    BY <1>9, ListOf
  <2>2. S = {r[i] : i \in 1..n}
    BY <1>4, <1>7, ListOf
  <2>3. \A k \in 1..(n + 1) : q[k] \in S \cup {x}
    BY <1>10
  <2>4. \A i \in 1..n : r[i] \in ToSet(q)
    BY <1>10, <2>1
  <2>5. x \in ToSet(q)
    BY <1>10, <2>1
  <2>6. S \subseteq ToSet(q)
    BY <2>2, <2>4
  <2>7. ToSet(q) \subseteq S \cup {x}
    BY <2>1, <2>3
  <2> QED BY <2>5, <2>6, <2>7
<1>12. Distinct(q)
  <2>1. \A i, j \in 1..(n + 1) : q[i] = q[j] => i = j
    BY <1>7, <1>10
  <2> QED BY <1>9, <2>1 DEF Distinct
<1>13. Len(q) > 0
  BY <1>1, <1>9
<1> QED BY <1>9, <1>11, <1>12, <1>13 DEF q, U, r

-----------------------------------------------------------------------------
(* What an agent is shown.                                                   *)
LEMMA Oldest ==
    ASSUME NEW S, S # {}, \A m \in S : m.time \in Nat
    PROVE  \E o \in S : \A m \in S : m.time >= o.time
<1> DEFINE T == {m.time : m \in S}
<1>1. T \subseteq Nat /\ T # {}
  OBVIOUS
<1>2. PICK x \in T : \A y \in T : ~(<<y, x>> \in Below)
  <2> HIDE DEF T
  <2> QED BY <1>1, WFMin, BelowFounded
<1>3. \A y \in T : y >= x
  <2> HIDE DEF T
  <2> SUFFICES ASSUME NEW y \in T PROVE y >= x
    OBVIOUS
  <2>1. y \in Nat /\ x \in Nat
    BY <1>1, <1>2
  <2>2. ~(y < x)
    <3>1. ~(<<y, x>> \in Below)
      BY <1>2
    <3> QED BY <2>1, <3>1 DEF Below
  <2> QED BY <2>1, <2>2
<1> QED BY <1>3

LEMMA HowMany ==
    ASSUME NEW S, IsFiniteSet(S), \A m \in S : m.time \in Nat,
           \A m, n \in S : m.time = n.time => m = n
    PROVE  IsFiniteSet(Newest(S)) /\ Cardinality(Newest(S)) = IF Cardinality(S) <= Window THEN Cardinality(S) ELSE Window
<1> DEFINE Many(s) == IF Cardinality(s) <= Window THEN Cardinality(s) ELSE Window
           D == {s \in SUBSET S : IsFiniteSet(Newest(s)) /\ Cardinality(Newest(s)) = Many(s)}
<1>w. Window \in Nat \ {0}
  BY MessagesAssumption
<1>1. ASSUME NEW s \in SUBSET S,
             \A t \in SUBSET S : Cardinality(t) < Cardinality(s) => t \in D
      PROVE  s \in D
  <2>0. IsFiniteSet(s) /\ Cardinality(s) \in Nat
    BY FS_Subset, FS_CardinalityType
  <2>1. CASE s = {}
    <3>1. Newest(s) = {}
      BY <2>1 DEF Newest
    <3>2. IsFiniteSet({}) /\ Cardinality({}) = 0
      BY FS_EmptySet
    <3> QED BY <1>w, <2>1, <3>1, <3>2
  <2>2. CASE s # {}
    <3>1. PICK o \in s : \A m \in s : m.time >= o.time
      BY <2>2, Oldest
    <3> DEFINE r == s \ {o}
    <3>2. IsFiniteSet(r) /\ Cardinality(r) = Cardinality(s) - 1 /\ r \in SUBSET S /\ Cardinality(r) \in Nat
      BY <2>0, FS_RemoveElement, FS_CardinalityType
    <3>3. r \in D
      BY <1>1, <2>0, <3>2
    <3>4. {m \in s : m.time > o.time} = r
      BY <3>1
    <3>5. \A n \in s : {m \in s : m.time > n.time} = IF n = o THEN r ELSE {m \in r : m.time > n.time}
      BY <3>1, <3>4
    <3> HIDE DEF D
    <3>6. Newest(s) = IF Cardinality(r) < Window THEN Newest(r) \cup {o} ELSE Newest(r)
      <4>1. \A n \in r : n \in Newest(s) <=> n \in Newest(r)
        BY <3>5 DEF Newest
      <4>2. o \in Newest(s) <=> Cardinality(r) < Window
        BY <3>4 DEF Newest
      <4>3. Newest(s) \subseteq s /\ Newest(r) \subseteq r
        BY DEF Newest
      <4>4. s = r \cup {o} /\ o \notin r
        BY <3>1
      <4> HIDE DEF r
      <4>5. o \notin Newest(r)
        BY <4>3, <4>4
      <4>6. \A n \in s : n \in Newest(s) <=> n \in Newest(r) \/ (n = o /\ Cardinality(r) < Window)
        BY <4>1, <4>2, <4>4, <4>5
      <4> QED BY <4>3, <4>4, <4>6
    <3>7. o \notin Newest(r) /\ IsFiniteSet(Newest(r)) /\ Cardinality(Newest(r)) = Many(r)
      BY <3>3 DEF D, Newest
    <3> HIDE DEF r
    <3>8. CASE Cardinality(r) < Window
      <4>1. IsFiniteSet(Newest(r) \cup {o}) /\ Cardinality(Newest(r) \cup {o}) = Cardinality(Newest(r)) + 1
        BY <3>7, FS_AddElement
      <4>2. Cardinality(Newest(s)) = Many(s)
        BY <1>w, <2>0, <3>2, <3>6, <3>7, <3>8, <4>1
      <4> QED BY <3>6, <3>8, <4>1, <4>2 DEF D
    <3>9. CASE ~(Cardinality(r) < Window)
      <4>1. Cardinality(Newest(s)) = Many(s)
        BY <1>w, <2>0, <3>2, <3>6, <3>7, <3>9
      <4> QED BY <3>6, <3>7, <3>9, <4>1 DEF D
    <3> QED BY <3>8, <3>9
  <2> QED BY <2>1, <2>2
<1>2. SUBSET S \subseteq D
  <2> HIDE DEF D
  <2> QED BY <1>1, SizeInduction
<1> QED BY <1>2

\* A message that is not shown to an agent is pushed out by Window newer ones.
LEMMA PushedOut ==
    ASSUME NEW S, IsFiniteSet(S), \A m \in S : m.time \in Nat,
           \A m, n \in S : m.time = n.time => m = n,
           NEW m \in S, m \notin Newest(S)
    PROVE  Cardinality({n \in Newest(S) : n.time > m.time}) = Window
<1> DEFINE N == {n \in S : n.time > m.time}
<1>w. Window \in Nat
  BY MessagesAssumption
<1>1. IsFiniteSet(N) /\ Cardinality(N) \in Nat
  BY FS_Subset, FS_CardinalityType
<1>2. ~(Cardinality(N) < Window)
  BY DEF Newest
<1>3. \A n \in N : {k \in S : k.time > n.time} = {k \in N : k.time > n.time}
  OBVIOUS
<1>4. {n \in Newest(S) : n.time > m.time} = Newest(N)
  BY <1>3 DEF Newest
<1>5. (\A n \in N : n.time \in Nat) /\ \A k, n \in N : k.time = n.time => k = n
  OBVIOUS
<1> HIDE DEF N
<1>6. Cardinality(Newest(N)) = IF Cardinality(N) <= Window THEN Cardinality(N) ELSE Window
  BY <1>1, <1>5, HowMany
<1> QED BY <1>w, <1>1, <1>2, <1>4, <1>6

-----------------------------------------------------------------------------
(* The lists of a session.                                                   *)
LEMMA ListedOnce ==
    ASSUME NEW lists, NEW last, Orderly(lists, last), NEW place
    PROVE  /\ In(lists, place) \subseteq Texts /\ IsFiniteSet(In(lists, place))
           /\ \A m \in In(lists, place) : m.time <= last /\ Concerns(m, place) /\ place \in DOMAIN lists
           /\ \A m, n \in In(lists, place) : m.time = n.time => m = n
<1>1. CASE place \notin DOMAIN lists
  <2>1. In(lists, place) = {}
    BY <1>1, Nowhere DEF In, Listing
  <2> QED BY <2>1, FS_EmptySet
<1>2. CASE place \in DOMAIN lists
  <2> DEFINE q == lists[place]
  <2>1. In(lists, place) = ToSet(q)
    BY <1>2 DEF In, Listing
  <2>2. /\ q \in Seq(Texts) /\ \A i, j \in 1..Len(q) : q[i].time = q[j].time => i = j
        /\ \A i \in 1..Len(q) : q[i].time <= last /\ Concerns(q[i], place)
    BY <1>2 DEF Orderly
  <2> HIDE DEF q
  <2>3. /\ Len(q) \in Nat /\ ToSet(q) = {q[i] : i \in 1..Len(q)} /\ ToSet(q) \subseteq Texts
    BY <2>2, ListOf
  <2>4. IsFiniteSet(ToSet(q))
    <3>1. q \in Surjection(1..Len(q), ToSet(q))
      <4>1. q \in [1..Len(q) -> ToSet(q)]
        BY <2>2, ListOf
      <4> QED BY <2>3, <4>1 DEF Surjection
    <3>2. IsFiniteSet(1..Len(q))
      BY <2>3, FS_Interval
    <3> QED BY <3>1, <3>2, FS_Surjection
  <2>5. \A m \in ToSet(q) : m.time <= last /\ Concerns(m, place)
    BY <2>2, <2>3
  <2>6. \A m, n \in ToSet(q) : m.time = n.time => m = n
    BY <2>2, <2>3
  <2> QED BY <1>2, <2>1, <2>3, <2>4, <2>5, <2>6
<1> QED BY <1>1, <1>2

LEMMA StaysOrderly ==
    ASSUME NEW lists, NEW last \in Nat, NEW next \in Nat, last <= next, Orderly(lists, last)
    PROVE  Orderly(lists, next)
<1> SUFFICES ASSUME NEW place \in DOMAIN lists, NEW i \in 1..Len(lists[place])
             PROVE  lists[place][i].time <= next
  BY DEF Orderly
<1>1. lists[place] \in Seq(Texts) /\ lists[place][i].time <= last
  BY DEF Orderly
<1>2. lists[place][i] \in Texts
  BY <1>1, ListOf
<1>3. lists[place][i].time \in Nat
  BY <1>2 DEF Texts
<1> QED BY <1>1, <1>3

WithText(lists, place, m) == [lists EXCEPT ![place] = Append(@, m)]

\* A list that is there gets a message, one that is missing is made of it.
LEMMA Added ==
    ASSUME NEW lists, NEW last, Orderly(lists, last), NEW place \in DOMAIN lists, NEW m \in Texts,
           m.time <= last, Concerns(m, place), \A n \in In(lists, place) : n.time # m.time,
           NEW next, next = WithText(lists, place, m)
    PROVE  /\ Orderly(next, last) /\ In(next, place) = In(lists, place) \cup {m}
           /\ \A q \in ChatPlaces \ {place} : In(next, q) = In(lists, q)
<1> DEFINE a == lists[place]  b == Append(a, m)  n == Len(a)
<1>1. /\ a \in Seq(Texts) /\ \A i, j \in 1..n : a[i].time = a[j].time => i = j
      /\ \A i \in 1..n : a[i].time <= last /\ Concerns(a[i], place)
  BY DEF Orderly
<1>2. /\ b \in Seq(Texts) /\ n \in Nat /\ Len(b) = n + 1 /\ b[n + 1] = m
      /\ \A i \in 1..n : b[i] = a[i]
  BY <1>1, Appended
<1>3. /\ DOMAIN next = DOMAIN lists /\ next[place] = b
      /\ \A q \in DOMAIN lists \ {place} : next[q] = lists[q]
  BY DEF WithText
<1>4. In(lists, place) = ToSet(a) /\ In(next, place) = ToSet(b)
  BY <1>3 DEF In, Listing
<1>5. ToSet(b) = ToSet(a) \cup {m}
  BY <1>1, Extended
<1>6. \A i \in 1..n : a[i].time # m.time
  BY <1>1, <1>4, ListOf
<1> HIDE DEF a, b, n
<1>7. 1..(n + 1) = (1..n) \cup {n + 1}
  BY <1>2
<1>8. \A i, j \in 1..(n + 1) : b[i].time = b[j].time => i = j
  BY <1>1, <1>2, <1>6, <1>7
<1>9. \A i \in 1..(n + 1) : b[i].time <= last /\ Concerns(b[i], place)
  BY <1>1, <1>2, <1>7
<1>10. Orderly(next, last)
  <2>1. DOMAIN next \subseteq ChatPlaces
    BY <1>3 DEF Orderly
  <2>2. ASSUME NEW q \in DOMAIN next
        PROVE  /\ next[q] \in Seq(Texts)
               /\ \A i, j \in 1..Len(next[q]) : next[q][i].time = next[q][j].time => i = j
               /\ \A i \in 1..Len(next[q]) : next[q][i].time <= last /\ Concerns(next[q][i], q)
    <3>1. CASE q = place
      <4>1. next[q] = b /\ Len(next[q]) = n + 1
        BY <1>2, <1>3, <3>1
      <4>2. \A i, j \in 1..Len(next[q]) : next[q][i].time = next[q][j].time => i = j
        BY <1>8, <4>1
      <4>3. \A i \in 1..Len(next[q]) : next[q][i].time <= last /\ Concerns(next[q][i], q)
        BY <1>9, <3>1, <4>1
      <4> QED BY <1>2, <4>1, <4>2, <4>3
    <3>2. CASE q # place
      <4>1. next[q] = lists[q] /\ q \in DOMAIN lists
        BY <1>3, <3>2
      <4> QED BY <4>1 DEF Orderly
    <3> QED BY <3>1, <3>2
  <2> QED BY <2>1, <2>2 DEF Orderly
<1>11. \A q \in ChatPlaces \ {place} : In(next, q) = In(lists, q)
  BY <1>3 DEF In, Listing
<1> QED BY <1>4, <1>5, <1>10, <1>11

LEMMA MadeAnew ==
    ASSUME NEW lists, NEW last, Orderly(lists, last), NEW place \in ChatPlaces, NEW m \in Texts,
           m.time <= last, Concerns(m, place), NEW next, 
           next = [q \in DOMAIN lists \cup {place} |-> IF q = place THEN <<m>> ELSE lists[q]]
    PROVE  /\ Orderly(next, last) /\ In(next, place) = {m}
           /\ \A q \in ChatPlaces \ {place} : In(next, q) = In(lists, q)
<1>1. /\ DOMAIN next = DOMAIN lists \cup {place} /\ next[place] = <<m>>
      /\ \A q \in DOMAIN lists \ {place} : next[q] = lists[q]
  OBVIOUS
<1>2. <<m>> \in Seq(Texts) /\ Len(<<m>>) = 1 /\ <<m>>[1] = m /\ ToSet(<<m>>) = {m}
  BY Single
<1>3. In(next, place) = {m}
  BY <1>1, <1>2 DEF In, Listing
<1>4. Orderly(next, last)
  <2>1. DOMAIN next \subseteq ChatPlaces
    BY <1>1 DEF Orderly
  <2>2. ASSUME NEW q \in DOMAIN next
        PROVE  /\ next[q] \in Seq(Texts)
               /\ \A i, j \in 1..Len(next[q]) : next[q][i].time = next[q][j].time => i = j
               /\ \A i \in 1..Len(next[q]) : next[q][i].time <= last /\ Concerns(next[q][i], q)
    <3>1. CASE q = place
      <4> DEFINE l == <<m>>
      <4>1. l \in Seq(Texts) /\ Len(l) = 1 /\ l[1] = m /\ next[q] = l
        BY <1>1, <1>2, <3>1
      <4> HIDE DEF l
      <4>2. \A i \in 1..Len(l) : i = 1
        BY <4>1
      <4> QED BY <3>1, <4>1, <4>2
    <3>2. CASE q # place
      <4>1. next[q] = lists[q] /\ q \in DOMAIN lists
        BY <1>1, <3>2
      <4> QED BY <4>1 DEF Orderly
    <3> QED BY <3>1, <3>2
  <2> QED BY <2>1, <2>2 DEF Orderly
<1>5. \A q \in ChatPlaces \ {place} : In(next, q) = In(lists, q)
  BY <1>1 DEF In, Listing
<1> QED BY <1>3, <1>4, <1>5

LEMMA ArrivedStays ==
    ASSUME NEW lists, NEW again, NEW next, NEW more, NEW m, NEW left,
           Arrived(lists, again, m, left), again \subseteq more,
           \A place \in ChatPlaces \ more : In(lists, place) \subseteq In(next, place)
    PROVE  Arrived(next, more, m, left)
BY DEF Arrived

-----------------------------------------------------------------------------
(* What a thread does next.                                                  *)
LEMMA SendingKinds ==
    ASSUME NEW s, Sending(s)
    PROVE  /\ s.at \in {"free", "look", "make", "row", "show", "save"}
           /\ s.at \in {"look", "make"} => s \in Placing /\ s.m \in Texts /\ \A x : Carries(s, x) <=> x = s.m
           /\ s.at = "show" => s \in Placed /\ s.m \in Texts /\ \A x : Carries(s, x) <=> x = s.m
           /\ s.at = "row" => s \in Rowing
           /\ s.at \in {"row", "show", "save", "free"} => StillTo(s) = {}
<1>1. CASE s = NoSend
  BY <1>1 DEF NoSend, StillTo
<1>2. CASE s \in Placing
  BY <1>2 DEF Placing, Carries
<1>3. CASE s \in Placed
  BY <1>3 DEF Placed, Carries, StillTo, Rowing
<1>4. CASE s \in [at : {"row"}]
  BY <1>4 DEF StillTo, Rowing
<1>5. CASE s.at = "save" /\ s.of \in Rowing /\ s.n \in Nat
  BY <1>5 DEF StillTo
<1> QED BY <1>1, <1>2, <1>3, <1>4, <1>5 DEF Sending

LEMMA NextPlaceIs ==
    ASSUME NEW s \in Placing, Len(s.todo) > 0, Distinct(s.todo), NEW n, n = NextPlace(s)
    PROVE  /\ Sending(n) /\ n.m = s.m /\ \A x : Carries(n, x) <=> x = s.m
           /\ StillTo(n) = ToSet(s.todo) \ {Head(s.todo)}
           /\ n.at \in {"look", "row", "show"}
           /\ n.at = "look" => Len(n.todo) > 0 /\ Distinct(n.todo)
           /\ n.at = "show" => s.m.from \notin Robots
           /\ Head(s.todo) \in ToSet(s.todo) /\ Head(s.todo) \in ChatPlaces
<1> DEFINE q == s.todo  r == Tail(q)
<1>1. q \in Seq(ChatPlaces) /\ s.m \in Texts /\ Len(q) \in Nat
  BY DEF Placing
<1>2. /\ r \in Seq(ChatPlaces) /\ Len(r) = Len(q) - 1 /\ Distinct(r)
      /\ Head(q) \in ChatPlaces /\ Head(q) \in ToSet(q)
      /\ ToSet(r) = ToSet(q) \ {Head(q)}
  <2> HIDE DEF q
  <2> QED BY <1>1, Rest DEF q
<1>3. /\ n.at = IF Len(q) > 1 THEN "look" ELSE IF s.m.from \in Robots THEN "row" ELSE "show"
      /\ n.todo = r /\ n.m = s.m /\ DOMAIN n = {"at", "m", "todo"}
      /\ n = [at |-> n.at, m |-> s.m, todo |-> r]
  <2> HIDE DEF r
  <2>1. NextPlace(s) = [s EXCEPT !.at = IF Len(q) > 1 THEN "look" ELSE IF s.m.from \in Robots THEN "row" ELSE "show",
                                 !.todo = r]
    BY DEF NextPlace, r
  <2> HIDE DEF q
  <2> QED BY <2>1 DEF Placing
<1>l. Len(q) > 0
  OBVIOUS
<1> HIDE DEF q, r
<1>4. CASE Len(q) > 1
  <2>1. n.at = "look" /\ n \in Placing
    BY <1>1, <1>2, <1>3, <1>4 DEF Placing
  <2>2. Len(n.todo) > 0
    BY <1>1, <1>2, <1>3, <1>4
  <2> QED BY <1>2, <1>3, <2>1, <2>2 DEF Sending, StillTo, Carries, q
<1>5. CASE ~(Len(q) > 1)
  <2>1. Len(r) = 0
    BY <1>1, <1>2, <1>5, <1>l
  <2>2. r = <<>>
    BY <1>2, <2>1
  <2>3. ToSet(r) = {}
    BY <2>2, Nowhere
  <2>4. n.at \in {"row", "show"} /\ n \in Placed /\ (n.at = "show" => s.m.from \notin Robots)
    BY <1>1, <1>3, <1>5, <2>2 DEF Placed
  <2>5. StillTo(n) = {} /\ \A x : Carries(n, x) <=> x = s.m
    BY <1>3, <2>4 DEF StillTo, Carries
  <2> QED BY <1>2, <1>3, <2>3, <2>4, <2>5 DEF Sending, q
<1> QED BY <1>4, <1>5

-----------------------------------------------------------------------------
(* The steps.                                                                *)
Turns(t, n) == DOMAIN sends' = DOMAIN sends /\ sends'[t] = n /\ \A u \in Senders \ {t} : sends'[u] = sends[u]

LEMMA TurnsTo ==
    ASSUME ChatTypes, NEW t \in Senders, NEW n, sends' = [sends EXCEPT ![t] = n]
    PROVE  Turns(t, n)
BY DEF ChatTypes, Turns

\* A thread that puts its message into the next place.
LEMMA PutThere ==
    ASSUME ChatInv, NEW t \in Senders, sends[t].at \in {"look", "make"},
           NEW place, place = Head(sends[t].todo), Turns(t, NextPlace(sends[t])),
           Orderly(chat', written), sends[t].m \in In(chat', place),
           In(chat', place) \subseteq In(chat, place) \cup {sends[t].m},
           \A q \in ChatPlaces \ {place} : In(chat', q) = In(chat, q),
           remade \subseteq remade', place \notin remade' => In(chat, place) \subseteq In(chat', place),
           UNCHANGED <<kept, shown, older, rows, written, boots>>
    PROVE  ChatInv'
<1> DEFINE s == sends[t]  n == NextPlace(s)  m == s.m
<1>1. /\ ChatTypes /\ ListsSound /\ OnItsWay /\ Arrivals /\ rows.newest <= rows.taken
      /\ \A u \in Senders : sends[u].at = "save" => sends[u].n <= rows.taken
      /\ ~older /\ "session" \notin remade => RowsGrow
  BY DEF ChatInv
<1>2. s \in Placing /\ m \in Texts /\ (\A x : Carries(s, x) <=> x = m) /\ StillTo(s) = ToSet(s.todo)
  BY <1>1, SendingKinds DEF ChatTypes, StillTo
<1>3. ToGo(chat, s, written)
  BY <1>1 DEF OnItsWay
<1>4. /\ Sending(n) /\ n.m = m /\ (\A x : Carries(n, x) <=> x = m)
      /\ StillTo(n) = ToSet(s.todo) \ {place} /\ n.at \in {"look", "row", "show"}
      /\ n.at = "look" => Len(n.todo) > 0 /\ Distinct(n.todo)
      /\ n.at = "show" => m.from \notin Robots
      /\ place \in ToSet(s.todo) /\ place \in ChatPlaces
  BY <1>2, <1>3, NextPlaceIs DEF ToGo
<1>5. /\ DOMAIN sends' = Senders /\ sends'[t] = n
      /\ \A u \in Senders \ {t} : sends'[u] = sends[u]
  BY <1>1 DEF Turns, ChatTypes
<1>6. ToSet(s.todo) \subseteq ChatPlaces /\ (n.at = "look" => StillTo(n) = ToSet(n.todo))
  <2>1. s.todo \in Seq(ChatPlaces)
    BY <1>2 DEF Placing
  <2>2. ToSet(s.todo) \subseteq ChatPlaces
    BY <2>1, ListOf
  <2> QED BY <2>2 DEF StillTo
<1>7. \A q \in ChatPlaces \ remade' : In(chat, q) \subseteq In(chat', q)
  <2> SUFFICES ASSUME NEW q \in ChatPlaces \ remade' PROVE In(chat, q) \subseteq In(chat', q)
    OBVIOUS
  <2>1. CASE q = place
    BY <2>1
  <2>2. CASE q # place
    BY <2>2
  <2> QED BY <2>1, <2>2
<1> HIDE DEF n, s, m
<1>8. ChatTypes'
  BY <1>1, <1>4, <1>5 DEF ChatTypes
<1>9. ListsSound'
  BY <1>1, <1>4, <1>5 DEF ListsSound
<1>10. OnItsWay'
  <2>1. \A u \in Senders : sends'[u].at \in {"look", "make"} =>
           sends[u].at \in {"look", "make"} /\ sends'[u].m = sends[u].m
    BY <1>4, <1>5 DEF s, m
  <2>2. \A u, w \in Senders :
           /\ sends'[u].at \in {"look", "make"} /\ sends'[w].at \in {"look", "make"}
           /\ sends'[u].m.time = sends'[w].m.time
           => u = w
    BY <1>1, <2>1 DEF OnItsWay
  <2>3. ASSUME n.at = "look" PROVE ToGo(chat', n, written)
    <3>1. \A q \in ToSet(n.todo) : q # place /\ q \in ChatPlaces /\ q \in ToSet(s.todo)
      BY <1>4, <1>6, <2>3
    <3>2. \A q \in ToSet(n.todo) : Concerns(m, q) /\ \A k \in In(chat', q) : k.time # m.time
      BY <1>3, <3>1 DEF ToGo, m
    <3> QED BY <1>3, <1>4, <2>3, <3>2 DEF ToGo, m
  <2>4. ASSUME NEW u \in Senders \ {t}, sends[u].at \in {"look", "make"} PROVE ToGo(chat', sends[u], written)
    <3>1. ToGo(chat, sends[u], written) /\ sends[u].m.time # m.time
      BY <1>1, <2>4 DEF OnItsWay, s, m
    <3>2. ToSet(sends[u].todo) \subseteq ChatPlaces
      <4>1. Sending(sends[u])
        BY <1>1 DEF ChatTypes
      <4>2. sends[u] \in Placing
        BY <2>4, <4>1, SendingKinds
      <4>3. sends[u].todo \in Seq(ChatPlaces)
        BY <4>2 DEF Placing
      <4> QED BY <4>3, ListOf
    <3>3. \A q \in ToSet(sends[u].todo) : In(chat', q) \subseteq In(chat, q) \cup {m}
      BY <3>2 DEF m, s
    <3>4. \A q \in ToSet(sends[u].todo) : \A k \in In(chat', q) : k.time # sends[u].m.time
      BY <3>1, <3>3 DEF ToGo
    <3> QED BY <3>1, <3>4 DEF ToGo
  <2>5. \A u \in Senders : sends'[u].at \in {"look", "make"} => ToGo(chat', sends'[u], written)
    BY <1>4, <1>5, <2>3, <2>4
  <2> QED BY <2>2, <2>5 DEF OnItsWay
<1>11. Arrivals'
  <2>1. Arrived(chat', remade', m, StillTo(n))
    <3>1. Arrived(chat, remade, m, ToSet(s.todo))
      BY <1>1, <1>2 DEF Arrivals, s
    <3>2. Arrived(chat', remade', m, ToSet(s.todo))
      BY <1>7, <3>1, ArrivedStays
    <3>3. m \in In(chat', place)
      BY DEF m, s
    <3> QED BY <1>4, <3>2, <3>3 DEF Arrived
  <2>2. \A u \in Senders \ {t} : \A x \in Texts : Carries(sends[u], x) => Arrived(chat', remade', x, StillTo(sends[u]))
    BY <1>1, <1>7, ArrivedStays DEF Arrivals
  <2>3. boots = 0 => \A x \in shown : Arrived(chat', remade', x, {})
    BY <1>1, <1>7, ArrivedStays DEF Arrivals
  <2>4. \A u \in Senders : \A x \in Texts : Carries(sends'[u], x) => Arrived(chat', remade', x, StillTo(sends'[u]))
    BY <1>4, <1>5, <2>1, <2>2
  <2> QED BY <2>3, <2>4 DEF Arrivals
<1>12. ASSUME ~older, "session" \notin remade' PROVE RowsGrow'
  <2>1. RowsGrow
    BY <1>1, <1>12
  <2>2. Session(chat) \subseteq Session(chat')
    BY <1>7, <1>12 DEF Session, ChatPlaces
  <2>3. \A u \in Senders : sends'[u].at = "save" => sends[u].at = "save" /\ sends'[u] = sends[u]
    BY <1>4, <1>5
  <2>4. \A u \in Senders :
           sends'[u].at = "show" /\ sends'[u].m.from \in Robots => sends'[u].m \in Session(kept)
    BY <1>4, <1>5, <2>1 DEF RowsGrow
  <2>5. \A u \in Senders : sends'[u].at = "save" =>
          /\ Session(sends'[u].copy) \subseteq Session(chat')
          /\ sends'[u].n >= rows.newest => Session(kept) \subseteq Session(sends'[u].copy)
          /\ \A x \in Texts : Carries(sends'[u], x) => x \in Session(sends'[u].copy)
    BY <2>1, <2>2, <2>3 DEF RowsGrow
  <2>6. \A u, w \in Senders : sends'[u].at = "save" /\ sends'[w].at = "save" /\ sends'[u].n <= sends'[w].n =>
           Session(sends'[u].copy) \subseteq Session(sends'[w].copy)
    BY <2>1, <2>3 DEF RowsGrow
  <2> QED BY <2>1, <2>2, <2>4, <2>5, <2>6 DEF RowsGrow
<1>13. \A u \in Senders : sends'[u].at = "save" => sends'[u].n <= rows.taken
  BY <1>1, <1>4, <1>5
<1> QED BY <1>1, <1>8, <1>9, <1>10, <1>11, <1>12, <1>13 DEF ChatInv

LEMMA MakeListKeeps ==
    ASSUME ChatInv, NEW t \in Senders, MakeList(t)
    PROVE  ChatInv'
<1> DEFINE s == sends[t]  place == Head(s.todo)  m == s.m
<1>1. ChatTypes /\ Orderly(chat, written) /\ s.at = "make"
  BY DEF ChatInv, ListsSound, MakeList
<1>2. s \in Placing /\ m \in Texts /\ ToGo(chat, s, written)
  BY <1>1, SendingKinds DEF ChatInv, OnItsWay, ChatTypes
<1>3. place \in ToSet(s.todo) /\ place \in ChatPlaces
  BY <1>2, NextPlaceIs DEF ToGo
<1>4. m.time <= written /\ Concerns(m, place)
  BY <1>2, <1>3 DEF ToGo
<1>5. sends' = [sends EXCEPT ![t] = NextPlace(s)]
  BY DEF MakeList
<1>6. Turns(t, NextPlace(s))
  <2> DEFINE n == NextPlace(s)
  <2> HIDE DEF n
  <2> QED BY <1>1, <1>5, TurnsTo DEF n
<1>7. chat' = [q \in DOMAIN chat \cup {place} |-> IF q = place THEN <<m>> ELSE chat[q]]
  BY DEF MakeList
<1>8. remade' = remade \cup ({place} \cap DOMAIN chat) /\ UNCHANGED <<kept, shown, older, rows, written, boots>>
  BY DEF MakeList
<1> HIDE DEF s, place, m
<1>9. /\ Orderly(chat', written) /\ In(chat', place) = {m}
      /\ \A q \in ChatPlaces \ {place} : In(chat', q) = In(chat, q)
  BY <1>1, <1>2, <1>3, <1>4, <1>7, MadeAnew
<1>10. place \notin remade' => In(chat, place) = {}
  BY <1>8, Nowhere DEF In, Listing
<1> QED BY <1>1, <1>6, <1>8, <1>9, <1>10, PutThere DEF s, place, m

LEMMA AppendKeeps ==
    ASSUME ChatInv, NEW t \in Senders, AppendToList(t)
    PROVE  ChatInv'
<1> DEFINE s == sends[t]  place == Head(s.todo)  m == s.m
<1>1. ChatTypes /\ Orderly(chat, written) /\ s.at = "look"
  BY DEF ChatInv, ListsSound, AppendToList
<1>2. s \in Placing /\ m \in Texts /\ ToGo(chat, s, written)
  BY <1>1, SendingKinds DEF ChatInv, OnItsWay, ChatTypes
<1>3. place \in ToSet(s.todo) /\ place \in DOMAIN chat
  BY <1>2, NextPlaceIs DEF ToGo, AppendToList
<1>4. m.time <= written /\ Concerns(m, place) /\ \A n \in In(chat, place) : n.time # m.time
  BY <1>2, <1>3 DEF ToGo
<1>5. sends' = [sends EXCEPT ![t] = NextPlace(s)]
  BY DEF AppendToList
<1>6. Turns(t, NextPlace(s))
  <2> DEFINE n == NextPlace(s)
  <2> HIDE DEF n
  <2> QED BY <1>1, <1>5, TurnsTo DEF n
<1>7. chat' = WithText(chat, place, m)
  BY DEF AppendToList, WithText
<1>8. UNCHANGED <<kept, shown, remade, older, rows, written, boots>>
  BY DEF AppendToList
<1> HIDE DEF s, place, m
<1>9. /\ Orderly(chat', written) /\ In(chat', place) = In(chat, place) \cup {m}
      /\ \A q \in ChatPlaces \ {place} : In(chat', q) = In(chat, q)
  BY <1>1, <1>2, <1>3, <1>4, <1>7, Added
<1> QED BY <1>1, <1>6, <1>8, <1>9, PutThere DEF s, place, m

\* A thread that turns to something else, while lists and rows stay as they are.
LEMMA TurnAway ==
    ASSUME ChatInv, NEW t \in Senders, NEW n, Turns(t, n), Sending(n), n.at # "save",
           UNCHANGED <<chat, kept, remade, older, rows, boots>>,
           written' \in Nat, written <= written', shown' \subseteq Texts,
           n.at \in {"look", "make"} =>
               /\ ToGo(chat, n, written')
               /\ \A u \in Senders \ {t} :
                   sends[u].at \in {"look", "make"} => sends[u].m.time # n.m.time,
           \A x \in Texts : Carries(n, x) => Arrived(chat, remade, x, StillTo(n)),
           \A x \in shown' : boots = 0 => Arrived(chat, remade, x, {}),
           RowsGrow =>
               /\ n.at = "show" /\ n.m.from \in Robots => n.m \in Session(kept)
               /\ \A x \in shown' : x.from \in Robots => x \in Session(kept)
    PROVE  ChatInv'
<1>1. /\ ChatTypes /\ ListsSound /\ OnItsWay /\ Arrivals /\ rows.newest <= rows.taken
      /\ \A u \in Senders : sends[u].at = "save" => sends[u].n <= rows.taken
      /\ ~older /\ "session" \notin remade => RowsGrow
  BY DEF ChatInv
<1>2. /\ DOMAIN sends' = Senders /\ sends'[t] = n
      /\ \A u \in Senders \ {t} : sends'[u] = sends[u]
  BY <1>1 DEF Turns, ChatTypes
<1>3. ChatTypes'
  BY <1>1, <1>2 DEF ChatTypes
<1>4. ListsSound'
  <2>1. written \in Nat
    BY <1>1 DEF ChatTypes
  <2>2. Orderly(chat, written') /\ Orderly(kept, written')
    BY <1>1, <2>1, StaysOrderly DEF ListsSound
  <2>3. \A u \in Senders : sends'[u].at = "save" => Orderly(sends'[u].copy, written')
    BY <1>1, <1>2, <2>1, StaysOrderly DEF ListsSound
  <2> QED BY <2>2, <2>3 DEF ListsSound
<1>5. OnItsWay'
  <2>1. ASSUME NEW u \in Senders, sends'[u].at \in {"look", "make"} PROVE ToGo(chat', sends'[u], written')
    <3>1. CASE u = t
      BY <1>2, <2>1, <3>1
    <3>2. CASE u # t
      <4>1. sends'[u] = sends[u] /\ sends[u].at \in {"look", "make"} /\ Sending(sends[u])
        BY <1>1, <1>2, <2>1, <3>2 DEF ChatTypes
      <4>2. ToGo(chat, sends[u], written) /\ sends[u].m \in Texts
        BY <1>1, <4>1, SendingKinds DEF OnItsWay
      <4>3. sends[u].m.time \in Nat /\ written \in Nat
        BY <1>1, <4>2 DEF Texts, ChatTypes
      <4>4. sends[u].m.time <= written
        BY <4>2 DEF ToGo
      <4>5. sends[u].m.time <= written'
        BY <4>3, <4>4
      <4> QED BY <4>1, <4>2, <4>5 DEF ToGo
    <3> QED BY <3>1, <3>2
  <2>2. ASSUME NEW u \in Senders, NEW w \in Senders,
               sends'[u].at \in {"look", "make"}, sends'[w].at \in {"look", "make"},
               sends'[u].m.time = sends'[w].m.time
        PROVE  u = w
    <3>1. CASE u = t \/ w = t
      BY <1>2, <2>2, <3>1
    <3>2. CASE u # t /\ w # t
      BY <1>1, <1>2, <2>2, <3>2 DEF OnItsWay
    <3> QED BY <3>1, <3>2
  <2> QED BY <2>1, <2>2 DEF OnItsWay
<1>6. Arrivals'
  <2>1. \A u \in Senders : \A x \in Texts : Carries(sends'[u], x) => Arrived(chat, remade, x, StillTo(sends'[u]))
    BY <1>1, <1>2 DEF Arrivals
  <2> QED BY <2>1 DEF Arrivals
<1>7. ASSUME RowsGrow PROVE RowsGrow'
  <2>1. \A u \in Senders : sends'[u].at = "save" => u # t /\ sends[u].at = "save" /\ sends'[u] = sends[u]
    BY <1>2
  <2>2. \A u \in Senders :
           sends'[u].at = "show" /\ sends'[u].m.from \in Robots => sends'[u].m \in Session(kept)
    BY <1>2, <1>7 DEF RowsGrow
  <2>3. \A u \in Senders : sends'[u].at = "save" =>
          /\ Session(sends'[u].copy) \subseteq Session(chat)
          /\ sends'[u].n >= rows.newest => Session(kept) \subseteq Session(sends'[u].copy)
          /\ \A x \in Texts : Carries(sends'[u], x) => x \in Session(sends'[u].copy)
    BY <1>7, <2>1 DEF RowsGrow
  <2>4. \A u, w \in Senders : sends'[u].at = "save" /\ sends'[w].at = "save" /\ sends'[u].n <= sends'[w].n =>
           Session(sends'[u].copy) \subseteq Session(sends'[w].copy)
    BY <1>7, <2>1 DEF RowsGrow
  <2> QED BY <1>7, <2>2, <2>3, <2>4 DEF RowsGrow
<1>8. \A u \in Senders : sends'[u].at = "save" => sends'[u].n <= rows.taken
  BY <1>1, <1>2
<1> QED BY <1>1, <1>3, <1>4, <1>5, <1>6, <1>7, <1>8 DEF ChatInv

LEMMA WriteKeeps ==
    ASSUME ChatInv, NEW t \in Senders, NEW p \in Authors, NEW to \in Company \cup {Group}, Write(t, p, to)
    PROVE  ChatInv'
<1> DEFINE m == [time |-> written + 1, from |-> p, to |-> to]
           q == <<"session">> \o SetToSeq(Histories(m))
           n == [at |-> "look", m |-> m, todo |-> q]
<1>1. /\ ChatTypes /\ Orderly(chat, written) /\ written \in Nat /\ Authors \subseteq Company
      /\ IsFiniteSet(Company) /\ "session" \notin Company
  <2>1. IsFiniteSet(Talkers) /\ IsFiniteSet(Robots)
    BY MessagesAssumption
  <2>2. IsFiniteSet(Talkers \cup Robots)
    BY <2>1, FS_Union
  <2> QED BY <2>2, MessagesAssumption DEF ChatInv, ListsSound, ChatTypes, Company
<1>2. m \in Texts /\ m.time = written + 1
  BY <1>1 DEF Texts
<1>3. Histories(m) \subseteq Company
  <2>1. m.from = p /\ m.to = to /\ p \in Company
    BY <1>1
  <2> QED BY <2>1 DEF Histories
<1>4. IsFiniteSet(Histories(m)) /\ "session" \notin Histories(m)
  BY <1>1, <1>3, FS_Subset
<1> HIDE DEF m
<1> DEFINE H == Histories(m)
<1> HIDE DEF H
<1>5. /\ q \in Seq(H \cup {"session"}) /\ Len(q) > 0 /\ Distinct(q) /\ ToSet(q) = H \cup {"session"}
  BY <1>4, Route DEF H
<1>6. q \in Seq(ChatPlaces)
  BY <1>3, <1>5 DEF H, ChatPlaces
<1>7. sends' = [sends EXCEPT ![t] = n] /\ written' = written + 1
  BY DEF Write, m
<1>8. UNCHANGED <<chat, kept, shown, remade, older, rows, boots>>
  BY DEF Write
<1> HIDE DEF q
<1>9. n \in Placing /\ n.at = "look" /\ n.m = m /\ n.todo = q /\ StillTo(n) = ToSet(q) /\ \A x : Carries(n, x) <=> x = m
  BY <1>2, <1>6 DEF Placing, StillTo, Carries
<1> HIDE DEF n
<1>10. Turns(t, n) /\ Sending(n)
  BY <1>1, <1>7, <1>9, TurnsTo DEF Sending
<1>11. ToGo(chat, n, written')
  <2>1. ASSUME NEW place \in ToSet(q)
        PROVE  Concerns(m, place) /\ \A k \in In(chat, place) : k.time # m.time
    <3>1. Concerns(m, place)
      BY <1>5 DEF Concerns, H
    <3>2. \A k \in In(chat, place) : k \in Texts /\ k.time <= written
      BY <1>1, ListedOnce
    <3>3. \A k \in In(chat, place) : k.time \in Nat
      BY <3>2 DEF Texts
    <3> QED BY <1>1, <1>2, <3>1, <3>2, <3>3
  <2>2. m.time <= written'
    BY <1>1, <1>2, <1>7
  <2> QED BY <1>5, <1>9, <2>1, <2>2 DEF ToGo
<1>12. \A u \in Senders \ {t} : sends[u].at \in {"look", "make"} => sends[u].m.time # n.m.time
  <2> SUFFICES ASSUME NEW u \in Senders, sends[u].at \in {"look", "make"} PROVE sends[u].m.time # m.time
    BY <1>9
  <2>1. ToGo(chat, sends[u], written) /\ sends[u].m \in Texts
    BY <1>1, SendingKinds DEF ChatInv, OnItsWay, ChatTypes
  <2>2. sends[u].m.time <= written /\ sends[u].m.time \in Nat
    BY <2>1 DEF ToGo, Texts
  <2> QED BY <1>1, <1>2, <2>2
<1>13. Arrived(chat, remade, m, StillTo(n))
  BY <1>5, <1>9 DEF Arrived, Concerns, H
<1>14. written' \in Nat /\ written <= written'
  BY <1>1, <1>7
<1>15. shown' \subseteq Texts /\ \A x \in shown' : boots = 0 => Arrived(chat, remade, x, {})
  BY <1>8 DEF ChatInv, ChatTypes, Arrivals
<1>16. RowsGrow => \A x \in shown' : x.from \in Robots => x \in Session(kept)
  BY <1>8 DEF RowsGrow
<1> QED BY <1>8, <1>9, <1>10, <1>11, <1>12, <1>13, <1>14, <1>15, <1>16, TurnAway

LEMMA AsShown ==
    ASSUME ChatInv
    PROVE  /\ ChatTypes /\ shown \subseteq Texts /\ written \in Nat
           /\ \A x \in shown : boots = 0 => Arrived(chat, remade, x, {})
           /\ RowsGrow => \A x \in shown : x.from \in Robots => x \in Session(kept)
BY DEF ChatInv, ChatTypes, Arrivals, RowsGrow

LEMMA LookKeeps ==
    ASSUME ChatInv, NEW t \in Senders, LookForList(t)
    PROVE  ChatInv'
<1> DEFINE s == sends[t]  n == [s EXCEPT !.at = "make"]
<1>1. s.at = "look" /\ Sending(s) /\ ToGo(chat, s, written)
  BY DEF LookForList, ChatInv, ChatTypes, OnItsWay
<1>2. s \in Placing /\ s.m \in Texts /\ \A x : Carries(s, x) <=> x = s.m
  BY <1>1, SendingKinds
<1>3. sends' = [sends EXCEPT ![t] = n]
  BY DEF LookForList
<1>4. UNCHANGED <<chat, kept, shown, remade, older, rows, written, boots>>
  BY DEF LookForList
<1>5. n.at = "make" /\ n.m = s.m /\ n.todo = s.todo /\ n \in Placing
  BY <1>2 DEF Placing
<1> HIDE DEF n
<1>6. Turns(t, n)
  BY <1>3, TurnsTo, AsShown
<1>7. /\ Sending(n) /\ (\A x : Carries(n, x) <=> x = s.m) /\ StillTo(n) = StillTo(s)
      /\ ToGo(chat, n, written)
  BY <1>1, <1>5 DEF Sending, Carries, StillTo, ToGo
<1>8. Arrived(chat, remade, s.m, StillTo(s))
  BY <1>2 DEF ChatInv, Arrivals
<1>9. \A u \in Senders \ {t} : sends[u].at \in {"look", "make"} => sends[u].m.time # n.m.time
  BY <1>1, <1>5 DEF ChatInv, OnItsWay
<1>10. written <= written' /\ written' \in Nat /\ ToGo(chat, n, written')
  BY <1>4, <1>7, AsShown
<1> QED BY <1>4, <1>5, <1>6, <1>7, <1>8, <1>9, <1>10, AsShown, TurnAway

LEMMA OtherSaveKeeps ==
    ASSUME ChatInv, NEW t \in Senders, OtherSave(t)
    PROVE  ChatInv'
<1> DEFINE n == [at |-> "row"]
<1>1. sends' = [sends EXCEPT ![t] = n]
  BY DEF OtherSave
<1>2. UNCHANGED <<chat, kept, shown, remade, older, rows, written, boots>>
  BY DEF OtherSave
<1>3. n.at = "row" /\ Sending(n) /\ \A x : ~Carries(n, x)
  BY DEF Sending, Carries
<1> HIDE DEF n
<1>4. Turns(t, n)
  BY <1>1, TurnsTo, AsShown
<1>5. written <= written' /\ written' \in Nat
  BY <1>2, AsShown
<1> QED BY <1>2, <1>3, <1>4, <1>5, AsShown, TurnAway

LEMMA BroadcastKeeps ==
    ASSUME ChatInv, NEW t \in Senders, Broadcast(t)
    PROVE  ChatInv'
<1> DEFINE s == sends[t]
<1>1. s.at = "show" /\ Sending(s)
  BY DEF Broadcast, ChatInv, ChatTypes
<1>2. s \in Placed /\ s.m \in Texts /\ (\A x : Carries(s, x) <=> x = s.m) /\ StillTo(s) = {}
  BY <1>1, SendingKinds
<1>3. sends' = [sends EXCEPT ![t] = NoSend] /\ shown' = shown \cup {s.m}
  BY DEF Broadcast
<1>4. UNCHANGED <<chat, kept, remade, older, rows, written, boots>>
  BY DEF Broadcast
<1>5. Arrived(chat, remade, s.m, {})
  BY <1>2 DEF ChatInv, Arrivals
<1>6. RowsGrow => (s.m.from \in Robots => s.m \in Session(kept))
  BY <1>1 DEF RowsGrow
<1>7. NoSend.at = "free" /\ Sending(NoSend) /\ \A x : ~Carries(NoSend, x)
  BY DEF Sending, Carries, NoSend
<1>8. Turns(t, NoSend)
  BY <1>3, TurnsTo, AsShown
<1>9. written <= written' /\ written' \in Nat
  BY <1>4, AsShown
<1> HIDE DEF s
<1>10. shown' \subseteq Texts /\ (\A x \in shown' : boots = 0 => Arrived(chat, remade, x, {}))
       /\ (RowsGrow => \A x \in shown' : x.from \in Robots => x \in Session(kept))
  BY <1>2, <1>3, <1>5, <1>6, AsShown
<1> QED BY <1>4, <1>7, <1>8, <1>9, <1>10, TurnAway

\* Of what a thread carries nothing is left to be placed when it saves.
LEMMA SavesAre ==
    ASSUME NEW s, Sending(s), s.at = "save"
    PROVE  /\ s.of \in Rowing /\ s.n \in Nat
           /\ "m" \in DOMAIN s.of => /\ s.of \in [at : {"row"}, m : Texts, todo : {<<>>}]
                                     /\ \A x : Carries(s, x) <=> x = s.of.m
           /\ "m" \notin DOMAIN s.of => \A x : ~Carries(s, x)
<1>1. s.of \in Rowing /\ s.n \in Nat
  BY DEF Sending, NoSend, Placing, Placed
<1>2. "m" \in DOMAIN s.of => s.of \in [at : {"row"}, m : Texts, todo : {<<>>}]
  BY <1>1 DEF Rowing
<1>3. \A x : Carries(s, x) <=> "m" \in DOMAIN s.of /\ x = s.of.m
  BY DEF Carries
<1> QED BY <1>1, <1>2, <1>3

LEMMA TakeRowKeeps ==
    ASSUME ChatInv, NEW t \in Senders, TakeRow(t)
    PROVE  ChatInv'
<1> DEFINE s == sends[t]  k == rows.taken + 1
           n == [at |-> "save", of |-> s, copy |-> chat, n |-> k]
<1>1. /\ ChatTypes /\ ListsSound /\ OnItsWay /\ Arrivals /\ rows.newest <= rows.taken
      /\ \A u \in Senders : sends[u].at = "save" => sends[u].n <= rows.taken
      /\ ~older /\ "session" \notin remade => RowsGrow
  BY DEF ChatInv
<1>2. s.at = "row" /\ s \in Rowing /\ StillTo(s) = {}
  BY <1>1, SendingKinds DEF TakeRow, ChatTypes
<1>3. /\ sends' = [sends EXCEPT ![t] = n] /\ rows' = [rows EXCEPT !.taken = @ + 1]
      /\ UNCHANGED <<chat, kept, shown, remade, older, written, boots>>
  BY DEF TakeRow
<1>4. /\ rows \in [taken : Nat, newest : Nat] /\ rows.taken \in Nat /\ rows.newest \in Nat /\ k \in Nat
      /\ rows' \in [taken : Nat, newest : Nat] /\ rows'.taken = k /\ rows'.newest = rows.newest
  BY <1>1, <1>3 DEF ChatTypes
<1>5. n.at = "save" /\ n.of = s /\ n.copy = chat /\ n.n = k
  OBVIOUS
<1> HIDE DEF n
<1>6. Sending(n) /\ StillTo(n) = {}
  BY <1>2, <1>4, <1>5 DEF Sending, StillTo
<1>7. \A x : Carries(n, x) <=> Carries(s, x)
  BY <1>2, <1>5 DEF Carries
<1>8. Turns(t, n)
  BY <1>1, <1>3, TurnsTo
<1>9. /\ DOMAIN sends' = Senders /\ sends'[t] = n
      /\ \A u \in Senders \ {t} : sends'[u] = sends[u]
  BY <1>1, <1>8 DEF Turns, ChatTypes
<1>10. k > rows.taken /\ k >= rows.newest
  BY <1>1, <1>4
<1>11. \A u \in Senders : sends[u].at = "save" => sends[u].n \in Nat /\ sends[u].n <= k /\ ~(k <= sends[u].n)
  <2> SUFFICES ASSUME NEW u \in Senders, sends[u].at = "save" PROVE sends[u].n \in Nat /\ sends[u].n <= k /\ ~(k <= sends[u].n)
    OBVIOUS
  <2>1. sends[u].n \in Nat /\ sends[u].n <= rows.taken
    BY <1>1, SavesAre DEF ChatTypes
  <2> QED BY <1>4, <2>1
<1>12. \A x \in Texts : Carries(s, x) => Arrived(chat, remade, x, {})
  BY <1>1, <1>2 DEF Arrivals
<1> HIDE DEF s, k
<1>13. ChatTypes'
  BY <1>1, <1>3, <1>4, <1>6, <1>9 DEF ChatTypes
<1>14. ListsSound'
  BY <1>1, <1>3, <1>5, <1>9 DEF ListsSound
<1>15. OnItsWay'
  BY <1>1, <1>3, <1>5, <1>9 DEF OnItsWay
<1>16. Arrivals'
  <2>1. \A u \in Senders : \A x \in Texts : Carries(sends'[u], x) => Arrived(chat, remade, x, StillTo(sends'[u]))
    BY <1>1, <1>6, <1>7, <1>9, <1>12 DEF Arrivals
  <2> QED BY <1>1, <1>3, <2>1 DEF Arrivals
<1>17. ASSUME ~older, "session" \notin remade PROVE RowsGrow'
  <2>1. RowsGrow
    BY <1>1, <1>17
  <2>2. \A x \in Texts : Carries(n, x) => x \in Session(chat)
    BY <1>7, <1>12, <1>17 DEF Arrived, Session, ChatPlaces, Concerns
  <2>3. \A u \in Senders : sends'[u].at = "show" => sends'[u] = sends[u]
    BY <1>5, <1>9
  <2>4. \A u \in Senders :
           sends'[u].at = "show" /\ sends'[u].m.from \in Robots => sends'[u].m \in Session(kept)
    BY <2>1, <2>3 DEF RowsGrow
  <2>5. ASSUME NEW u \in Senders, sends'[u].at = "save"
        PROVE  /\ Session(sends'[u].copy) \subseteq Session(chat)
               /\ sends'[u].n >= rows.newest => Session(kept) \subseteq Session(sends'[u].copy)
               /\ \A x \in Texts : Carries(sends'[u], x) => x \in Session(sends'[u].copy)
    <3>1. CASE u = t
      BY <1>5, <1>9, <2>1, <2>2, <3>1 DEF RowsGrow
    <3>2. CASE u # t
      <4>1. sends'[u] = sends[u] /\ sends[u].at = "save"
        BY <1>9, <2>5, <3>2
      <4> QED BY <2>1, <4>1 DEF RowsGrow
    <3> QED BY <3>1, <3>2
  <2>6. ASSUME NEW u \in Senders, NEW w \in Senders, sends'[u].at = "save", sends'[w].at = "save",
               sends'[u].n <= sends'[w].n
        PROVE  Session(sends'[u].copy) \subseteq Session(sends'[w].copy)
    <3>1. CASE w = t
      BY <1>5, <1>9, <2>5, <2>6, <3>1
    <3>2. CASE w # t /\ u = t
      <4>1. sends'[w] = sends[w] /\ sends[w].at = "save" /\ sends'[u].n = k
        BY <1>5, <1>9, <2>6, <3>2
      <4> QED BY <1>11, <2>6, <4>1
    <3>3. CASE w # t /\ u # t
      <4>1. sends'[w] = sends[w] /\ sends'[u] = sends[u]
        BY <1>9, <3>3
      <4> QED BY <2>1, <2>6, <4>1 DEF RowsGrow
    <3> QED BY <3>1, <3>2, <3>3
  <2> QED BY <1>3, <1>4, <2>1, <2>4, <2>5, <2>6 DEF RowsGrow
<1>18. \A u \in Senders : sends'[u].at = "save" => sends'[u].n <= k
  <2>1. k <= k
    BY <1>4
  <2> QED BY <1>5, <1>9, <1>11, <2>1
<1>19. rows'.newest <= rows'.taken
  BY <1>4, <1>10
<1> QED BY <1>3, <1>4, <1>13, <1>14, <1>15, <1>16, <1>17, <1>18, <1>19 DEF ChatInv

LEMMA SaveRowKeeps ==
    ASSUME ChatInv, NEW t \in Senders, SaveRow(t)
    PROVE  ChatInv'
<1> DEFINE s == sends[t]  n == IF "m" \in DOMAIN s.of THEN [s.of EXCEPT !.at = "show"] ELSE NoSend
<1>1. /\ ChatTypes /\ ListsSound /\ OnItsWay /\ Arrivals /\ rows.newest <= rows.taken
      /\ \A u \in Senders : sends[u].at = "save" => sends[u].n <= rows.taken
      /\ ~older /\ "session" \notin remade => RowsGrow
  BY DEF ChatInv
<1>2. s.at = "save" /\ Sending(s) /\ StillTo(s) = {}
  BY <1>1, SendingKinds DEF SaveRow, ChatTypes
<1>3. /\ kept' = s.copy /\ older' = (older \/ s.n < rows.newest) /\ rows' = [rows EXCEPT !.newest = s.n]
      /\ sends' = [sends EXCEPT ![t] = n]
      /\ UNCHANGED <<chat, shown, remade, written, boots>>
  BY DEF SaveRow
<1>4. s.n \in Nat /\ s.n <= rows.taken
  BY <1>1, <1>2, SavesAre
<1>5. /\ rows \in [taken : Nat, newest : Nat] /\ rows.newest \in Nat
      /\ rows' \in [taken : Nat, newest : Nat] /\ rows'.taken = rows.taken /\ rows'.newest = s.n
      /\ older \in BOOLEAN
  BY <1>1, <1>3, <1>4 DEF ChatTypes
<1>6. /\ Sending(n) /\ StillTo(n) = {} /\ (\A x : Carries(n, x) <=> Carries(s, x))
      /\ n.at \in {"show", "free"}
      /\ n.at = "show" => n.m \in Texts /\ Carries(s, n.m)
  <2>1. CASE "m" \in DOMAIN s.of
    <3>1. s.of \in [at : {"row"}, m : Texts, todo : {<<>>}] /\ \A x : Carries(s, x) <=> x = s.of.m
      BY <1>2, <2>1, SavesAre
    <3>2. n = [s.of EXCEPT !.at = "show"]
      BY <2>1
    <3>3. n \in Placed /\ n.at = "show" /\ n.m = s.of.m /\ n.m \in Texts
      BY <3>1, <3>2 DEF Placed
    <3> HIDE DEF n, s
    <3> QED BY <3>1, <3>3 DEF Sending, Carries, StillTo
  <2>2. CASE "m" \notin DOMAIN s.of
    <3>1. n = NoSend /\ \A x : ~Carries(s, x)
      BY <1>2, <2>2, SavesAre
    <3> HIDE DEF n, s
    <3> QED BY <3>1 DEF Sending, Carries, StillTo, NoSend
  <2> QED BY <2>1, <2>2
<1> HIDE DEF n
<1>7. Turns(t, n)
  BY <1>1, <1>3, TurnsTo
<1>8. /\ DOMAIN sends' = Senders /\ sends'[t] = n
      /\ \A u \in Senders \ {t} : sends'[u] = sends[u]
  BY <1>1, <1>7 DEF Turns, ChatTypes
<1>9. \A u \in Senders : sends'[u].at = "save" => u # t /\ sends'[u] = sends[u]
  BY <1>6, <1>8
<1>10. \A u \in Senders : sends'[u].at \in {"look", "make"} => u # t /\ sends'[u] = sends[u]
  BY <1>6, <1>8
<1>11. Orderly(s.copy, written)
  BY <1>1, <1>2 DEF ListsSound
<1>12. \A x \in Texts : Carries(s, x) => Arrived(chat, remade, x, {})
  BY <1>1, <1>2 DEF Arrivals
<1>13. ChatTypes'
  <2>1. older' \in BOOLEAN
    BY <1>3
  <2> QED BY <1>1, <1>3, <1>5, <1>6, <1>8, <2>1 DEF ChatTypes
<1>14. ListsSound'
  BY <1>1, <1>3, <1>9, <1>11 DEF ListsSound
<1>15. OnItsWay'
  BY <1>1, <1>3, <1>10 DEF OnItsWay
<1>16. Arrivals'
  <2>1. \A u \in Senders : \A x \in Texts : Carries(sends'[u], x) => Arrived(chat, remade, x, StillTo(sends'[u]))
    BY <1>1, <1>6, <1>8, <1>12 DEF Arrivals
  <2> QED BY <1>1, <1>3, <2>1 DEF Arrivals
<1>17. ASSUME ~older', "session" \notin remade PROVE RowsGrow'
  <2>0. ~older /\ ~(s.n < rows.newest)
    <3> HIDE DEF s
    <3> QED BY <1>3, <1>17
  <2>1. RowsGrow /\ s.n >= rows.newest
    <3>1. RowsGrow
      BY <1>1, <1>17, <2>0
    <3>2. s.n >= rows.newest
      BY <1>4, <1>5, <2>0
    <3> QED BY <3>1, <3>2
  <2>2. /\ Session(s.copy) \subseteq Session(chat) /\ Session(kept) \subseteq Session(s.copy)
        /\ \A x \in Texts : Carries(s, x) => x \in Session(s.copy)
        /\ \A u \in Senders : sends[u].at = "save" /\ s.n <= sends[u].n => Session(s.copy) \subseteq Session(sends[u].copy)
    BY <1>2, <2>1 DEF RowsGrow
  <2>3. ASSUME NEW u \in Senders, sends'[u].at = "show", sends'[u].m.from \in Robots
        PROVE  sends'[u].m \in Session(s.copy)
    <3>1. CASE u = t
      BY <1>6, <1>8, <2>2, <2>3, <3>1
    <3>2. CASE u # t
      BY <1>8, <2>1, <2>2, <2>3, <3>2 DEF RowsGrow
    <3> QED BY <3>1, <3>2
  <2>4. \A x \in shown : x.from \in Robots => x \in Session(s.copy)
    BY <2>1, <2>2 DEF RowsGrow
  <2>5. ASSUME NEW u \in Senders, sends'[u].at = "save"
        PROVE  /\ Session(sends'[u].copy) \subseteq Session(chat)
               /\ sends'[u].n >= s.n => Session(s.copy) \subseteq Session(sends'[u].copy)
               /\ \A x \in Texts : Carries(sends'[u], x) => x \in Session(sends'[u].copy)
    <3>1. sends'[u] = sends[u] /\ sends[u].at = "save" /\ sends[u].n \in Nat
      BY <1>1, <1>9, <2>5, SavesAre DEF ChatTypes
    <3>2. sends[u].n >= s.n => s.n <= sends[u].n
      BY <1>4, <3>1
    <3>3. /\ Session(sends[u].copy) \subseteq Session(chat)
          /\ \A x \in Texts : Carries(sends[u], x) => x \in Session(sends[u].copy)
      BY <2>1, <3>1 DEF RowsGrow
    <3> QED BY <2>2, <3>1, <3>2, <3>3
  <2>6. ASSUME NEW u \in Senders, NEW w \in Senders, sends'[u].at = "save", sends'[w].at = "save",
               sends'[u].n <= sends'[w].n
        PROVE  Session(sends'[u].copy) \subseteq Session(sends'[w].copy)
    BY <1>9, <2>1, <2>6 DEF RowsGrow
  <2> QED BY <1>3, <1>5, <2>2, <2>3, <2>4, <2>5, <2>6 DEF RowsGrow
<1>18. \A u \in Senders : sends'[u].at = "save" => sends'[u].n <= rows.taken
  BY <1>1, <1>9
<1> QED BY <1>3, <1>4, <1>5, <1>13, <1>14, <1>15, <1>16, <1>17, <1>18 DEF ChatInv

LEMMA RebootKeeps ==
    ASSUME ChatInv, Reboot
    PROVE  ChatInv'
<1>1. /\ ChatTypes /\ ListsSound /\ OnItsWay /\ Arrivals /\ rows.newest <= rows.taken
      /\ ~older /\ "session" \notin remade => RowsGrow
  BY DEF ChatInv
<1>2. /\ boots' = boots + 1 /\ chat' = kept /\ sends' = [t \in Senders |-> NoSend]
      /\ UNCHANGED <<kept, shown, remade, older, rows, written>>
  BY DEF Reboot
<1>3. DOMAIN sends' = Senders /\ \A t \in Senders : sends'[t] = NoSend
  BY <1>2
<1>4. NoSend.at = "free" /\ Sending(NoSend) /\ \A x : ~Carries(NoSend, x)
  BY DEF Sending, Carries, NoSend
<1>5. boots' \in Nat /\ boots' # 0
  BY <1>1, <1>2 DEF ChatTypes
<1>6. ChatTypes'
  BY <1>1, <1>2, <1>3, <1>4, <1>5 DEF ChatTypes
<1>7. ListsSound' /\ OnItsWay' /\ Arrivals'
  BY <1>1, <1>2, <1>3, <1>4, <1>5 DEF ListsSound, OnItsWay, Arrivals
<1>8. RowsGrow => RowsGrow'
  BY <1>2, <1>3, <1>4 DEF RowsGrow
<1> QED BY <1>1, <1>2, <1>3, <1>4, <1>6, <1>7, <1>8 DEF ChatInv

LEMMA ChatStarts == ChatInit => ChatInv
<1> SUFFICES ASSUME ChatInit PROVE ChatInv
  OBVIOUS
<1>1. /\ chat = <<>> /\ kept = <<>> /\ DOMAIN sends = Senders /\ \A t \in Senders : sends[t] = NoSend
      /\ shown = {} /\ older = FALSE /\ rows = [taken |-> 0, newest |-> 0] /\ written = 0 /\ boots = 0
  BY DEF ChatInit
<1>2. NoSend.at = "free" /\ Sending(NoSend) /\ \A x : ~Carries(NoSend, x)
  BY DEF Sending, Carries, NoSend
<1>3. ChatTypes
  BY <1>1, <1>2 DEF ChatTypes
<1>4. Orderly(<<>>, 0)
  <2>1. DOMAIN <<>> = {}
    OBVIOUS
  <2> QED BY <2>1 DEF Orderly
<1>5. ListsSound /\ OnItsWay /\ Arrivals
  BY <1>1, <1>2, <1>4 DEF ListsSound, OnItsWay, Arrivals
<1>6. RowsGrow
  BY <1>1, <1>2 DEF RowsGrow
<1> QED BY <1>1, <1>2, <1>3, <1>5, <1>6 DEF ChatInv

LEMMA ChatSteps == ChatInv /\ [ChatNext]_chatVars => ChatInv'
<1> SUFFICES ASSUME ChatInv, [ChatNext]_chatVars PROVE ChatInv'
  OBVIOUS
<1>1. ASSUME NEW t \in Senders, NEW p \in Authors, GuideFollower(t, p) PROVE ChatInv'
  <2>1. FollowerOf \in Company \cup {Group}
    BY MessagesAssumption DEF Company
  <2> QED BY <1>1, <2>1, WriteKeeps DEF GuideFollower, ExecuteMessage
<1>2. ASSUME NEW t \in Senders, NEW p \in Authors, NEW to \in Company \cup {Group},
             SendMessage(t, p, to) \/ ExecuteMessage(t, p, to)
      PROVE  ChatInv'
  BY <1>2, WriteKeeps DEF SendMessage, ExecuteMessage
<1>3. CASE UNCHANGED chatVars
  BY <1>3 DEF chatVars, ChatInv, ChatTypes, ListsSound, OnItsWay, Arrivals, RowsGrow
<1> QED BY <1>1, <1>2, <1>3, LookKeeps, MakeListKeeps, AppendKeeps, OtherSaveKeeps, TakeRowKeeps,
           SaveRowKeeps, BroadcastKeeps, RebootKeeps DEF ChatNext

-----------------------------------------------------------------------------
(* What the invariant says of the messages.                                  *)
LEMMA TheirsAre == ChatInv => HistoriesAreTheirs
<1> SUFFICES ASSUME ChatInv, NEW place \in DOMAIN chat
             PROVE  /\ IsInjective(chat[place])
                    /\ place # "session" =>
                         \A i \in 1..Len(chat[place]) :
                           \/ place \in {chat[place][i].from, chat[place][i].to}
                           \/ chat[place][i].to = Group /\ chat[place][i].from \in Robots
  BY DEF HistoriesAreTheirs
<1> DEFINE q == chat[place]
<1>1. /\ q \in Seq(Texts) /\ \A i, j \in 1..Len(q) : q[i].time = q[j].time => i = j
      /\ \A i \in 1..Len(q) : Concerns(q[i], place)
  BY DEF ChatInv, ListsSound, Orderly
<1> HIDE DEF q
<1>2. IsInjective(q)
  BY <1>1, ListOf DEF IsInjective
<1>3. ASSUME place # "session", NEW i \in 1..Len(q)
      PROVE  place \in {q[i].from, q[i].to} \/ (q[i].to = Group /\ q[i].from \in Robots)
  <2>1. place \in Histories(q[i])
    BY <1>1, <1>3 DEF Concerns
  <2> QED BY <2>1 DEF Histories
<1> QED BY <1>2, <1>3 DEF q

LEMMA ReadAre == ChatInv => ShownIsRead
<1> SUFFICES ASSUME ChatInv, boots = 0, "session" \notin remade,
                    NEW a \in Robots, NEW m \in shown, For(m, a), m \notin Unread(a)
             PROVE  Cardinality({n \in Unread(a) : n.time > m.time}) = Window
  BY DEF ShownIsRead
<1> DEFINE L == In(chat, "session")  S == {n \in L : For(n, a)}
<1>1. L \subseteq Texts /\ IsFiniteSet(L) /\ \A k, n \in L : k.time = n.time => k = n
  BY ListedOnce DEF ChatInv, ListsSound
<1>2. m \in L
  BY DEF ChatInv, ChatTypes, Arrivals, Arrived, Concerns, ChatPlaces
<1>3. Unread(a) = Newest(S)
  BY DEF Unread, In
<1>4. IsFiniteSet(S) /\ (\A n \in S : n.time \in Nat) /\ \A k, n \in S : k.time = n.time => k = n
  <2>1. IsFiniteSet(S)
    <3> HIDE DEF L
    <3> QED BY <1>1, FS_Subset
  <2> QED BY <1>1, <2>1 DEF Texts
<1>5. m \in S
  BY <1>2
<1> HIDE DEF S
<1> QED BY <1>3, <1>4, <1>5, PushedOut

LEMMA InHistoriesAre == ChatInv => ShownIsInHistories
<1> SUFFICES ASSUME ChatInv, boots = 0, NEW m \in shown, NEW p \in Histories(m) \ remade
             PROVE  m \in In(chat, p)
  BY DEF ShownIsInHistories, In
<1>1. m \in Texts /\ Arrived(chat, remade, m, {})
  BY DEF ChatInv, ChatTypes, Arrivals
<1>2. p \in Company
  <2>1. m.from \in Company /\ m.to \in Company \cup {Group}
    BY <1>1 DEF Texts
  <2> QED BY <2>1 DEF Histories
<1> QED BY <1>1, <1>2 DEF Arrived, Concerns, ChatPlaces

LEMMA SavedAre == ChatInv => AgentsAreSaved
BY DEF ChatInv, AgentsAreSaved, RowsGrow, Session, In

\* Messages reach those they are for, and nobody else's history: handle_send_message,
\* _execute_message, _get_unread_messages and commit_session in any number of threads.
THEOREM MessagesSound == ChatSpec => []MessagesAreKept
<1>1. ChatInv => MessagesAreKept
  BY TheirsAre, ReadAre, InHistoriesAre, SavedAre DEF MessagesAreKept
<1> QED BY <1>1, ChatStarts, ChatSteps, PTL DEF ChatSpec
=============================================================================
