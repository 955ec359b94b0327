--------------------------- MODULE ReviewTelemetry --------------------------
(***************************************************************************)
(* Reading time in REVIEW: the browser records numbered events, sends each   *)
(* with the ones whose request failed before it, and platform A accumulates  *)
(* the time the page was visible and focused.  Requests are not awaited, so  *)
(* several may be in flight.  Each mounting of the page is a visit with its  *)
(* own numbers.  Of the events, the ones that count time are kept; scrolling *)
(* and replaying only use up numbers and travel with the rest.               *)
(***************************************************************************)
EXTENDS Integers, FiniteSets

CONSTANTS
    Visits,         \* mountings of the review page
    PageKinds,      \* event types while the page is mounted
    MaxGap,         \* MAX_HEARTBEAT_GAP_MS, in ticks
    Minimum,        \* minimum_review_seconds, in ticks
    MaxNow,         \* bound: ticks
    MaxEvents,      \* bound: events of a visit
    MaxFlights      \* bound: requests in flight

NoVisit == "none"

ASSUME TelemetryAssumption ==
    {MaxGap, Minimum, MaxNow, MaxEvents, MaxFlights} \subseteq Nat /\ NoVisit \notin Visits

VARIABLES
    now,            \* the clock of the browser
    page,           \* the visit on the screen, or NoVisit
    sent,           \* browser: sequenceNo of each visit
    pending,        \* browser: pendingEvents of each visit
    tab,            \* browser: [visible, focused, last, active] of each visit
    flights,        \* requests: [visit, events, served]
    visit,          \* A: what it counts of each visit, as the tab does, and the numbers it has seen
    attentive,      \* history: ticks the page was visible and focused
    crossed      \* history: visits with two requests in flight at once

telemetryVars ==
    <<now, page, sent, pending, tab, flights, visit, attentive, crossed>>

Never == -1
Blank == [visible |-> FALSE, focused |-> FALSE, last |-> Never, active |-> 0]

TelemetryInit ==
    /\ now = 0 /\ page = NoVisit
    /\ sent = [v \in Visits |-> 0] /\ pending = [v \in Visits |-> {}]
    /\ tab = [v \in Visits |-> Blank] /\ flights = {}
    /\ visit = [v \in Visits |-> [count |-> Blank, seen |-> {}]]
    /\ attentive = 0 /\ crossed = {}

(* Mutant: a heartbeat counts whether or not the page is focused. *)
AfterEvent_AnyFocus(r, kind, at) ==
    LET gap == IF at > r.last THEN at - r.last ELSE 0
        counts == r.visible /\ r.last # Never
        Stamp(on) == IF on THEN at ELSE Never
    IN  CASE kind = "enter" -> [r EXCEPT !.visible = TRUE, !.focused = TRUE, !.last = at]
          [] kind = "leave" -> [r EXCEPT !.visible = FALSE, !.focused = FALSE, !.last = Never]
          [] kind \in {"visible", "hidden"} ->
                [r EXCEPT !.visible = (kind = "visible"), !.last = Stamp(kind = "visible")]
          [] kind \in {"focus", "blur"} -> [r EXCEPT !.focused = (kind = "focus")]
          [] kind = "heartbeat" ->
                [r EXCEPT !.active = @ + IF counts /\ gap <= MaxGap THEN gap ELSE 0,
                          !.last = Stamp(r.visible)]
          [] OTHER -> r

(* Mutant: time that runs backwards is counted. *)
AfterEvent_Negative(r, kind, at) ==
    LET gap == at - r.last
        counts == r.visible /\ r.focused /\ r.last # Never
        Stamp(on) == IF on THEN at ELSE Never
    IN  CASE kind = "enter" -> [r EXCEPT !.visible = TRUE, !.focused = TRUE, !.last = at]
          [] kind = "leave" -> [r EXCEPT !.visible = FALSE, !.focused = FALSE, !.last = Never]
          [] kind \in {"visible", "hidden"} ->
                [r EXCEPT !.visible = (kind = "visible"), !.last = Stamp(kind = "visible")]
          [] kind \in {"focus", "blur"} ->
                [r EXCEPT !.focused = (kind = "focus"), !.last = Stamp(kind = "focus")]
          [] kind = "heartbeat" ->
                [r EXCEPT !.active = @ + IF counts /\ gap <= MaxGap THEN gap ELSE 0,
                          !.last = Stamp(r.visible /\ r.focused)]
          [] OTHER -> r

\* _apply_event and applyLocalState, the same on both sides.
AfterEvent(r, kind, at) ==
    LET gap == IF at > r.last THEN at - r.last ELSE 0
        counts == r.visible /\ r.focused /\ r.last # Never
        Stamp(on) == IF on THEN at ELSE Never
    IN  CASE kind = "enter" -> [r EXCEPT !.visible = TRUE, !.focused = TRUE, !.last = at]
          [] kind = "leave" -> [r EXCEPT !.visible = FALSE, !.focused = FALSE, !.last = Never]
          [] kind \in {"visible", "hidden"} ->
                [r EXCEPT !.visible = (kind = "visible"), !.last = Stamp(kind = "visible")]
          [] kind \in {"focus", "blur"} ->
                [r EXCEPT !.focused = (kind = "focus"), !.last = Stamp(kind = "focus")]
          [] kind = "heartbeat" ->
                [r EXCEPT !.active = @ + IF counts /\ gap <= MaxGap THEN gap ELSE 0,
                          !.last = Stamp(r.visible /\ r.focused)]
          [] OTHER -> r

Numbers(events) == {e.no : e \in events}

ByEvent(r, due) ==
    IF due = {} THEN r ELSE LET e == CHOOSE e \in due : TRUE IN AfterEvent(r, e.kind, e.at)

\* What the events have made of r, in the order of their numbers.
InOrder(r, events) ==
    LET Upto[k \in 0..MaxEvents] ==
            IF k = 0 THEN r ELSE ByEvent(Upto[k - 1], {e \in events : e.no = k})
    IN  Upto[MaxEvents]

(* Mutant: an event that was seen before is applied again. *)
AfterBatch_Again(a, events) ==
    [count |-> InOrder(a.count, events), seen |-> a.seen \cup Numbers(events)]

\* record_batch: each number once.
AfterBatch(a, events) ==
    LET new == {e \in events : e.no \notin a.seen}
    IN  [count |-> InOrder(a.count, new), seen |-> a.seen \cup Numbers(new)]

\* minimum_review_time_met, as far as batches set it: time never counts down.
MinimumMet == \E v \in Visits : visit[v].count.active >= Minimum

Tick ==
    /\ now < MaxNow
    /\ now' = now + 1
    /\ attentive' = IF page # NoVisit /\ tab[page].visible /\ tab[page].focused
                    THEN attentive + 1 ELSE attentive
    /\ UNCHANGED <<page, sent, pending, tab, flights, visit, crossed>>

\* record: local state at once, and a request with what is pending.
Record(v, kind) ==
    LET event == [no |-> sent[v] + 1, kind |-> kind, at |-> now]
    IN  /\ sent[v] < MaxEvents /\ Cardinality(flights) < MaxFlights
        /\ sent' = [sent EXCEPT ![v] = @ + 1]
        /\ tab' = [tab EXCEPT ![v] = AfterEvent(@, kind, now)]
        /\ flights' = flights \cup {[visit |-> v, events |-> pending[v] \cup {event}, served |-> FALSE]}
        /\ crossed' = IF \E f \in flights : f.visit = v THEN crossed \cup {v} ELSE crossed
        /\ UNCHANGED <<now, pending, visit, attentive>>

Mount(v) ==
    /\ page = NoVisit /\ sent[v] = 0
    /\ page' = v
    /\ Record(v, "enter")

Unmount(v) ==
    /\ page = v
    /\ page' = NoVisit
    /\ Record(v, "leave")

\* Timer and listeners of the page; the interval goes on while it is hidden.
OnPage(v, kind) ==
    /\ page = v
    /\ Record(v, kind)
    /\ UNCHANGED page

(* record_review_event_batch under the lock of the Session, in any order.      *)
Serve(f) ==
    /\ ~f.served
    /\ flights' = (flights \ {f}) \cup {[f EXCEPT !.served = TRUE]}
    /\ visit' = [visit EXCEPT ![f.visit] = AfterBatch(@, f.events)]
    /\ UNCHANGED <<now, page, sent, pending, tab, attentive, crossed>>

Acknowledge(f) ==
    /\ f.served
    /\ flights' = flights \ {f}
    /\ pending' = [pending EXCEPT ![f.visit] = {}]
    /\ UNCHANGED <<now, page, sent, tab, visit, attentive, crossed>>

(* Mutant: the events of a request that failed are given up. *)
Fail_Drops(f) ==
    /\ flights' = flights \ {f}
    /\ pending' = [pending EXCEPT ![f.visit] = {}]
    /\ UNCHANGED <<now, page, sent, tab, visit, attentive, crossed>>

\* The request, or the answer to it, is lost.
Fail(f) ==
    /\ flights' = flights \ {f}
    /\ pending' = [pending EXCEPT ![f.visit] = f.events]
    /\ UNCHANGED <<now, page, sent, tab, visit, attentive, crossed>>

TelemetryNext ==
    \/ Tick
    \/ \E v \in Visits : Mount(v) \/ Unmount(v) \/ \E kind \in PageKinds : OnPage(v, kind)
    \/ \E f \in flights : Serve(f) \/ Acknowledge(f) \/ Fail(f)

TelemetrySpec == TelemetryInit /\ [][TelemetryNext]_telemetryVars

-----------------------------------------------------------------------------
\* Type correctness.
TelemetryTypeOK ==
    /\ page \in Visits \cup {NoVisit}
    /\ \A v \in Visits :
        /\ visit[v].seen \subseteq 1..sent[v]
        /\ {tab[v].active, visit[v].count.active} \subseteq Nat
        /\ {tab[v].last, visit[v].count.last} \subseteq {Never} \cup 0..now

UnderWay(v) == UNION {Numbers(f.events) : f \in {g \in flights : g.visit = v}}

\* With one request at a time, no event of a visit is lost: A has it, it waits
\* to be sent again, or it is on its way (useReviewTelemetry.spec.js:41).
NothingLostInTurn ==
    \A v \in Visits \ crossed :
        1..sent[v] = visit[v].seen \cup Numbers(pending[v]) \cup UnderWay(v)

\* Then A, once it has every event, counts what the browser counts, although
\* batches were sent twice and answers were lost.
SameCount ==
    \A v \in Visits \ crossed :
        visit[v].seen = 1..sent[v] => visit[v].count = tab[v]

\* No visit counts time in which the page was hidden or not focused, and the
\* minimum is met by reading only when there was that much of it.
OnlyAttentionCounts ==
    crossed = {} =>
        /\ \A v \in Visits : visit[v].count.active <= attentive
        /\ MinimumMet => attentive >= Minimum

\* A counts the attention the browser saw: no event is lost, none is counted
\* twice, and no time in which nobody looked.
AttentionIsCounted ==
    TelemetryTypeOK /\ NothingLostInTurn /\ SameCount /\ OnlyAttentionCounts
=============================================================================
