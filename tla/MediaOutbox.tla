----------------------------- MODULE MediaOutbox ----------------------------
(***************************************************************************)
(* The outbox of the media service B and its receiver in A.                  *)
(*                                                                           *)
(* B writes a message with the phase version it is about, and one task       *)
(* drains the outbox: it lists what is pending, oldest first, and posts the  *)
(* messages one by one.  A post may time out while its request is still on   *)
(* the way, and B may die at any point.  A takes a message once, and refuses *)
(* a media event that is stale, out of place or of a type it does not know.  *)
(***************************************************************************)
EXTENDS Naturals

CONSTANTS
    Messages,           \* message ids: event_id, or artifact_id
    KindOf,             \* the kind of each message
    MaxVersion,         \* bound: phase versions
    Route,              \* the phase at each version, by advances and overrides
    MaxTimeouts,        \* bound: posts that B gives up
    MaxCrashes          \* bound: times B dies

Kinds == {"ready", "error", "handoff", "ended", "audit", "artifact", "unknown"}
Phases == {"PROXY_MEETING", "HANDOFF", "SYNC_MEETING", "REVIEW"}

ASSUME MediaOutboxAssumption ==
    /\ KindOf \in [Messages -> Kinds]
    /\ MaxVersion \in Nat \ {0}
    /\ Route \in [1 .. MaxVersion -> Phases]
    /\ MaxTimeouts \in Nat /\ MaxCrashes \in Nat

VARIABLES
    outbox,             \* B: "none", "pending", "delivered" or "discarded"
    stamp,              \* B: phase_version of each message
    occurred_at,        \* B: when each message was written, by the clock
    clock,              \* B: messages written
    batch,              \* B: what drain has left of its list
    sending,            \* B: the post drain waits for: [msg, answer]
    late,               \* network: requests of each message B has given up
    version,            \* A: phase_version of the session
    applied,            \* A: times the effect of each message happened
    flags,              \* A: completion flags the messages have set
    media_service_status,
    timeouts, crashes   \* history, bounded

sender == <<outbox, stamp, occurred_at, clock, batch>>
receiver == <<version, applied, flags, media_service_status>>
counters == <<timeouts, crashes>>
vars == <<sender, sending, late, receiver, counters>>

Nothing == [answer |-> "none"]
Post(m, answer) == [msg |-> m, answer |-> answer]
Answers == {"waiting", "ok", "conflict", "bad_request"}
PostSet == [msg : Messages, answer : Answers]
Flags == {"proxy_meeting_ended", "sync_meeting_ended", "handoff_complete",
          "summary_artifact_ready"}

Init ==
    /\ outbox = [m \in Messages |-> "none"]
    /\ stamp = [m \in Messages |-> 1]
    /\ occurred_at = [m \in Messages |-> 0]
    /\ clock = 0
    /\ batch = {}
    /\ sending = Nothing
    /\ late = [m \in Messages |-> 0]
    /\ version = 1
    /\ applied = [m \in Messages |-> 0]
    /\ flags = {}
    /\ media_service_status = "mock_idle"
    /\ timeouts = 0 /\ crashes = 0

-----------------------------------------------------------------------------
(* enqueue_event, enqueue_artifact.  The version is the one of the runtime   *)
(* or of the command at work, which A may have left.                         *)
Enqueue(m, v) ==
    /\ outbox[m] = "none"
    /\ outbox' = [outbox EXCEPT ![m] = "pending"]
    /\ stamp' = [stamp EXCEPT ![m] = v]
    /\ clock' = clock + 1
    /\ occurred_at' = [occurred_at EXCEPT ![m] = clock']
    /\ UNCHANGED <<batch, sending, late, receiver, counters>>

pending_outbox == {m \in Messages : outbox[m] = "pending"}

(* drain: the list it goes through.                                          *)
StartDrain ==
    /\ batch = {} /\ sending = Nothing
    /\ pending_outbox # {}
    /\ batch' = pending_outbox
    /\ UNCHANGED <<outbox, stamp, occurred_at, clock, sending, late, receiver, counters>>

Send ==
    /\ sending = Nothing
    /\ \E m \in batch :
          /\ \A other \in batch : occurred_at[m] \leq occurred_at[other]
          /\ sending' = Post(m, "waiting")
          /\ batch' = batch \ {m}
    /\ UNCHANGED <<outbox, stamp, occurred_at, clock, late, receiver, counters>>

(* The end of deliver: 409 discards, another error only counts the attempt.  *)
Settle_KeepsConflicts ==
    /\ sending # Nothing /\ sending.answer # "waiting"
    /\ sending' = Nothing
    /\ outbox' = IF sending.answer = "ok"
                 THEN [outbox EXCEPT ![sending.msg] = "delivered"] ELSE outbox
    /\ UNCHANGED <<stamp, occurred_at, clock, batch, late, receiver, counters>>

Settle ==
    /\ sending # Nothing /\ sending.answer # "waiting"
    /\ sending' = Nothing
    /\ \/ /\ sending.answer = "ok"
          /\ outbox' = [outbox EXCEPT ![sending.msg] = "delivered"]
       \/ /\ sending.answer = "conflict"
          /\ outbox' = [outbox EXCEPT ![sending.msg] = "discarded"]
       \/ /\ sending.answer = "bad_request"
          /\ UNCHANGED outbox
    /\ UNCHANGED <<stamp, occurred_at, clock, batch, late, receiver, counters>>

(* The post fails before it is answered: its request is lost, or late.       *)
Abandon ==
    LET m == sending.msg
    IN  \/ late' = [late EXCEPT ![m] = @ + 1] /\ sending.answer = "waiting"
        \/ UNCHANGED late

(* A delivery that counts a post nobody refused as delivered.                *)
Timeout_Optimistic ==
    /\ sending # Nothing
    /\ timeouts < MaxTimeouts
    /\ timeouts' = timeouts + 1
    /\ Abandon
    /\ sending' = Nothing
    /\ outbox' = [outbox EXCEPT ![sending.msg] = "delivered"]
    /\ UNCHANGED <<stamp, occurred_at, clock, batch, receiver, crashes>>

Timeout ==
    /\ sending # Nothing
    /\ timeouts < MaxTimeouts
    /\ timeouts' = timeouts + 1
    /\ Abandon
    /\ sending' = Nothing
    /\ UNCHANGED <<sender, receiver, crashes>>

Crash ==
    /\ crashes < MaxCrashes
    /\ crashes' = crashes + 1
    /\ IF sending = Nothing THEN UNCHANGED late ELSE Abandon
    /\ sending' = Nothing
    /\ batch' = {}
    /\ UNCHANGED <<outbox, stamp, occurred_at, clock, receiver, timeouts>>

-----------------------------------------------------------------------------
Stale(m) == stamp[m] # version

Misplaced(m) ==
    \/ KindOf[m] = "handoff" /\ Route[version] # "HANDOFF"
    \/ KindOf[m] = "ended" /\ Route[version] \notin {"PROXY_MEETING", "SYNC_MEETING"}

duplicate_Never(m) == FALSE
duplicate(m) == applied[m] > 0

(* What A answers: the type is validated first, a duplicate is told before   *)
(* a stale version, and an artifact has no version.                          *)
Answer_StaleFirst(m) ==
    IF KindOf[m] = "unknown" THEN "bad_request"
    ELSE IF KindOf[m] # "artifact" /\ (Stale(m) \/ Misplaced(m)) THEN "conflict" ELSE "ok"

Answer_IgnoresVersion(m) == IF KindOf[m] = "unknown" THEN "bad_request" ELSE "ok"

Answer(m) ==
    IF KindOf[m] = "unknown" THEN "bad_request"
    ELSE IF ~duplicate(m) /\ KindOf[m] # "artifact" /\ (Stale(m) \/ Misplaced(m))
         THEN "conflict"
         ELSE "ok"

(* A receiver that records the name of the event as the flag.                *)
FlagsOf_Name(m) == {KindOf[m]}

(* The flag a message sets, in the phase A is in.                            *)
FlagsOf(m) ==
    {flag \in Flags :
        \/ flag = "handoff_complete" /\ KindOf[m] = "handoff"
        \/ flag = "summary_artifact_ready" /\ KindOf[m] = "artifact"
        \/ flag = "proxy_meeting_ended" /\ KindOf[m] = "ended"
              /\ Route[version] = "PROXY_MEETING"
        \/ flag = "sync_meeting_ended" /\ KindOf[m] = "ended"
              /\ Route[version] = "SYNC_MEETING"}

(* record_media_event, create_artifact: one transaction that holds the row   *)
(* of the session.                                                           *)
Receive(m) ==
    /\ IF Answer(m) = "ok" /\ ~duplicate(m)
       THEN /\ applied' = [applied EXCEPT ![m] = @ + 1]
            /\ flags' = flags \cup FlagsOf(m)
            /\ media_service_status' = IF KindOf[m] \in {"ready", "error"}
                                       THEN KindOf[m] ELSE media_service_status
       ELSE UNCHANGED <<applied, flags, media_service_status>>
    /\ UNCHANGED <<version, sender, counters>>

ReceiveCurrent ==
    /\ sending # Nothing /\ sending.answer = "waiting"
    /\ Receive(sending.msg)
    /\ sending' = Post(sending.msg, Answer(sending.msg))
    /\ UNCHANGED late

(* A request that B gave up arrives, and nobody reads the answer.            *)
ReceiveLate(m) ==
    /\ late[m] > 0
    /\ late' = [late EXCEPT ![m] = @ - 1]
    /\ Receive(m)
    /\ UNCHANGED sending

(* A leaves the phase, by an advance or an override.                         *)
Advance ==
    /\ version < MaxVersion
    /\ version' = version + 1
    /\ UNCHANGED <<applied, flags, media_service_status, sender, sending, late, counters>>

-----------------------------------------------------------------------------
Next ==
    \/ \E m \in Messages, v \in 1 .. version : Enqueue(m, v)
    \/ StartDrain
    \/ Send
    \/ Settle
    \/ Timeout
    \/ Crash
    \/ ReceiveCurrent
    \/ \E m \in Messages : ReceiveLate(m)
    \/ Advance

Spec == Init /\ [][Next]_vars

(* deliver_outbox_forever never stops polling, and a post is answered or     *)
(* times out.  Timeouts and crashes are bounded: A is reachable in the end.  *)
Fairness ==
    /\ WF_vars(StartDrain)
    /\ WF_vars(Send)
    /\ WF_vars(Settle)
    /\ WF_vars(ReceiveCurrent)

FairSpec == Spec /\ Fairness
-----------------------------------------------------------------------------
(* Type invariant of the outbox, the network and the receiver.               *)
TypeOK ==
    /\ outbox \in [Messages -> {"none", "pending", "delivered", "discarded"}]
    /\ stamp \in [Messages -> 1 .. MaxVersion]
    /\ occurred_at \in [Messages -> Nat] /\ clock \in Nat
    /\ batch \in SUBSET Messages
    /\ sending \in {Nothing} \cup PostSet
    /\ late \in [Messages -> Nat]
    /\ version \in 1 .. MaxVersion
    /\ applied \in [Messages -> Nat]
    /\ flags \in SUBSET Flags
    /\ media_service_status \in {"mock_idle", "ready", "error"}
    /\ timeouts \in Nat /\ crashes \in Nat

(* A message takes effect at most once, however often it is posted: after a  *)
(* lost answer, a crash of B, or beside a late request of itself.            *)
AppliedOnce == \A m \in Messages : applied[m] \leq 1

(* What B calls delivered has taken effect.                                  *)
DeliveredWasApplied ==
    \A m \in Messages : outbox[m] = "delivered" => applied[m] > 0

(* What B has given up as stale never took effect and never will, whatever   *)
(* late requests of it arrive: B's record of the session agrees with A's.    *)
DiscardedNeverApplied ==
    \A m \in Messages : outbox[m] = "discarded" => applied[m] = 0

AppliedIn(kind, phase) == \E m \in Messages :
    applied[m] > 0 /\ KindOf[m] = kind /\ Route[stamp[m]] = phase

(* A meeting or a handoff is over in A only by an event of B about a version *)
(* in which A was in that phase, never by one of another version.            *)
FlagsAreEarned ==
    /\ "proxy_meeting_ended" \in flags => AppliedIn("ended", "PROXY_MEETING")
    /\ "sync_meeting_ended" \in flags => AppliedIn("ended", "SYNC_MEETING")
    /\ "handoff_complete" \in flags => AppliedIn("handoff", "HANDOFF")

(* Every message of a type A knows reaches A or is found stale.              *)
OutboxDrains ==
    \A m \in Messages : KindOf[m] # "unknown" =>
        (outbox[m] = "pending" ~> outbox[m] # "pending")

(* A message is applied once or given up, never both, B's record of it is    *)
(* right, and only an event of the right visit ends a phase: whatever is     *)
(* retried, duplicated or late.                                              *)
DeliveryIsExact ==
    /\ TypeOK
    /\ AppliedOnce /\ DeliveredWasApplied /\ DiscardedNeverApplied /\ FlagsAreEarned
=============================================================================
