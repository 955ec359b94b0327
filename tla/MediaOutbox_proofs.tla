------------------------- MODULE MediaOutbox_proofs -------------------------
(***************************************************************************)
(* Proofs about MediaOutbox, for any messages and any route of the session   *)
(* through its phases, and any number of timeouts and crashes.               *)
(***************************************************************************)
EXTENDS MediaOutbox, TLAPS

(* A refusal that no later version lifts.                                    *)
Refused(m) ==
    /\ KindOf[m] \notin {"unknown", "artifact"}
    /\ Stale(m) \/ Misplaced(m)

(* The parts of the inductive invariant.  What drain has in hand is pending. *)
InHandIsPending ==
    /\ \A m \in batch : outbox[m] = "pending"
    /\ sending # Nothing => outbox[sending.msg] = "pending" /\ sending.msg \notin batch

(* Only a written message is on the way or applied.                          *)
KnownIsWritten == \A m \in Messages :
    /\ late[m] > 0 \/ applied[m] > 0 => outbox[m] # "none"
    /\ stamp[m] \leq version

(* The answer drain waits for, or has recorded, is what A has done.          *)
OkMeansApplied ==
    /\ sending # Nothing /\ sending.answer = "ok" => applied[sending.msg] > 0
    /\ \A m \in Messages : outbox[m] = "delivered" => applied[m] > 0

ConflictMeansRefused ==
    /\ sending # Nothing /\ sending.answer = "conflict" =>
          applied[sending.msg] = 0 /\ Refused(sending.msg)
    /\ \A m \in Messages : outbox[m] = "discarded" => applied[m] = 0 /\ Refused(m)

IInv ==
    /\ TypeOK
    /\ InHandIsPending
    /\ KnownIsWritten
    /\ OkMeansApplied
    /\ ConflictMeansRefused
    /\ AppliedOnce
    /\ FlagsAreEarned

-----------------------------------------------------------------------------
(* What the proofs use of posts: a post is its message and its answer.       *)
LEMMA PostFacts ==
    /\ Nothing \notin PostSet
    /\ \A m \in Messages, a \in Answers :
          /\ Post(m, a) \in PostSet
          /\ Post(m, a).msg = m
          /\ Post(m, a).answer = a
    /\ \A p \in PostSet : p.msg \in Messages /\ p.answer \in Answers
<1>1. Nothing \notin PostSet
  <2> SUFFICES ASSUME Nothing \in PostSet PROVE FALSE
    OBVIOUS
  <2>1. Nothing.answer \in Answers /\ Nothing.answer = "none"
    BY DEF Nothing, PostSet
  <2>2. QED
    BY <2>1 DEF Answers
<1>2. ASSUME NEW m \in Messages, NEW a \in Answers
      PROVE Post(m, a) \in PostSet /\ Post(m, a).msg = m /\ Post(m, a).answer = a
  BY <1>2 DEF Post, PostSet
<1>3. \A p \in PostSet : p.msg \in Messages /\ p.answer \in Answers
  BY DEF PostSet
<1>4. QED
  BY <1>1, <1>2, <1>3

LEMMA InitInvariant == Init => IInv
<1> SUFFICES ASSUME Init PROVE IInv
  OBVIOUS
<1>1. TypeOK
  BY MediaOutboxAssumption DEF Init, TypeOK
<1>2. InHandIsPending /\ KnownIsWritten /\ OkMeansApplied /\ ConflictMeansRefused
  BY DEF Init, InHandIsPending, KnownIsWritten, OkMeansApplied, ConflictMeansRefused
<1>3. AppliedOnce /\ FlagsAreEarned
  BY DEF Init, AppliedOnce, FlagsAreEarned
<1>4. QED
  BY <1>1, <1>2, <1>3 DEF IInv
-----------------------------------------------------------------------------
LEMMA AnswerIsAnswer == \A m : Answer(m) \in Answers /\ Answer(m) # "waiting"
  BY DEF Answer, Answers

(* A step of the receiver, whichever request it takes.                       *)
LEMMA ReceiveStep ==
    ASSUME IInv, NEW m \in Messages, Receive(m), outbox[m] # "none"
    PROVE  /\ applied' \in [Messages -> Nat]
           /\ flags' \in SUBSET Flags
           /\ media_service_status' \in {"mock_idle", "ready", "error"}
           /\ AppliedOnce'
           /\ FlagsAreEarned'
           /\ Answer(m) = "ok" => applied'[m] > 0
           /\ Answer(m) = "conflict" => applied'[m] = 0 /\ Refused(m)
           /\ \A n \in Messages :
                 /\ applied'[n] # applied[n] => n = m /\ ~Refused(n)
                 /\ applied'[n] \geq applied[n]
<1> DEFINE accepts == Answer(m) = "ok" /\ ~duplicate(m)
<1>1. CASE ~accepts
  <2>1. UNCHANGED <<applied, flags, media_service_status, version, stamp>>
    BY <1>1 DEF Receive, sender
  <2>2. AppliedOnce' /\ FlagsAreEarned'
    BY <2>1 DEF IInv, AppliedOnce, FlagsAreEarned, AppliedIn
  <2>3. Answer(m) = "ok" => applied[m] > 0
    BY <1>1 DEF duplicate
  <2>4. Answer(m) = "conflict" => applied[m] = 0 /\ Refused(m)
    BY DEF Answer, duplicate, Refused, IInv, TypeOK
  <2>5. QED
    BY <2>1, <2>2, <2>3, <2>4 DEF IInv, TypeOK
<1>2. CASE accepts
  <2>1. /\ applied[m] = 0
        /\ applied' = [applied EXCEPT ![m] = applied[m] + 1]
        /\ flags' = flags \cup FlagsOf(m)
        /\ UNCHANGED <<version, stamp>>
    BY <1>2 DEF Receive, duplicate, sender, IInv, TypeOK
  <2>2. KindOf[m] = "artifact" \/ (stamp[m] = version /\ ~Misplaced(m))
    BY <1>2 DEF Answer, Stale
  <2>3. ~Refused(m)
    BY <2>2 DEF Refused, Stale
  <2>4. AppliedOnce'
    BY <2>1 DEF IInv, TypeOK, AppliedOnce
  <2>5. applied'[m] = 1 /\ \A n \in Messages \ {m} : applied'[n] = applied[n]
    BY <2>1 DEF IInv, TypeOK
  <2>6. ASSUME NEW kind, NEW phase, NEW n \in Messages,
               applied[n] > 0 /\ KindOf[n] = kind /\ Route[stamp[n]] = phase
        PROVE  applied'[n] > 0 /\ KindOf[n] = kind /\ Route[stamp'[n]] = phase
    BY <2>1, <2>5, <2>6
  <2>7. FlagsAreEarned'
    <3>1. "proxy_meeting_ended" \in flags' => AppliedIn("ended", "PROXY_MEETING")'
      BY <2>1, <2>2, <2>5, <2>6 DEF FlagsOf, IInv, FlagsAreEarned, AppliedIn
    <3>2. "sync_meeting_ended" \in flags' => AppliedIn("ended", "SYNC_MEETING")'
      BY <2>1, <2>2, <2>5, <2>6 DEF FlagsOf, IInv, FlagsAreEarned, AppliedIn
    <3>3. "handoff_complete" \in flags' => AppliedIn("handoff", "HANDOFF")'
      BY <2>1, <2>2, <2>5, <2>6 DEF FlagsOf, IInv, FlagsAreEarned, AppliedIn, Misplaced
    <3>4. QED
      BY <3>1, <3>2, <3>3 DEF FlagsAreEarned
  <2>8. media_service_status' \in {"mock_idle", "ready", "error"}
    BY <1>2 DEF Receive, IInv, TypeOK
  <2>9. flags' \in SUBSET Flags /\ applied' \in [Messages -> Nat]
    BY <2>1 DEF FlagsOf, IInv, TypeOK
  <2>10. QED
    BY <1>2, <2>1, <2>3, <2>4, <2>5, <2>7, <2>8, <2>9 DEF IInv, TypeOK
<1>3. QED
  BY <1>1, <1>2

-----------------------------------------------------------------------------
(* The message of a post is written, and a refusal outlives the version.     *)
LEMMA SendingHasMessage ==
    ASSUME IInv, sending # Nothing
    PROVE  /\ sending \in PostSet
           /\ sending.msg \in Messages /\ sending.answer \in Answers
           /\ outbox[sending.msg] = "pending" /\ sending.msg \notin batch
  BY PostFacts DEF IInv, TypeOK, InHandIsPending

LEMMA EnqueueStep ==
    ASSUME IInv, NEW m \in Messages, NEW v \in 1 .. version, Enqueue(m, v)
    PROVE  IInv'
<1>1. /\ outbox[m] = "none" /\ applied[m] = 0 /\ late[m] = 0
      /\ outbox' = [outbox EXCEPT ![m] = "pending"]
      /\ stamp' = [stamp EXCEPT ![m] = v]
      /\ UNCHANGED <<batch, sending, late, version, applied, flags>>
  BY DEF Enqueue, receiver, IInv, TypeOK, KnownIsWritten
<1>2. TypeOK'
  <2>1. v \in 1 .. MaxVersion
    BY MediaOutboxAssumption DEF IInv, TypeOK
  <2>2. QED
    BY <2>1 DEF Enqueue, receiver, counters, IInv, TypeOK
<1>3. InHandIsPending'
  BY <1>1, SendingHasMessage DEF IInv, TypeOK, InHandIsPending
<1>4. KnownIsWritten'
  BY <1>1 DEF IInv, TypeOK, KnownIsWritten
<1>5. OkMeansApplied'
  BY <1>1 DEF IInv, TypeOK, OkMeansApplied
<1>6. ConflictMeansRefused'
  BY <1>1, SendingHasMessage
     DEF IInv, TypeOK, ConflictMeansRefused, Refused, Stale, Misplaced
<1>7. AppliedOnce'
  BY <1>1 DEF IInv, AppliedOnce
<1>8. FlagsAreEarned'
  BY <1>1 DEF IInv, TypeOK, FlagsAreEarned, AppliedIn
<1>9. QED
  BY <1>2, <1>3, <1>4, <1>5, <1>6, <1>7, <1>8 DEF IInv

(* The sender's own steps, which leave A alone.                              *)
LEMMA SenderStep ==
    ASSUME IInv, StartDrain \/ Send \/ Settle \/ Timeout \/ Crash
    PROVE  IInv'
<1>1. UNCHANGED <<version, applied, flags, media_service_status, stamp, occurred_at, clock>>
  BY DEF StartDrain, Send, Settle, Timeout, Crash, receiver, sender
<1>2. AppliedOnce' /\ FlagsAreEarned'
  BY <1>1 DEF IInv, AppliedOnce, FlagsAreEarned, AppliedIn
<1>3. ASSUME NEW m PROVE Refused(m) => Refused(m)'
  BY <1>1 DEF Refused, Stale, Misplaced
<1>4. CASE StartDrain
  <2>1. TypeOK'
    BY <1>1, <1>4 DEF StartDrain, pending_outbox, counters, receiver, IInv, TypeOK
  <2>2. InHandIsPending' /\ KnownIsWritten' /\ OkMeansApplied'
    BY <1>1, <1>4 DEF StartDrain, pending_outbox, IInv, InHandIsPending,
         KnownIsWritten, OkMeansApplied
  <2>3. ConflictMeansRefused'
    BY <1>1, <1>3, <1>4 DEF StartDrain, IInv, ConflictMeansRefused
  <2>4. QED
    BY <1>2, <2>1, <2>2, <2>3 DEF IInv
<1>5. CASE Send
  <2>1. PICK m \in batch : sending' = Post(m, "waiting") /\ batch' = batch \ {m}
    BY <1>5 DEF Send
  <2>2. m \in Messages /\ outbox[m] = "pending"
    BY DEF IInv, TypeOK, InHandIsPending
  <2>3. sending' \in PostSet /\ sending'.msg = m /\ sending'.answer = "waiting"
    BY <2>1, <2>2, PostFacts DEF Answers
  <2>4. UNCHANGED <<outbox, late, timeouts, crashes>>
    BY <1>5 DEF Send, counters
  <2>5. TypeOK'
    BY <1>1, <2>1, <2>3, <2>4 DEF IInv, TypeOK
  <2>6. InHandIsPending' /\ KnownIsWritten' /\ OkMeansApplied'
    BY <1>1, <2>1, <2>2, <2>3, <2>4 DEF IInv, InHandIsPending, KnownIsWritten, OkMeansApplied
  <2>7. ConflictMeansRefused'
    BY <1>1, <1>3, <2>3, <2>4 DEF IInv, ConflictMeansRefused
  <2>8. QED
    BY <1>2, <2>5, <2>6, <2>7 DEF IInv
<1>6. CASE Settle
  <2>1. /\ sending # Nothing /\ sending' = Nothing
        /\ UNCHANGED <<batch, late, timeouts, crashes>>
    BY <1>6 DEF Settle, counters
  <2>2. sending.msg \in Messages
    BY <2>1, SendingHasMessage
  <2>3. \/ sending.answer = "ok" /\ outbox' = [outbox EXCEPT ![sending.msg] = "delivered"]
        \/ sending.answer = "conflict" /\ outbox' = [outbox EXCEPT ![sending.msg] = "discarded"]
        \/ outbox' = outbox
    BY <1>6 DEF Settle
  <2>4. TypeOK'
    BY <1>1, <2>1, <2>2, <2>3 DEF IInv, TypeOK
  <2>5. InHandIsPending'
    BY <2>1, <2>2, <2>3, SendingHasMessage DEF IInv, TypeOK, InHandIsPending
  <2>6. KnownIsWritten'
    BY <1>1, <2>1, <2>2, <2>3 DEF IInv, TypeOK, KnownIsWritten
  <2>7. OkMeansApplied'
    BY <1>1, <2>1, <2>2, <2>3 DEF IInv, TypeOK, OkMeansApplied
  <2>8. ConflictMeansRefused'
    BY <1>1, <1>3, <2>1, <2>2, <2>3 DEF IInv, TypeOK, ConflictMeansRefused
  <2>9. QED
    BY <1>2, <2>4, <2>5, <2>6, <2>7, <2>8 DEF IInv
<1>7. CASE Timeout \/ Crash
  <2>1. sending' = Nothing /\ outbox' = outbox /\ batch' \subseteq batch
    BY <1>7 DEF Timeout, Crash, sender
  <2>2. /\ timeouts' \in Nat /\ crashes' \in Nat
        /\ late' = late \/ (sending # Nothing /\ Abandon)
    BY <1>7 DEF Timeout, Crash, Abandon, IInv, TypeOK
  <2>3. /\ late' \in [Messages -> Nat]
        /\ \A m \in Messages : late'[m] > 0 => late[m] > 0 \/ outbox[m] # "none"
    BY <2>2, SendingHasMessage DEF Abandon, IInv, TypeOK
  <2>4. TypeOK'
    BY <1>1, <2>1, <2>2, <2>3 DEF IInv, TypeOK
  <2>5. InHandIsPending' /\ KnownIsWritten' /\ OkMeansApplied'
    BY <1>1, <2>1, <2>3 DEF IInv, InHandIsPending, KnownIsWritten, OkMeansApplied
  <2>6. ConflictMeansRefused'
    BY <1>1, <1>3, <2>1 DEF IInv, ConflictMeansRefused
  <2>7. QED
    BY <1>2, <2>4, <2>5, <2>6 DEF IInv
<1>8. QED
  BY <1>4, <1>5, <1>6, <1>7

LEMMA ReceiveCurrentStep ==
    ASSUME IInv, ReceiveCurrent
    PROVE  IInv'
<1> DEFINE m == sending.msg
<1>1. /\ sending # Nothing /\ m \in Messages
      /\ outbox[m] = "pending" /\ m \notin batch
      /\ Receive(m)
      /\ sending' = Post(m, Answer(m))
  BY SendingHasMessage DEF ReceiveCurrent
<1>2. sending' \in PostSet /\ sending'.msg = m /\ sending'.answer = Answer(m)
  BY <1>1, PostFacts, AnswerIsAnswer
<1>3. UNCHANGED <<outbox, stamp, occurred_at, clock, batch, late, version, timeouts, crashes>>
  BY <1>1 DEF Receive, ReceiveCurrent, sender, counters
<1>4. TypeOK' /\ AppliedOnce' /\ FlagsAreEarned'
  BY <1>1, <1>2, <1>3, ReceiveStep DEF IInv, TypeOK
<1>5. InHandIsPending'
  BY <1>1, <1>2, <1>3 DEF IInv, InHandIsPending
<1>6. KnownIsWritten'
  BY <1>1, <1>3, ReceiveStep DEF IInv, TypeOK, KnownIsWritten
<1>7. OkMeansApplied'
  BY <1>1, <1>2, <1>3, ReceiveStep DEF IInv, TypeOK, OkMeansApplied
<1>8. ConflictMeansRefused'
  BY <1>1, <1>2, <1>3, ReceiveStep
     DEF IInv, TypeOK, ConflictMeansRefused, Refused, Stale, Misplaced
<1>9. QED
  BY <1>4, <1>5, <1>6, <1>7, <1>8 DEF IInv

LEMMA ReceiveLateStep ==
    ASSUME IInv, NEW m \in Messages, ReceiveLate(m)
    PROVE  IInv'
<1>1. /\ outbox[m] # "none" /\ Receive(m)
      /\ late' \in [Messages -> Nat]
      /\ \A n \in Messages : late'[n] > 0 => late[n] > 0
  BY DEF ReceiveLate, IInv, TypeOK, KnownIsWritten
<1>2. UNCHANGED <<outbox, stamp, occurred_at, clock, batch, sending, version, timeouts, crashes>>
  BY DEF Receive, ReceiveLate, sender, counters
<1>3. TypeOK' /\ AppliedOnce' /\ FlagsAreEarned'
  BY <1>1, <1>2, ReceiveStep DEF IInv, TypeOK
<1>4. InHandIsPending'
  BY <1>2 DEF IInv, InHandIsPending
<1>5. KnownIsWritten'
  BY <1>1, <1>2, ReceiveStep DEF IInv, TypeOK, KnownIsWritten
<1>6. OkMeansApplied'
  BY <1>1, <1>2, ReceiveStep, SendingHasMessage DEF IInv, TypeOK, OkMeansApplied
<1>7. ConflictMeansRefused'
  BY <1>1, <1>2, ReceiveStep, SendingHasMessage
     DEF IInv, TypeOK, ConflictMeansRefused, Refused, Stale, Misplaced
<1>8. QED
  BY <1>3, <1>4, <1>5, <1>6, <1>7 DEF IInv

LEMMA AdvanceStep ==
    ASSUME IInv, Advance
    PROVE  IInv'
<1>1. /\ version' = version + 1 /\ version' \in 1 .. MaxVersion
      /\ UNCHANGED <<applied, flags, media_service_status, sender, sending, late, counters>>
  BY MediaOutboxAssumption DEF Advance, IInv, TypeOK
<1>2. TypeOK' /\ InHandIsPending' /\ KnownIsWritten' /\ OkMeansApplied'
  BY <1>1 DEF IInv, TypeOK, InHandIsPending, KnownIsWritten, OkMeansApplied, sender, counters
<1>3. ASSUME NEW m \in Messages, Refused(m) PROVE Refused(m)'
  BY <1>1, <1>3 DEF Refused, Stale, IInv, TypeOK, KnownIsWritten, sender
<1>4. ConflictMeansRefused'
  BY <1>1, <1>3, SendingHasMessage DEF IInv, ConflictMeansRefused, sender
<1>5. AppliedOnce' /\ FlagsAreEarned'
  BY <1>1 DEF IInv, AppliedOnce, FlagsAreEarned, AppliedIn, sender
<1>6. QED
  BY <1>2, <1>4, <1>5 DEF IInv

LEMMA StepInvariant == IInv /\ [Next]_vars => IInv'
<1> SUFFICES ASSUME IInv, [Next]_vars PROVE IInv'
  OBVIOUS
<1>1. CASE Next
  BY <1>1, EnqueueStep, SenderStep, ReceiveCurrentStep, ReceiveLateStep, AdvanceStep DEF Next
<1>2. CASE UNCHANGED vars
  <2>1. UNCHANGED <<outbox, stamp, occurred_at, clock, batch, sending, late, version,
                    applied, flags, media_service_status, timeouts, crashes>>
    BY <1>2 DEF vars, sender, receiver, counters
  <2>2. QED
    BY <2>1 DEF IInv, TypeOK, InHandIsPending, KnownIsWritten, OkMeansApplied,
         ConflictMeansRefused, Refused, Stale, Misplaced, AppliedOnce, FlagsAreEarned,
         AppliedIn
<1>3. QED
  BY <1>1, <1>2

(* The inductive invariant holds in every behaviour.                         *)
THEOREM Invariance == Spec => []IInv
  BY InitInvariant, StepInvariant, PTL DEF Spec

(* However often a message is posted, A applies it at most once: the key of  *)
(* record_media_event and the id of create_artifact are enough.              *)
THEOREM ExactlyOnce == Spec => []AppliedOnce
<1>1. IInv => AppliedOnce
  BY DEF IInv
<1>2. QED
  BY <1>1, Invariance, PTL

(* A row with delivered_at and no error has taken effect in A.               *)
THEOREM DeliveredIsApplied == Spec => []DeliveredWasApplied
<1>1. IInv => DeliveredWasApplied
  BY DEF IInv, OkMeansApplied, DeliveredWasApplied
<1>2. QED
  BY <1>1, Invariance, PTL

(* A 409 of A is final: no late request of a discarded message takes effect. *)
THEOREM DiscardedIsStale == Spec => []DiscardedNeverApplied
<1>1. IInv => DiscardedNeverApplied
  BY DEF IInv, ConflictMeansRefused, DiscardedNeverApplied
<1>2. QED
  BY <1>1, Invariance, PTL

(* The flags that let A leave a meeting or the handoff come from an event    *)
(* about a version of that phase.                                            *)
THEOREM FlagsEarned == Spec => []FlagsAreEarned
<1>1. IInv => FlagsAreEarned
  BY DEF IInv
<1>2. QED
  BY <1>1, Invariance, PTL

(* Type correctness.                                                         *)
THEOREM TypeCorrect == Spec => []TypeOK
<1>1. IInv => TypeOK
  BY DEF IInv
<1>2. QED
  BY <1>1, Invariance, PTL

(* A message is applied once or given up, and B's record of it is right.     *)
THEOREM Exact == Spec => []DeliveryIsExact
  BY TypeCorrect, ExactlyOnce, DeliveredIsApplied, DiscardedIsStale, FlagsEarned, PTL
     DEF DeliveryIsExact
=============================================================================
