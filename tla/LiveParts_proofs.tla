-------------------------- MODULE LiveParts_proofs --------------------------
(***************************************************************************)
(* Proofs about the parts that must get somewhere: the purge of a          *)
(* participant's data, the audio session of the browser, and the loops of  *)
(* the agents on the legacy platform.                                      *)
(***************************************************************************)
EXTENDS Retention, StableAudio, AgentLoop, FiniteSetTheorems, TLAPS

-----------------------------------------------------------------------------
(* Retention, for any jobs, approvals and bounds.                           *)

JobStates == {"none", "dry_run", "executed"}
LedgerStates == {"new", "accepted", "processing", "failed", "completed"}
Approving == [at : {"idle", "send", "store"}, job : Jobs \cup {NoJob}]
Purging == [at : {"idle", "stop", "purge", "complete"}, job : Jobs \cup {NoJob}]

RetentionTypes ==
    /\ jobs \in [Jobs -> JobStates] /\ tombs \in [Jobs -> Nat]
    /\ approving \in [Approvals -> Approving]
    /\ ledger \in [Jobs -> LedgerStates] /\ purging \in Purging
    /\ meeting \in BOOLEAN /\ marks \subseteq Jobs
    /\ deletions \in [Jobs -> Nat] /\ purged \in Nat /\ meetings \in Nat
    /\ restarts \in [a : Nat, b : Nat]

(* A is about to store a job only when B has its command.                    *)
ApprovalsAreSent ==
    \A a \in Approvals :
        /\ approving[a].at # "idle" => approving[a].job \in Jobs
        /\ approving[a].at = "store" => ledger[approving[a].job] # "new"

(* From the deletion on no meeting is active, and its job is marked.         *)
PurgeIsAlone ==
    /\ purging.at # "idle" => purging.job \in Jobs
    /\ purging.at \in {"purge", "complete"} => ~meeting
    /\ purging.at = "complete" => purging.job \in marks

MarkedIsDeleted == \A j \in Jobs : deletions[j] = IF j \in marks THEN 1 ELSE 0

(* A meeting that is active began after the last deletion.                   *)
MeetingIsLater == purged <= meetings /\ (meeting => purged < meetings)

RetentionInv ==
    /\ RetentionTypes /\ ApprovalsAreSent /\ TombstoneHasCommand
    /\ PurgeIsAlone /\ MarkedIsDeleted /\ MeetingIsLater
    /\ CompletedIsPurged /\ NothingWrittenLate


-----------------------------------------------------------------------------
LEMMA RetentionInitInvariant == RetentionInit => RetentionInv
<1> SUFFICES ASSUME RetentionInit PROVE RetentionInv
  OBVIOUS
<1>1. Resting \in Approving /\ Resting \in Purging /\ Resting.at = "idle"
  BY DEF Resting, Approving, Purging
<1>2. RetentionTypes
  <2>1. jobs \in [Jobs -> JobStates] /\ ledger \in [Jobs -> LedgerStates]
    BY DEF RetentionInit, JobStates, LedgerStates
  <2>2. tombs \in [Jobs -> Nat] /\ deletions \in [Jobs -> Nat] /\ restarts \in [a : Nat, b : Nat]
    BY DEF RetentionInit
  <2>3. QED
    BY <1>1, <2>1, <2>2 DEF RetentionInit, RetentionTypes
<1>3. QED
  BY <1>1, <1>2 DEF RetentionInit, RetentionInv, ApprovalsAreSent, TombstoneHasCommand, PurgeIsAlone,
       MarkedIsDeleted, MeetingIsLater, CompletedIsPurged, NothingWrittenLate

(* B has a command once it has accepted it, and accepting undoes nothing.    *)
LEMMA AcceptedCommand ==
    ASSUME RetentionTypes, NEW j \in Jobs, Accepted(j)
    PROVE  /\ ledger' \in [Jobs -> LedgerStates] /\ ledger'[j] # "new"
           /\ \A k \in Jobs : ledger[k] # "new" => ledger'[k] # "new"
           /\ \A k \in Jobs : ledger'[k] = "completed" => ledger[k] = "completed"
BY DEF RetentionTypes, Accepted, LedgerStates

LEMMA DryRunStep == ASSUME RetentionInv, NEW j \in Jobs, CreateDryRun(j) PROVE RetentionInv'
BY DEF RetentionInv, CreateDryRun, InB, RetentionTypes, ApprovalsAreSent, TombstoneHasCommand, PurgeIsAlone,
       MarkedIsDeleted, MeetingIsLater, CompletedIsPurged, NothingWrittenLate, JobStates

LEMMA ApproveStep ==
    ASSUME RetentionInv, NEW a \in Approvals, NEW j \in Jobs, Approve(a, j) PROVE RetentionInv'
<1>1. UNCHANGED <<jobs, tombs, restarts>> /\ UNCHANGED InB
  BY DEF Approve
<1>2. RetentionTypes'
  BY <1>1 DEF RetentionInv, Approve, RetentionTypes, Approving, InB
<1>3. ApprovalsAreSent'
  BY <1>1 DEF RetentionInv, Approve, RetentionTypes, ApprovalsAreSent, InB
<1>4. QED
  BY <1>1, <1>2, <1>3 DEF RetentionInv, InB, TombstoneHasCommand, PurgeIsAlone,
       MarkedIsDeleted, MeetingIsLater, CompletedIsPurged, NothingWrittenLate

LEMMA SendStep ==
    ASSUME RetentionInv, NEW a \in Approvals, Send(a) \/ SendFails(a) PROVE RetentionInv'
<1>1. /\ approving[a].at = "send" /\ approving[a].job \in Jobs
      /\ UNCHANGED <<jobs, tombs, purging, meeting, media, marks, deletions, purged, meetings, restarts>>
  BY DEF RetentionInv, ApprovalsAreSent, Send, SendFails
<1>2. /\ ledger' \in [Jobs -> LedgerStates]
      /\ \A k \in Jobs : ledger[k] # "new" => ledger'[k] # "new"
      /\ \A k \in Jobs : ledger'[k] = "completed" => ledger[k] = "completed"
  <2>1. CASE Accepted(approving[a].job)
    BY <1>1, <2>1, AcceptedCommand DEF RetentionInv
  <2>2. CASE UNCHANGED ledger
    BY <2>2 DEF RetentionInv, RetentionTypes
  <2>3. QED
    BY <2>1, <2>2 DEF Send, SendFails
<1>3. approving' \in [Approvals -> Approving] /\ ApprovalsAreSent'
  <2>1. CASE Send(a)
    <3>1. ledger'[approving[a].job] # "new"
      BY <1>1, <2>1, AcceptedCommand DEF RetentionInv, Send
    <3>2. QED
      BY <1>1, <1>2, <2>1, <3>1 DEF RetentionInv, RetentionTypes, ApprovalsAreSent, Send, Approving
  <2>2. CASE SendFails(a)
    BY <1>1, <1>2, <2>2 DEF RetentionInv, RetentionTypes, ApprovalsAreSent, SendFails, Approving, Resting
  <2>3. QED
    BY <2>1, <2>2
<1>4. QED
  BY <1>1, <1>2, <1>3 DEF RetentionInv, RetentionTypes, TombstoneHasCommand, PurgeIsAlone, MarkedIsDeleted,
       MeetingIsLater, CompletedIsPurged, NothingWrittenLate

LEMMA ExecutedStep == ASSUME RetentionInv, NEW a \in Approvals, Executed(a) PROVE RetentionInv'
<1>1. approving[a].job \in Jobs /\ ledger[approving[a].job] # "new"
  BY DEF RetentionInv, ApprovalsAreSent, Executed
<1>2. UNCHANGED restarts /\ UNCHANGED InB
  BY DEF Executed
<1>3. RetentionTypes'
  BY <1>1, <1>2 DEF RetentionInv, RetentionTypes, Executed, Approving, Resting, InB, JobStates
<1>4. ApprovalsAreSent'
  BY <1>2 DEF RetentionInv, RetentionTypes, ApprovalsAreSent, Executed, Resting, InB
<1>5. TombstoneHasCommand'
  BY <1>1, <1>2 DEF RetentionInv, RetentionTypes, TombstoneHasCommand, Executed, InB
<1>6. QED
  BY <1>2, <1>3, <1>4, <1>5 DEF RetentionInv, InB, PurgeIsAlone, MarkedIsDeleted, MeetingIsLater,
       CompletedIsPurged, NothingWrittenLate

LEMMA RestartAStep == ASSUME RetentionInv, RestartA PROVE RetentionInv'
BY DEF RetentionInv, RestartA, InB, RetentionTypes, ApprovalsAreSent, TombstoneHasCommand, PurgeIsAlone,
       MarkedIsDeleted, MeetingIsLater, CompletedIsPurged, NothingWrittenLate, JobStates,
       Approving, Resting

LEMMA MeetingStep == ASSUME RetentionInv, StartMeeting \/ WriteSegment \/ EndMeeting PROVE RetentionInv'
<1>1. UNCHANGED <<ledger, purging, marks, deletions, purged, restarts>> /\ UNCHANGED InA
  BY DEF StartMeeting, WriteSegment, EndMeeting
<1>2. meeting' \in BOOLEAN /\ meetings' \in Nat /\ MeetingIsLater'
  <2>1. CASE StartMeeting
    BY <1>1, <2>1 DEF RetentionInv, RetentionTypes, StartMeeting, MeetingIsLater
  <2>2. CASE WriteSegment
    BY <1>1, <2>2 DEF RetentionInv, RetentionTypes, WriteSegment, MeetingIsLater
  <2>3. CASE EndMeeting
    BY <1>1, <2>3 DEF RetentionInv, RetentionTypes, EndMeeting, MeetingIsLater
  <2>4. QED
    BY <2>1, <2>2, <2>3
<1>3. PurgeIsAlone'
  BY <1>1 DEF RetentionInv, StartMeeting, WriteSegment, EndMeeting, PurgeIsAlone
<1>4. NothingWrittenLate'
  BY <1>1 DEF RetentionInv, RetentionTypes, StartMeeting, WriteSegment, EndMeeting, MeetingIsLater, NothingWrittenLate
<1>5. QED
  BY <1>1, <1>2, <1>3, <1>4 DEF RetentionInv, InA, RetentionTypes, ApprovalsAreSent, TombstoneHasCommand,
       MarkedIsDeleted, CompletedIsPurged

(* Steps of the command that is carried out, before and after the deletion.  *)
LEMMA CommandStep ==
    ASSUME RetentionInv, (\E j \in Jobs : Claim(j)) \/ StopFirst \/ StopFails \/ Complete PROVE RetentionInv'
<1>1. UNCHANGED <<media, marks, deletions, purged, meetings, restarts>> /\ UNCHANGED InA
  BY DEF Claim, StopFirst, StopFails, Complete
<1>2. ledger' \in [Jobs -> LedgerStates] /\ meeting' \in BOOLEAN
  BY DEF RetentionInv, RetentionTypes, LedgerStates, Claim, StopFirst, StopFails, Complete
<1>3. purging' \in Purging
  BY DEF RetentionInv, RetentionTypes, Purging, Claim, StopFirst, StopFails, Complete, Resting
<1>4. \A k \in Jobs : ledger[k] # "new" => ledger'[k] # "new"
  BY DEF RetentionInv, RetentionTypes, PurgeIsAlone, Claim, StopFirst, StopFails, Complete
<1>5. PurgeIsAlone'
  BY <1>1 DEF RetentionInv, RetentionTypes, Purging, PurgeIsAlone, Claim, StopFirst, StopFails, Complete, Resting
<1>6. CompletedIsPurged'
  BY <1>1 DEF RetentionInv, RetentionTypes, PurgeIsAlone, CompletedIsPurged, Claim, StopFirst, StopFails, Complete
<1>7. MeetingIsLater'
  BY <1>1 DEF RetentionInv, MeetingIsLater, Claim, StopFirst, StopFails, Complete
<1>8. QED
  BY <1>1, <1>2, <1>3, <1>4, <1>5, <1>6, <1>7 DEF RetentionInv, InA, RetentionTypes, ApprovalsAreSent,
       TombstoneHasCommand, MarkedIsDeleted, NothingWrittenLate

LEMMA PurgeStep == ASSUME RetentionInv, Purge PROVE RetentionInv'
<1>1. /\ purging.at = "purge" /\ purging.job \in Jobs /\ ~meeting
      /\ purging' = [purging EXCEPT !.at = "complete"]
      /\ UNCHANGED <<ledger, meeting, meetings, restarts>> /\ UNCHANGED InA
  BY DEF RetentionInv, PurgeIsAlone, Purge
<1>2. purging' \in Purging /\ purging'.at = "complete" /\ purging'.job = purging.job
  BY <1>1 DEF RetentionInv, RetentionTypes, Purging
<1>3. /\ marks \subseteq marks' /\ marks' \subseteq Jobs /\ purging.job \in marks'
      /\ deletions' \in [Jobs -> Nat] /\ MarkedIsDeleted'
  BY <1>1 DEF RetentionInv, RetentionTypes, MarkedIsDeleted, Purge
<1>4. purged' \in Nat /\ MeetingIsLater' /\ NothingWrittenLate'
  BY <1>1 DEF RetentionInv, RetentionTypes, MeetingIsLater, NothingWrittenLate, Purge
<1>5. QED
  BY <1>1, <1>2, <1>3, <1>4 DEF RetentionInv, InA, RetentionTypes, ApprovalsAreSent, TombstoneHasCommand,
       PurgeIsAlone, CompletedIsPurged

LEMMA RestartBStep == ASSUME RetentionInv, RestartB PROVE RetentionInv'
<1>1. UNCHANGED <<meeting, media, marks, deletions, purged, meetings>> /\ UNCHANGED InA
  BY DEF RestartB
<1>2. /\ ledger' \in [Jobs -> LedgerStates]
      /\ \A k \in Jobs : ledger[k] # "new" => ledger'[k] # "new"
      /\ \A k \in Jobs : ledger'[k] = "completed" => ledger[k] = "completed"
  BY DEF RetentionInv, RetentionTypes, RestartB, LedgerStates
<1>3. purging' \in Purging /\ purging'.at = "idle" /\ restarts' \in [a : Nat, b : Nat]
  BY DEF RetentionInv, RetentionTypes, RestartB, Resting, Purging
<1>4. QED
  BY <1>1, <1>2, <1>3 DEF RetentionInv, InA, RetentionTypes, ApprovalsAreSent, TombstoneHasCommand, PurgeIsAlone,
       MarkedIsDeleted, MeetingIsLater, CompletedIsPurged, NothingWrittenLate

LEMMA RetentionNextInvariant == RetentionInv /\ [RetentionNext]_retentionVars => RetentionInv'
<1> SUFFICES ASSUME RetentionInv, [RetentionNext]_retentionVars PROVE RetentionInv'
  OBVIOUS
<1>1. CASE \E j \in Jobs : CreateDryRun(j)
  BY <1>1, DryRunStep
<1>2. CASE \E a \in Approvals, j \in Jobs : Approve(a, j)
  BY <1>2, ApproveStep
<1>3. CASE \E a \in Approvals : Send(a) \/ SendFails(a)
  BY <1>3, SendStep
<1>4. CASE \E a \in Approvals : Executed(a)
  BY <1>4, ExecutedStep
<1>5. CASE RestartA
  BY <1>5, RestartAStep
<1>6. CASE StartMeeting \/ WriteSegment \/ EndMeeting
  BY <1>6, MeetingStep
<1>7. CASE (\E j \in Jobs : Claim(j)) \/ StopFirst \/ StopFails \/ Complete
  BY <1>7, CommandStep
<1>8. CASE Purge
  BY <1>8, PurgeStep
<1>9. CASE RestartB
  BY <1>9, RestartBStep
<1>10. CASE UNCHANGED retentionVars
  BY <1>10 DEF RetentionInv, retentionVars, RetentionTypes, ApprovalsAreSent, TombstoneHasCommand, PurgeIsAlone,
               MarkedIsDeleted, MeetingIsLater, CompletedIsPurged, NothingWrittenLate
<1>11. QED
  BY <1>1, <1>2, <1>3, <1>4, <1>5, <1>6, <1>7, <1>8, <1>9, <1>10 DEF RetentionNext

LEMMA RetentionSuffices == RetentionInv => PurgeIsExact
<1> SUFFICES ASSUME RetentionInv PROVE PurgeIsExact
  OBVIOUS
<1>1. RetentionTypeOK
  BY DEF RetentionInv, RetentionTypes, RetentionTypeOK, JobStates, LedgerStates, Approving, Purging
<1>2. PurgedOnce
  BY DEF RetentionInv, MarkedIsDeleted, PurgedOnce
<1>3. QED
  BY <1>1, <1>2 DEF RetentionInv, PurgeIsExact

(* The command of a job deletes at most once and leaves its mark; nothing of *)
(* a meeting it stopped is written afterwards; and A has no tombstone whose  *)
(* command B does not have: through double approvals, lost answers and       *)
(* restarts of both services (retention_service.py:223).                     *)
THEOREM PurgeExact == RetentionSpec => []PurgeIsExact
BY RetentionInitInvariant, RetentionNextInvariant, RetentionSuffices, PTL DEF RetentionSpec

-----------------------------------------------------------------------------
(* StableAudio, for a teammate or not, any calls in flight, and any bounds. *)

CallStates == {"none", "access", "granted", "dial", "dialled", "microphone", "broken",
               "superseded", "failed", "leaving", "expired"}
Links == {"unused", "new", "up", "shaky", "gone"}

(* The fields the conditions look at.                                        *)
StableFields ==
    /\ phase \in 1 .. Len(Phases) /\ screen \in 1 .. Len(Phases)
    /\ connection \in Off \cup {"connecting", "connected", "reconnecting"}
    /\ room \in {0} \cup RoomIds /\ link \in [RoomIds -> Links]
    /\ generation \in Nat /\ late \in BOOLEAN
    /\ calls \in [Calls -> [at : CallStates, gen : Nat, target : {0} \cup RoomIds,
                            same : BOOLEAN]]

(* What is not closed is the current Room.                                   *)
CurrentRoom == \A r \in RoomIds : link[r] \in {"new", "up", "shaky"} => r = room

(* A generation is one call's, and only the newest call moves the Room.      *)
Newest(c) == calls[c].at # "none" /\ calls[c].gen = generation
GenerationsApart ==
    /\ \A c \in Calls : calls[c].gen <= generation
    /\ \A c, d \in Calls : Newest(c) /\ Newest(d) => c = d

Leaving == {"failed", "leaving", "expired"}
NewestHasRoom ==
    \A c \in Calls : Newest(c) =>
        /\ calls[c].at \in Leaving => room = 0
        /\ calls[c].target # 0 => room \in {0, calls[c].target}

Silent(p) == Phases[p] \notin AUDIO_PHASES /\ ~Bridges(p)
Out == room = 0 /\ ~Joining
OutAsShown == ~late /\ (connection \in Off \/ Silent(screen)) => Out

StableInv ==
    StableFields /\ CurrentRoom /\ GenerationsApart /\ NewestHasRoom /\ OutAsShown
-----------------------------------------------------------------------------
CallType == [at : CallStates, gen : Nat, target : {0} \cup RoomIds, same : BOOLEAN]
AudioJoined == {"access", "granted", "dial", "dialled", "microphone"}

LEMMA FivePhases == Len(Phases) = 5 /\ 1 \in 1 .. Len(Phases)
BY DEF Phases

(* A phase with a meeting is never silent.                                   *)
LEMMA AudioIsHeard ==
    ASSUME NEW p, Phases[p] \in AUDIO_PHASES PROVE ~Silent(p)
BY DEF Silent

LEMMA StableInitInvariant == StableInit => StableInv
<1> SUFFICES ASSUME StableInit PROVE StableInv
  OBVIOUS
<1>1. phase = 1 /\ screen = 1 /\ Phases[1] \in AUDIO_PHASES
  BY DEF StableInit, Phases, AUDIO_PHASES
<1>2. /\ room = 0 /\ generation = 0 /\ link = [r \in RoomIds |-> "unused"]
      /\ \A c \in Calls : calls[c] = NoCall
  BY DEF StableInit
<1>3. calls \in [Calls -> CallType]
  <2>1. NoCall \in CallType
    BY DEF NoCall, CallType, CallStates
  <2>2. QED
    BY <2>1 DEF StableInit
<1>4. StableFields
  <2>1. connection \in Off /\ late = FALSE
    BY DEF StableInit, Off
  <2>2. link \in [RoomIds -> Links]
    BY <1>2 DEF Links
  <2>3. QED
    BY <1>1, <1>2, <1>3, <2>1, <2>2, FivePhases DEF StableFields, CallType
<1>5. CurrentRoom
  BY <1>2 DEF CurrentRoom
<1>6. \A c \in Calls : calls[c].at = "none" /\ calls[c].gen = 0
  BY <1>2 DEF NoCall
<1>7. GenerationsApart /\ NewestHasRoom /\ ~Joining
  BY <1>2, <1>6 DEF GenerationsApart, Newest, NewestHasRoom, Joining
<1>8. OutAsShown
  BY <1>2, <1>7 DEF OutAsShown, Out
<1>9. QED
  BY <1>4, <1>5, <1>7, <1>8 DEF StableInv

(* What happens to one call leaves the others alone.                         *)
LEMMA OneMoves ==
    ASSUME StableFields, NEW c \in Calls, NEW new \in CallType, calls' = [calls EXCEPT ![c] = new]
    PROVE  /\ calls' \in [Calls -> CallType] /\ calls'[c] = new
           /\ \A d \in Calls \ {c} : calls'[d] = calls[d]
<1>1. calls \in [Calls -> CallType]
  BY DEF StableFields, CallType
<1>2. QED
  BY <1>1

LEMMA OneGoesTo ==
    ASSUME StableFields, NEW c \in Calls, NEW at \in CallStates,
           calls' = [calls EXCEPT ![c].at = at]
    PROVE  /\ calls' \in [Calls -> CallType] /\ calls'[c].at = at
           /\ calls'[c].gen = calls[c].gen /\ calls'[c].target = calls[c].target
           /\ \A d \in Calls \ {c} : calls'[d] = calls[d]
<1>1. calls[c] \in CallType
  BY DEF StableFields, CallType
<1> DEFINE new == [at |-> at, gen |-> calls[c].gen, target |-> calls[c].target, same |-> calls[c].same]
<1>2. new \in CallType /\ new.at = at /\ new.gen = calls[c].gen /\ new.target = calls[c].target
  BY <1>1 DEF CallType
<1>3. [calls[c] EXCEPT !.at = at] = new
  BY <1>1 DEF CallType
<1> HIDE DEF new
<1>4. calls' = [calls EXCEPT ![c] = new]
  BY <1>3
<1>5. QED
  BY <1>2, <1>4, OneMoves

LEMMA OneEnds ==
    ASSUME StableFields, NEW c \in Calls, calls' = [calls EXCEPT ![c] = NoCall]
    PROVE  /\ calls' \in [Calls -> CallType] /\ calls'[c].at = "none" /\ calls'[c].gen = 0
           /\ \A d \in Calls \ {c} : calls'[d] = calls[d]
<1>1. NoCall \in CallType /\ NoCall.at = "none" /\ NoCall.gen = 0
  BY DEF NoCall, CallType, CallStates
<1>2. QED
  BY <1>1, OneMoves

(* The calls that shared the connection of a Room go on, the others stay.    *)
Kept(d, next) ==
    /\ calls'[d].gen = calls[d].gen /\ calls'[d].target = calls[d].target
    /\ calls'[d].at = calls[d].at \/ (calls[d].at = "dial" /\ calls'[d].at = next)

LEMMA WokenCalls ==
    ASSUME NEW cs \in [Calls -> CallType], NEW r, NEW at \in CallStates
    PROVE  /\ Woken(cs, r, at) \in [Calls -> CallType]
           /\ \A d \in Calls :
                 /\ Woken(cs, r, at)[d].gen = cs[d].gen
                 /\ Woken(cs, r, at)[d].target = cs[d].target
                 /\ \/ Woken(cs, r, at)[d] = cs[d]
                    \/ cs[d].at = "dial" /\ cs[d].target = r /\ Woken(cs, r, at)[d].at = at
<1> DEFINE one(d) == [at |-> at, gen |-> cs[d].gen, target |-> cs[d].target, same |-> cs[d].same]
<1>1. \A d \in Calls : /\ cs[d] \in CallType /\ one(d) \in CallType
                       /\ one(d) = [cs[d] EXCEPT !.at = at]
                       /\ one(d).at = at /\ one(d).gen = cs[d].gen /\ one(d).target = cs[d].target
  BY DEF CallType
<1>2. Woken(cs, r, at) = [d \in Calls |-> IF cs[d].at = "dial" /\ cs[d].target = r
                                          THEN one(d) ELSE cs[d]]
  BY <1>1 DEF Woken
<1> HIDE DEF one
<1>3. QED
  BY <1>1, <1>2

(* A Room is closed, and the call awaits that.                               *)
LEMMA RoomReleased ==
    ASSUME StableFields, CurrentRoom, NEW r \in {0} \cup RoomIds, Release(r)
    PROVE  /\ room' = (IF r = room THEN 0 ELSE room) /\ room' \in {0} \cup RoomIds
           /\ link' \in [RoomIds -> Links] /\ CurrentRoom'
<1>1. 0 \notin RoomIds
  BY DEF RoomIds
<1>2. link \in [RoomIds -> Links] /\ room \in {0} \cup RoomIds
  BY DEF StableFields
<1>3. CASE r = 0
  BY <1>1, <1>2, <1>3 DEF Release, CurrentRoom
<1>4. CASE r # 0
  <2>1. link' = [link EXCEPT ![r] = "gone"] /\ r \in RoomIds /\ "gone" \in Links
    BY <1>4 DEF Release, Links
  <2>2. link' \in [RoomIds -> Links] /\ link'[r] = "gone"
    BY <1>2, <2>1
  <2>3. \A x \in RoomIds \ {r} : link'[x] = link[x]
    BY <1>2, <2>1
  <2>4. room' = (IF r = room THEN 0 ELSE room)
    BY DEF Release
  <2>5. CurrentRoom'
    BY <2>2, <2>3, <2>4 DEF CurrentRoom
  <2>6. QED
    BY <1>2, <2>2, <2>4, <2>5
<1>5. QED
  BY <1>3, <1>4

LEMMA ReleasedThen ==
    ASSUME StableFields, CurrentRoom, NEW c \in Calls, NEW r \in {0} \cup RoomIds,
           NEW at \in Leaving, NEW state \in Off, generation' \in Nat, ReleaseThen(c, r, at, state)
    PROVE  /\ room' = (IF r = room THEN 0 ELSE room) /\ room' \in {0} \cup RoomIds
           /\ link' \in [RoomIds -> Links] /\ CurrentRoom'
           /\ calls' \in [Calls -> CallType] /\ connection' \in {connection, state}
           /\ \/ calls'[c].at = "none" /\ calls'[c].gen = 0
              \/ calls'[c].at = at /\ calls'[c].gen = generation'
           /\ \A d \in Calls \ {c} : Kept(d, "broken")
<1>1. Release(r)
  BY DEF ReleaseThen
<1>2. at \in CallStates \ {"dial"}
  BY DEF Leaving, CallStates
<1>3. CASE r = 0
  <2>1. calls' = [calls EXCEPT ![c] = NoCall] /\ connection' = state
    BY <1>3 DEF ReleaseThen
  <2>2. QED
    BY <1>1, <2>1, RoomReleased, OneEnds DEF Kept
<1>4. CASE r # 0
  <2> DEFINE new == [at |-> at, gen |-> generation', target |-> r, same |-> calls[c].same]
             cs == [calls EXCEPT ![c] = new]
  <2>1. calls \in [Calls -> CallType] /\ calls[c] \in CallType
    BY DEF StableFields, CallType
  <2>2. new \in CallType /\ new.at = at /\ new.gen = generation' /\ new.target = r
    BY <1>2, <2>1 DEF CallType
  <2>3. cs = [calls EXCEPT ![c].at = at, ![c].target = r, ![c].gen = generation']
    BY <2>1 DEF CallType
  <2>4. calls' = Woken(cs, r, "broken") /\ connection' = connection
    BY <1>4, <2>3 DEF ReleaseThen
  <2> HIDE DEF new
  <2>5. cs \in [Calls -> CallType] /\ cs[c] = new /\ \A d \in Calls \ {c} : cs[d] = calls[d]
    BY <2>1, <2>2
  <2> HIDE DEF cs
  <2>6. "broken" \in CallStates
    BY DEF CallStates
  <2>7. /\ calls' \in [Calls -> CallType]
        /\ \A d \in Calls :
              /\ calls'[d].gen = cs[d].gen /\ calls'[d].target = cs[d].target
              /\ calls'[d] = cs[d] \/ (cs[d].at = "dial" /\ calls'[d].at = "broken")
    BY <2>4, <2>5, <2>6, WokenCalls
  <2>8. calls'[c].at = at /\ calls'[c].gen = generation'
    BY <1>2, <2>2, <2>5, <2>7
  <2>9. \A d \in Calls \ {c} : Kept(d, "broken")
    BY <2>5, <2>7 DEF Kept
  <2>10. QED
    BY <1>1, <2>4, <2>7, <2>8, <2>9, RoomReleased
<1>5. QED
  BY <1>3, <1>4

(* A step after which no other call is the newest, and the Room is given up. *)
LEMMA Leaves ==
    ASSUME StableInv, NEW c \in Calls, NEW at \in Leaving, NEW state \in Off,
           generation' = generation + 1, UNCHANGED late,
           phase' \in 1 .. Len(Phases), screen' \in 1 .. Len(Phases),
           ReleaseThen(c, room, at, state)
    PROVE  StableInv'
<1>1. /\ StableFields /\ CurrentRoom /\ room \in {0} \cup RoomIds /\ generation' \in Nat
      /\ \A d \in Calls : calls[d].gen \in Nat /\ calls[d].gen <= generation
  BY DEF StableInv, StableFields, GenerationsApart, CallType
<1>2. /\ room' = 0 /\ link' \in [RoomIds -> Links] /\ CurrentRoom'
      /\ calls' \in [Calls -> CallType] /\ connection' \in {connection, state}
      /\ \/ calls'[c].at = "none" /\ calls'[c].gen = 0
         \/ calls'[c].at = at /\ calls'[c].gen = generation'
      /\ \A d \in Calls \ {c} : Kept(d, "broken")
  BY <1>1, ReleasedThen
<1>3. StableFields'
  BY <1>1, <1>2 DEF StableFields, CallType
<1>4. generation \in Nat /\ \A d \in Calls \ {c} : calls'[d].gen < generation'
  BY <1>1, <1>2 DEF StableFields, Kept
<1>5. \A d \in Calls : Newest(d)' => d = c /\ calls'[d].at \in Leaving
  BY <1>2, <1>4 DEF Newest
<1>6. GenerationsApart'
  <2>1. calls'[c].gen <= generation'
    BY <1>1, <1>2
  <2>2. \A d \in Calls \ {c} : calls'[d].gen <= generation'
    BY <1>1, <1>2, <1>4 DEF CallType
  <2>3. QED
    BY <1>5, <2>1, <2>2 DEF GenerationsApart
<1>7. NewestHasRoom'
  BY <1>2, <1>5 DEF NewestHasRoom
<1>8. OutAsShown'
  BY <1>2, <1>5 DEF OutAsShown, Out, Joining, Newest, Leaving
<1>9. QED
  BY <1>2, <1>3, <1>6, <1>7, <1>8 DEF StableInv

(* A new call begins to connect.                                             *)
LEMMA Connects ==
    ASSUME StableInv, NEW c \in Calls, BeginConnect(c), UNCHANGED late,
           phase' \in 1 .. Len(Phases), screen' \in 1 .. Len(Phases), ~Silent(screen')
    PROVE  StableInv'
<1>1. /\ StableFields /\ CurrentRoom /\ generation \in Nat
      /\ \A d \in Calls : calls[d].gen \in Nat /\ calls[d].gen <= generation
  BY DEF StableInv, StableFields, GenerationsApart, CallType
<1> DEFINE new == [at |-> "access", gen |-> generation', target |-> 0,
                   same |-> connection = "connected" /\ named]
<1>2. /\ generation' = generation + 1 /\ connection' = "connecting"
      /\ calls' = [calls EXCEPT ![c] = new] /\ UNCHANGED <<room, link>>
  BY DEF BeginConnect
<1>3. new \in CallType /\ new.at = "access" /\ new.gen = generation' /\ new.target = 0
  BY <1>1, <1>2 DEF CallType, CallStates
<1> HIDE DEF new
<1>4. calls' \in [Calls -> CallType] /\ calls'[c] = new /\ \A d \in Calls \ {c} : calls'[d] = calls[d]
  BY <1>1, <1>2, <1>3, OneMoves
<1>5. StableFields'
  BY <1>1, <1>2, <1>4 DEF StableFields, CallType
<1>6. \A d \in Calls : Newest(d)' => d = c
  BY <1>1, <1>2, <1>4 DEF Newest
<1>7. GenerationsApart'
  BY <1>1, <1>2, <1>3, <1>4, <1>6 DEF GenerationsApart
<1>8. NewestHasRoom'
  BY <1>3, <1>4, <1>6 DEF NewestHasRoom, Leaving
<1>9. OutAsShown'
  BY <1>2 DEF OutAsShown, Off
<1>10. CurrentRoom'
  BY <1>1, <1>2 DEF CurrentRoom
<1>11. QED
  BY <1>5, <1>7, <1>8, <1>9, <1>10 DEF StableInv

(* A step of calls under way: none becomes the newest or begins to join.     *)
Follows(d) ==
    Newest(d)' =>
        /\ Newest(d)
        /\ calls'[d].at \in AudioJoined => calls[d].at \in AudioJoined
        /\ calls'[d].at \in Leaving => calls[d].at \in Leaving \/ room' = 0
        /\ calls'[d].target # 0 => room' \in {0, calls'[d].target}

LEMMA GoesOn ==
    ASSUME StableInv, StableFields', CurrentRoom', UNCHANGED generation,
           screen' = screen, late => late',
           \A d \in Calls : Follows(d),
           \A d \in Calls : calls'[d].gen <= generation,
           \A d \in Calls : Newest(d) /\ calls[d].at \in Leaving => room' = 0,
           ~late' /\ connection' \in Off /\ connection \notin Off => Out',
           ~late' /\ Out => room' = 0
    PROVE  StableInv'
<1>1. GenerationsApart'
  BY DEF StableInv, GenerationsApart, Follows
<1>2. NewestHasRoom'
  BY DEF StableInv, NewestHasRoom, Follows
<1>3. ~Joining => ~Joining'
  BY DEF Joining, Follows, Newest, AudioJoined
<1>4. OutAsShown'
  BY <1>3 DEF StableInv, OutAsShown, Out
<1>5. QED
  BY <1>1, <1>2, <1>4 DEF StableInv

(* One call goes on without leaving or joining anew.                         *)
LEMMA CallGoesTo ==
    ASSUME StableInv, NEW c \in Calls, NEW at \in CallStates,
           calls' = [calls EXCEPT ![c].at = at],
           at \in AudioJoined => calls[c].at \in AudioJoined, at \notin Leaving,
           calls[c].at # "none",
           UNCHANGED <<phase, screen, connection, room, link, generation, late>>
    PROVE  StableInv'
<1>1. StableFields /\ CurrentRoom
  BY DEF StableInv
<1>2. /\ calls' \in [Calls -> CallType] /\ calls'[c].at = at
      /\ calls'[c].gen = calls[c].gen /\ calls'[c].target = calls[c].target
      /\ \A d \in Calls \ {c} : calls'[d] = calls[d]
  BY <1>1, OneGoesTo
<1>3. StableFields' /\ CurrentRoom'
  BY <1>1, <1>2 DEF StableFields, CurrentRoom, CallType
<1>4. \A d \in Calls : Follows(d)
  BY <1>2 DEF StableInv, NewestHasRoom, Follows, Newest
<1>5. \A d \in Calls : calls'[d].gen <= generation
  BY <1>2 DEF StableInv, GenerationsApart
<1>6. \A d \in Calls : Newest(d) /\ calls[d].at \in Leaving => room' = 0
  BY DEF StableInv, NewestHasRoom
<1>7. QED
  BY <1>3, <1>4, <1>5, <1>6, GoesOn DEF Out

(* One call ends.                                                            *)
LEMMA CallEnds ==
    ASSUME StableInv, NEW c \in Calls, calls' = [calls EXCEPT ![c] = NoCall],
           connection' \in Off \cup {"connecting", "connected", "reconnecting"},
           late' \in BOOLEAN, late => late',
           ~late' /\ connection' \in Off /\ connection \notin Off =>
                Newest(c) /\ calls[c].at \in Leaving,
           UNCHANGED <<phase, screen, room, link, generation>>
    PROVE  StableInv'
<1>1. StableFields /\ CurrentRoom
  BY DEF StableInv
<1>2. /\ calls' \in [Calls -> CallType] /\ calls'[c].at = "none" /\ calls'[c].gen = 0
      /\ \A d \in Calls \ {c} : calls'[d] = calls[d]
  BY <1>1, OneEnds
<1>3. StableFields' /\ CurrentRoom'
  BY <1>1, <1>2 DEF StableFields, CurrentRoom, CallType
<1>4. \A d \in Calls : Follows(d)
  BY <1>2 DEF StableInv, NewestHasRoom, Follows, Newest
<1>5. \A d \in Calls : calls'[d].gen <= generation
  BY <1>1, <1>2 DEF StableInv, GenerationsApart, StableFields
<1>6. \A d \in Calls : Newest(d) /\ calls[d].at \in Leaving => room' = 0
  BY DEF StableInv, NewestHasRoom
<1>7. Newest(c) => ~Joining'
  BY <1>2 DEF StableInv, GenerationsApart, Newest, Joining
<1>8. ~late' /\ connection' \in Off /\ connection \notin Off => Out'
  BY <1>6, <1>7 DEF Out
<1>9. QED
  BY <1>3, <1>4, <1>5, <1>6, <1>8, GoesOn DEF Out

LEMMA AskStep == ASSUME StableInv, NEW c \in Calls, Ask(c) PROVE StableInv'
<1>1. /\ calls[c].at = "access"
      /\ \E at \in {"granted", "broken"} : calls' = [calls EXCEPT ![c].at = at]
      /\ UNCHANGED <<phase, screen, connection, room, link, generation, late>>
  BY DEF Ask
<1>2. PICK at \in {"granted", "broken"} : calls' = [calls EXCEPT ![c].at = at]
  BY <1>1
<1>3. at \in CallStates /\ at \notin Leaving /\ calls[c].at \in AudioJoined
  BY <1>1 DEF CallStates, Leaving, AudioJoined
<1>4. QED
  BY <1>1, <1>2, <1>3, CallGoesTo

LEMMA MicrophoneStep ==
    ASSUME StableInv, NEW c \in Calls, MicrophoneSet(c) \/ MicrophoneFails(c)
    PROVE  StableInv'
<1>1. CASE MicrophoneSet(c)
  <2>1. /\ calls' = [calls EXCEPT ![c] = NoCall] /\ connection' = "connected"
        /\ UNCHANGED <<phase, screen, room, link, generation, late>>
    BY <1>1 DEF MicrophoneSet
  <2>2. connection' \notin Off /\ late' \in BOOLEAN
    BY <2>1 DEF Off, StableInv, StableFields
  <2>3. QED
    BY <2>1, <2>2, CallEnds
<1>2. CASE MicrophoneFails(c)
  <2>1. /\ calls' = [calls EXCEPT ![c].at = "broken"] /\ calls[c].at = "microphone"
        /\ UNCHANGED <<phase, screen, connection, room, link, generation, late>>
    BY <1>2 DEF MicrophoneFails
  <2>2. "broken" \in CallStates /\ "broken" \notin Leaving /\ "broken" \notin AudioJoined
    BY DEF CallStates, Leaving, AudioJoined
  <2>3. QED
    BY <2>1, <2>2, CallGoesTo
<1>3. QED
  BY <1>1, <1>2

LEMMA ReleasedStep == ASSUME StableInv, NEW c \in Calls, Released(c) PROVE StableInv'
<1>1. /\ calls[c].at \in {"superseded", "failed", "leaving", "expired"}
      /\ calls' = [calls EXCEPT ![c] = NoCall]
      /\ UNCHANGED <<phase, screen, room, link, generation>>
      /\ late' = (late \/ (calls[c].at # "superseded" /\ calls[c].gen # generation))
  BY DEF Released
<1>2. /\ connection' \in Off \cup {"connecting", "connected", "reconnecting"}
      /\ calls[c].at = "superseded" => connection' = connection
  BY DEF Released, Off, StableInv, StableFields
<1>3. late' \in BOOLEAN /\ (late => late')
  BY <1>1
<1>4. ~late' /\ connection' \in Off /\ connection \notin Off => Newest(c) /\ calls[c].at \in Leaving
  BY <1>1, <1>2 DEF Newest, Leaving
<1>5. QED
  BY <1>1, <1>2, <1>3, <1>4, CallEnds

LEMMA BrokenStep == ASSUME StableInv, NEW c \in Calls, Broken(c) PROVE StableInv'
<1> DEFINE r == IF calls[c].target = 0 THEN room ELSE calls[c].target
<1>1. calls[c].at = "broken" /\ UNCHANGED <<phase, screen, generation, late>>
  BY DEF Broken
<1>2. StableFields /\ CurrentRoom /\ late' \in BOOLEAN
  BY <1>1 DEF StableInv, StableFields
<1>3. CASE calls[c].gen = generation
  <2>1. ReleaseThen(c, r, "failed", "disconnected") /\ Newest(c)
    BY <1>1, <1>3 DEF Broken, Newest
  <2>2. r \in {0} \cup RoomIds /\ (r = room \/ room = 0)
    BY <2>1 DEF StableInv, StableFields, NewestHasRoom
  <2> HIDE DEF r
  <2>3. "failed" \in Leaving /\ "disconnected" \in Off /\ generation' \in Nat
    BY <1>1 DEF Leaving, Off, StableInv, StableFields
  <2>4. /\ room' = (IF r = room THEN 0 ELSE room) /\ room' \in {0} \cup RoomIds
        /\ link' \in [RoomIds -> Links] /\ CurrentRoom'
        /\ calls' \in [Calls -> CallType] /\ connection' \in {connection, "disconnected"}
        /\ \/ calls'[c].at = "none" /\ calls'[c].gen = 0
           \/ calls'[c].at = "failed" /\ calls'[c].gen = generation'
        /\ \A d \in Calls \ {c} : Kept(d, "broken")
    BY <1>2, <2>1, <2>2, <2>3, ReleasedThen
  <2>5. room' = 0
    BY <2>2, <2>4
  <2>6. StableFields'
    BY <1>1, <1>2, <2>3, <2>4 DEF StableFields, CallType
  <2>7. \A d \in Calls : Newest(d)' => d = c /\ calls'[d].at = "failed"
    BY <1>1, <2>1, <2>4 DEF Newest, Kept, StableInv, GenerationsApart
  <2>8. \A d \in Calls : Follows(d)
    BY <2>1, <2>5, <2>7 DEF Follows, AudioJoined
  <2>9. \A d \in Calls : calls'[d].gen <= generation
    BY <1>1, <1>2, <2>4 DEF StableInv, GenerationsApart, Kept, StableFields
  <2>10. Out'
    BY <2>5, <2>7 DEF Out, Joining, Newest
  <2>11. QED
    BY <1>1, <2>4, <2>5, <2>6, <2>8, <2>9, <2>10, GoesOn
<1>4. CASE calls[c].gen # generation
  <2>1. calls' = [calls EXCEPT ![c] = NoCall] /\ UNCHANGED <<connection, room, link>>
    BY <1>4 DEF Broken
  <2>2. connection' \in Off \cup {"connecting", "connected", "reconnecting"}
    BY <1>2, <2>1 DEF StableFields
  <2>3. QED
    BY <1>1, <1>2, <2>1, <2>2, CallEnds
<1>5. QED
  BY <1>3, <1>4

\* What a call that goes on at another promise for another Room keeps.
LEMMA TwoFields == ASSUME NEW call \in CallType, NEW r \in {0} \cup RoomIds, NEW at \in CallStates
    PROVE [call EXCEPT !.target = r, !.at = at] = [at |-> at, gen |-> call.gen, target |-> r, same |-> call.same]
<1> DEFINE one == [call EXCEPT !.target = r]
<1>1. one \in CallType
  BY DEF CallType
<1>2. one = [at |-> call.at, gen |-> call.gen, target |-> r, same |-> call.same]
  BY DEF CallType
<1>3. one.gen = call.gen /\ one.target = r /\ one.same = call.same
  BY <1>2
<1> HIDE DEF one
<1>4. [one EXCEPT !.at = at] = [at |-> at, gen |-> one.gen, target |-> one.target, same |-> one.same]
  BY <1>1 DEF CallType
<1>5. [one EXCEPT !.at = at] = [at |-> at, gen |-> call.gen, target |-> r, same |-> call.same]
  BY <1>3, <1>4
<1>6. QED
  BY <1>5 DEF one

LEMMA GrantedStep == ASSUME StableInv, NEW c \in Calls, Granted(c) PROVE StableInv'
<1>1. /\ calls[c].at = "granted"
      /\ UNCHANGED <<phase, screen, connection, generation, late>>
  BY DEF Granted
<1>2. StableFields /\ CurrentRoom /\ late' \in BOOLEAN
  BY <1>1 DEF StableInv, StableFields
<1>3. CASE calls[c].gen # generation
  <2>1. calls' = [calls EXCEPT ![c] = NoCall] /\ UNCHANGED <<room, link>>
    BY <1>3 DEF Granted
  <2>2. connection' \in Off \cup {"connecting", "connected", "reconnecting"}
    BY <1>1, <1>2 DEF StableFields
  <2>3. QED
    BY <1>1, <1>2, <2>1, <2>2, CallEnds
<1>4. CASE calls[c].gen = generation
  <2>1. PICK r \in RoomIds, at \in {"microphone", "dialled", "dial"} :
            /\ room # 0 => r = room
            /\ room' = r /\ link' = (IF r = room THEN link ELSE [link EXCEPT ![r] = "new"])
            /\ calls' = [calls EXCEPT ![c].target = r, ![c].at = at]
    <3> DEFINE r == IF room # 0 THEN room
                    ELSE Cardinality({i \in RoomIds : link[i] # "unused"}) + 1
               at == IF calls[c].same THEN "microphone"
                     ELSE IF r \in Live THEN "dialled" ELSE "dial"
    <3>1. /\ r \in RoomIds
          /\ room # 0 => r = room
          /\ room' = r /\ link' = (IF r = room THEN link ELSE [link EXCEPT ![r] = "new"])
          /\ calls' = [calls EXCEPT ![c].target = r, ![c].at = at]
      BY <1>4 DEF Granted
    <3>2. at \in {"microphone", "dialled", "dial"}
      OBVIOUS
    <3> HIDE DEF r, at
    <3>3. QED
      BY <3>1, <3>2
  <2> DEFINE new == [at |-> at, gen |-> calls[c].gen, target |-> r, same |-> calls[c].same]
  <2>2. calls[c] \in CallType /\ at \in CallStates /\ at \in AudioJoined /\ at \notin Leaving
    BY <1>2 DEF StableFields, CallType, CallStates, AudioJoined, Leaving
  <2>3. new \in CallType /\ new.at = at /\ new.gen = calls[c].gen /\ new.target = r
    BY <2>2 DEF CallType
  <2>4. calls' = [calls EXCEPT ![c] = new]
    <3>1. calls \in [Calls -> CallType]
      BY <1>2 DEF StableFields, CallType
    <3>2. new = [calls[c] EXCEPT !.target = r, !.at = at]
      BY <2>1, <2>2, TwoFields
    <3>3. [calls EXCEPT ![c].target = r, ![c].at = at] = [calls EXCEPT ![c] = new]
      BY <3>1, <3>2
    <3>4. QED
      BY <2>1, <3>3
  <2> HIDE DEF new
  <2>5. calls' \in [Calls -> CallType] /\ calls'[c] = new /\ \A d \in Calls \ {c} : calls'[d] = calls[d]
    BY <1>2, <2>3, <2>4, OneMoves
  <2>6. link' \in [RoomIds -> Links] /\ CurrentRoom'
    <3>1. CASE r = room
      BY <1>2, <2>1, <3>1 DEF StableFields, CurrentRoom
    <3>2. CASE r # room
      <4>1. room = 0 /\ \A x \in RoomIds : link[x] \notin {"new", "up", "shaky"}
        BY <1>2, <2>1, <3>2 DEF CurrentRoom, RoomIds
      <4>2. link' = [link EXCEPT ![r] = "new"] /\ link \in [RoomIds -> Links] /\ "new" \in Links
        BY <1>2, <2>1, <3>2 DEF StableFields, Links
      <4>3. QED
        BY <2>1, <4>1, <4>2 DEF CurrentRoom
    <3>3. QED
      BY <3>1, <3>2
  <2>7. StableFields'
    BY <1>1, <1>2, <2>1, <2>5, <2>6 DEF StableFields, CallType
  <2>8. Newest(c) /\ \A d \in Calls : Newest(d) => d = c
    BY <1>1, <1>4 DEF StableInv, GenerationsApart, Newest
  <2>9. \A d \in Calls : Newest(d)' => d = c
    BY <1>1, <2>5, <2>8 DEF Newest
  <2>10. \A d \in Calls : Follows(d)
    BY <1>1, <2>1, <2>2, <2>3, <2>5, <2>8, <2>9 DEF Follows, AudioJoined
  <2>11. \A d \in Calls : calls'[d].gen <= generation
    BY <2>3, <2>5 DEF StableInv, GenerationsApart
  <2>12. ~Out
    BY <1>1, <2>8 DEF Out, Joining, Newest
  <2>13. \A d \in Calls : ~(Newest(d) /\ calls[d].at \in Leaving)
    BY <1>1, <2>8 DEF Leaving
  <2>14. QED
    BY <1>1, <2>6, <2>7, <2>10, <2>11, <2>12, <2>13, GoesOn
<1>5. QED
  BY <1>3, <1>4

(* Calls that waited for the connection of a Room hear of it.                *)
LEMMA LinkStep ==
    ASSUME StableInv, NEW r \in RoomIds, LinkUp(r) \/ LinkFails(r) PROVE StableInv'
<1>1. /\ link[r] = "new" /\ UNCHANGED <<phase, screen, room, generation, late>>
      /\ \E next \in {"dialled", "broken"} : calls' = Woken(calls, r, next)
      /\ connection' \in {connection, "connected"}
      /\ link' = link \/ link' = [link EXCEPT ![r] = "up"]
  BY DEF LinkUp, LinkFails
<1>2. StableFields /\ CurrentRoom /\ calls \in [Calls -> CallType]
  BY DEF StableInv, StableFields, CallType
<1>3. PICK next \in {"dialled", "broken"} : calls' = Woken(calls, r, next)
  BY <1>1
<1>4. next \in CallStates /\ next \notin Leaving /\ "dial" \in AudioJoined
  BY DEF CallStates, Leaving, AudioJoined
<1>5. /\ calls' \in [Calls -> CallType]
      /\ \A d \in Calls :
            /\ calls'[d].gen = calls[d].gen /\ calls'[d].target = calls[d].target
            /\ calls'[d] = calls[d] \/ (calls[d].at = "dial" /\ calls'[d].at = next)
  BY <1>2, <1>3, <1>4, WokenCalls
<1>6. link' \in [RoomIds -> Links] /\ CurrentRoom'
  BY <1>1, <1>2 DEF StableFields, CurrentRoom, Links
<1>7. StableFields'
  BY <1>1, <1>2, <1>5, <1>6 DEF StableFields, CallType
<1>8. \A d \in Calls : Follows(d)
  <2>1. \A d \in Calls : Newest(d)' => Newest(d)
    BY <1>1, <1>5 DEF Newest
  <2>2. \A d \in Calls : Newest(d) /\ calls[d].target # 0 => room \in {0, calls[d].target}
    BY DEF StableInv, NewestHasRoom
  <2>3. QED
    BY <1>1, <1>4, <1>5, <2>1, <2>2 DEF Follows
<1>9. \A d \in Calls : calls'[d].gen <= generation
  BY <1>5 DEF StableInv, GenerationsApart
<1>10. \A d \in Calls : Newest(d) /\ calls[d].at \in Leaving => room' = 0
  BY <1>1 DEF StableInv, NewestHasRoom
<1>11. connection' \in Off => connection \in Off
  BY <1>1 DEF Off
<1>12. QED
  BY <1>1, <1>6, <1>7, <1>8, <1>9, <1>10, <1>11, GoesOn DEF Out

LEMMA DialledStep == ASSUME StableInv, NEW c \in Calls, Dialled(c) PROVE StableInv'
<1>1. /\ calls[c].at = "dialled"
      /\ UNCHANGED <<phase, screen, connection, generation, late>>
  BY DEF Dialled
<1>2. StableFields /\ CurrentRoom /\ calls \in [Calls -> CallType] /\ calls[c] \in CallType
  BY DEF StableInv, StableFields, CallType
<1>3. CASE calls[c].gen = generation
  <2>1. calls' = [calls EXCEPT ![c].at = "microphone"] /\ UNCHANGED <<room, link>>
    BY <1>3 DEF Dialled
  <2>2. "microphone" \in CallStates /\ "microphone" \notin Leaving /\ calls[c].at \in AudioJoined
    BY <1>1 DEF CallStates, Leaving, AudioJoined
  <2>3. QED
    BY <1>1, <2>1, <2>2, CallGoesTo
<1>4. CASE calls[c].gen # generation
  <2> DEFINE r == calls[c].target
             cs == [calls EXCEPT ![c].at = "superseded"]
             new == [calls[c] EXCEPT !.at = "superseded"]
  <2>1. Release(r) /\ calls' = Woken(cs, r, "broken") /\ r \in {0} \cup RoomIds
    BY <1>2, <1>4 DEF Dialled, CallType
  <2>2. new \in CallType /\ new.at = "superseded" /\ new.gen = calls[c].gen /\ new.target = r
    BY <1>2 DEF CallType, CallStates
  <2>3. cs \in [Calls -> CallType] /\ cs[c] = new /\ \A d \in Calls \ {c} : cs[d] = calls[d]
    BY <1>2, <2>2
  <2> HIDE DEF cs, new
  <2>4. "broken" \in CallStates /\ "broken" \notin Leaving /\ "broken" \notin AudioJoined
    BY DEF CallStates, Leaving, AudioJoined
  <2>5. /\ calls' \in [Calls -> CallType]
        /\ \A d \in Calls :
              /\ calls'[d].gen = cs[d].gen /\ calls'[d].target = cs[d].target
              /\ calls'[d] = cs[d] \/ (cs[d].at = "dial" /\ calls'[d].at = "broken")
    BY <2>1, <2>3, <2>4, WokenCalls
  <2> HIDE DEF r
  <2>6. /\ room' = (IF r = room THEN 0 ELSE room) /\ room' \in {0} \cup RoomIds
        /\ link' \in [RoomIds -> Links] /\ CurrentRoom'
    BY <1>2, <2>1, RoomReleased
  <2>7. StableFields'
    BY <1>1, <1>2, <2>5, <2>6 DEF StableFields, CallType
  <2>8. \A d \in Calls : Newest(d)' => d # c /\ Newest(d)
    BY <1>1, <1>4, <2>2, <2>3, <2>5 DEF Newest
  <2>9. \A d \in Calls : Newest(d) /\ calls[d].target # 0 => room \in {0, calls[d].target}
    BY DEF StableInv, NewestHasRoom
  <2>10. \A d \in Calls : Follows(d)
    BY <2>3, <2>4, <2>5, <2>6, <2>8, <2>9 DEF Follows
  <2>11. \A d \in Calls : calls'[d].gen <= generation
    BY <2>2, <2>3, <2>5 DEF StableInv, GenerationsApart
  <2>12. \A d \in Calls : Newest(d) /\ calls[d].at \in Leaving => room' = 0
    BY <2>6 DEF StableInv, NewestHasRoom
  <2>13. QED
    BY <1>1, <2>6, <2>7, <2>10, <2>11, <2>12, GoesOn DEF Out
<1>5. QED
  BY <1>3, <1>4

(* The network disturbs, restores or ends the connection of a Room.          *)
LEMMA NetworkStep ==
    ASSUME StableInv, NEW r \in RoomIds, Reconnecting(r) \/ Reconnected(r) \/ Disconnected(r)
    PROVE  StableInv'
<1>1. /\ UNCHANGED <<phase, screen, generation, calls>> /\ link[r] \in {"up", "shaky"}
      /\ \E state \in {"shaky", "up", "gone"} : link' = [link EXCEPT ![r] = state]
  BY DEF Reconnecting, Reconnected, Disconnected, Live
<1>2. r = room /\ StableFields /\ CurrentRoom /\ room # 0
  BY <1>1 DEF StableInv, CurrentRoom, RoomIds
<1>3. \/ room' = room /\ connection' \in {"reconnecting", "connected"} /\ late' = late
         /\ link'[r] \in {"shaky", "up"}
      \/ room' = 0 /\ connection' = "disconnected" /\ late' = (late \/ Joining) /\ link'[r] = "gone"
  BY <1>2 DEF Reconnecting, Reconnected, Disconnected, StableFields
<1>4. link' \in [RoomIds -> Links] /\ \A x \in RoomIds \ {r} : link'[x] = link[x]
  BY <1>1, <1>2 DEF StableFields, Links
<1>5. CurrentRoom'
  BY <1>2, <1>3, <1>4 DEF CurrentRoom
<1>6. StableFields'
  BY <1>1, <1>2, <1>3, <1>4 DEF StableFields, Off
<1>7. \A d \in Calls : Follows(d)
  BY <1>1, <1>3 DEF StableInv, NewestHasRoom, Follows, Newest
<1>8. \A d \in Calls : calls'[d].gen <= generation
  BY <1>1 DEF StableInv, GenerationsApart
<1>9. \A d \in Calls : Newest(d) /\ calls[d].at \in Leaving => room' = 0
  BY <1>3 DEF StableInv, NewestHasRoom
<1>10. ~late' /\ connection' \in Off => Out'
  BY <1>1, <1>3 DEF Off, Out, Joining
<1>11. ~Out
  BY <1>2 DEF Out
<1>12. late => late'
  BY <1>3
<1>13. QED
  BY <1>1, <1>5, <1>6, <1>7, <1>8, <1>9, <1>10, <1>11, <1>12, GoesOn

(* The participant, the page and the timer.                                  *)
LEMMA PageStep ==
    ASSUME StableInv, NEW c \in Calls, Join(c) \/ Leave(c) \/ Sync(c) \/ Expire(c)
    PROVE  StableInv'
<1>1. /\ phase' = phase /\ UNCHANGED late
      /\ phase \in 1 .. Len(Phases) /\ screen \in 1 .. Len(Phases) /\ room \in {0} \cup RoomIds
  BY DEF Join, Leave, Sync, Expire, StableInv, StableFields
<1>2. {"leaving", "expired"} \subseteq Leaving /\ {"disconnected", "reconnect_failed"} = Off
  BY DEF Leaving, Off
<1>3. CASE Join(c)
  <2>1. BeginConnect(c) /\ screen' = screen /\ Phases[screen] \in AUDIO_PHASES
    BY <1>3 DEF Join
  <2>2. QED
    BY <1>1, <2>1, AudioIsHeard, Connects
<1>4. CASE Leave(c)
  <2>1. /\ generation' = generation + 1 /\ screen' = screen
        /\ ReleaseThen(c, room, "leaving", "disconnected")
    BY <1>4 DEF Leave, BeginLeave
  <2>2. QED
    BY <1>1, <1>2, <2>1, Leaves
<1>5. CASE Expire(c)
  <2>1. /\ generation' = generation + 1 /\ screen' = screen
        /\ ReleaseThen(c, room, "expired", "reconnect_failed")
    BY <1>5 DEF Expire
  <2>2. QED
    BY <1>1, <1>2, <2>1, Leaves
<1>6. CASE Sync(c)
  <2>1. screen' = phase
    BY <1>6 DEF Sync
  <2>2. CASE BeginConnect(c) /\ Phases[phase] \in AUDIO_PHASES
    BY <1>1, <2>1, <2>2, AudioIsHeard, Connects
  <2>3. CASE BeginLeave(c)
    <3>1. generation' = generation + 1 /\ ReleaseThen(c, room, "leaving", "disconnected")
      BY <2>3 DEF BeginLeave
    <3>2. QED
      BY <1>1, <1>2, <2>1, <3>1, Leaves
  <2>4. CASE /\ connection \in Off \/ Bridges(phase) \/ Phases[phase] \in AUDIO_PHASES
             /\ UNCHANGED <<connection, room, link, generation, calls>>
    <3>1. connection \in Off \/ ~Silent(screen')
      BY <2>1, <2>4 DEF Silent
    <3>2. StableFields' /\ CurrentRoom' /\ GenerationsApart' /\ NewestHasRoom'
      BY <1>1, <2>1, <2>4 DEF StableInv, StableFields, CurrentRoom, GenerationsApart,
         NewestHasRoom, Newest
    <3>3. OutAsShown'
      BY <1>1, <2>4, <3>1 DEF StableInv, OutAsShown, Out, Joining
    <3>4. QED
      BY <3>2, <3>3 DEF StableInv
  <2>5. QED
    BY <1>6, <2>2, <2>3, <2>4 DEF Sync
<1>7. QED
  BY <1>3, <1>4, <1>5, <1>6

LEMMA AdvanceStep == ASSUME StableInv, Advance PROVE StableInv'
<1>1. /\ UNCHANGED <<screen, connection, room, link, generation, calls, late>>
      /\ phase < Len(Phases) /\ phase' = phase + 1
  BY DEF Advance
<1>2. phase' \in 1 .. Len(Phases)
  BY <1>1, FivePhases DEF StableInv, StableFields
<1>3. StableFields' /\ CurrentRoom' /\ GenerationsApart' /\ NewestHasRoom'
  BY <1>1, <1>2 DEF StableInv, StableFields, CurrentRoom, GenerationsApart, NewestHasRoom, Newest
<1>4. OutAsShown'
  BY <1>1 DEF StableInv, OutAsShown, Out, Joining
<1>5. QED
  BY <1>3, <1>4 DEF StableInv

LEMMA StableNextInvariant == StableInv /\ [StableNext]_stableVars => StableInv'
<1> SUFFICES ASSUME StableInv, [StableNext]_stableVars PROVE StableInv'
  OBVIOUS
<1>1. CASE UNCHANGED stableVars
  BY <1>1 DEF stableVars, StableInv, StableFields, CurrentRoom, GenerationsApart, NewestHasRoom,
     Newest, OutAsShown, Out, Joining
<1>2. CASE StableNext
  BY <1>2, AdvanceStep, PageStep, AskStep, GrantedStep, BrokenStep, DialledStep,
     MicrophoneStep, ReleasedStep, LinkStep, NetworkStep DEF StableNext
<1>3. QED
  BY <1>1, <1>2

LEMMA StableInvariantSuffices == StableInv => AudioFollowsPage
<1> SUFFICES ASSUME StableInv PROVE AudioFollowsPage
  OBVIOUS
<1>1. StableTypeOK
  BY DEF StableInv, StableFields, GenerationsApart, StableTypeOK
<1>2. OneRoom
  BY DEF StableInv, CurrentRoom, OneRoom, Live
<1>3. room = 0 => Live = {}
  BY DEF StableInv, CurrentRoom, Live, RoomIds
<1>4. OutIsOut
  BY <1>3 DEF StableInv, OutAsShown, Out, OutIsOut
<1>5. SilentOutsideMeetings
  BY <1>3 DEF StableInv, OutAsShown, Out, SilentOutsideMeetings, Silent
<1>6. QED
  BY <1>1, <1>2, <1>4, <1>5 DEF AudioFollowsPage

(* However joins, leaves, phases and disturbances overlap, the browser is in *)
(* one room at most and is out, or silent, when its page says so.            *)
THEOREM AudioFollows == StableSpec => []AudioFollowsPage
BY StableInitInvariant, StableNextInvariant, StableInvariantSuffices, PTL DEF StableSpec

-----------------------------------------------------------------------------
(* AgentLoop, for any agents, candidates, threads, requests and bounds.     *)

(* What a variable may be.                                                   *)
VotesOf == Candidates \cup {"none"}
Rosters == [Agents -> [online : BOOLEAN, initial : VotesOf, final : VotesOf]]
RunnerSet == {Unmade} \cup [who : Agents, on : BOOLEAN]
LoopSet == {NoLoop} \cup [runner : RunnerIds, at : {"top", "call"}]
VoteSet == {NoVote} \cup [who : Agents, kind : Kinds, own : BOOLEAN, at : {"check", "call"}]
Stages == {"start", "put", "stop", "offline", "register", "ask", "ask_final", "post"}
RouteSet == {Idling} \cup [at : Stages, todo : SUBSET Agents]
                     \cup [at : {"joining"}, todo : SUBSET Agents, agent : Agents]

AgentTypes ==
    /\ status \in {"waiting", "running", "paused", "gone"}
    /\ roster \in Rosters /\ listed \subseteq Rosters
    /\ registry \in [Agents -> RunnerIds \cup {NoRunner}]
    /\ runners \in [RunnerIds -> RunnerSet]
    /\ loops \in [LoopSlots -> LoopSet]
    /\ votes \in [VoteSlots -> VoteSet]
    /\ routes \in [Routes -> RouteSet]
    /\ lateTurns \in [LoopSlots -> Nat]
    /\ posted \in BOOLEAN

(* Who a runner is for never changes, nor which runner a loop belongs to.    *)
RunnersKnown ==
    /\ \A a \in Agents : registry[a] # NoRunner => runners[registry[a]].who = a
    /\ \A l \in LoopSlots : loops[l] # NoLoop => runners[loops[l].runner] # Unmade

(* A loop asks the model with no late turn behind it.                        *)
TurnsCounted ==
    \A l \in LoopSlots :
        /\ lateTurns[l] <= 1
        /\ status = "running" \/ loops[l].at = "call" => lateTurns[l] = 0

(* A session that is deleted has no request in flight.                       *)
GoneIsQuiet == status = "gone" => \A r \in Routes : routes[r] = Idling

OneRoute == \A r, s \in Routes : routes[r] # Idling /\ routes[s] # Idling => r = s

(* A runner the registry knows is on, unless it is being stopped.            *)
RegisteredIsOn ==
    \A a \in Agents :
        registry[a] # NoRunner /\ ~runners[registry[a]].on =>
            status = "gone" \/ \E r \in Routes : routes[r].at = "joining" /\ routes[r].agent = a
JoiningIsOff ==
    \A r \in Routes :
        routes[r].at = "joining" /\ registry[routes[r].agent] # NoRunner =>
            ~runners[registry[routes[r].agent]].on

Going(l) == loops[l] # NoLoop /\ runners[loops[l].runner].on
GoingIsRegistered == \A l \in LoopSlots : Going(l) => registry[Who(l)] = loops[l].runner
OwnLoop ==
    \A l, m \in LoopSlots : Going(l) /\ Going(m) /\ loops[l].runner = loops[m].runner => l = m

Always == RunnersKnown /\ VotesBeforeTurns /\ TurnsCounted /\ GoneIsQuiet
Alone == RegisteredIsOn /\ JoiningIsOff /\ GoingIsRegistered /\ OwnLoop

AgentInv == /\ AgentTypes /\ Always /\ clashed \in BOOLEAN
            /\ ~clashed => OneRoute /\ Alone

-----------------------------------------------------------------------------
(* What follows from the definitions of the states.                          *)
LEMMA Letters ==
    /\ Idling.at = "free" /\ NoVote.at = "free" /\ NoLoop.at = "dead" /\ NoLoop.runner = NoRunner
    /\ Unmade.who = "none" /\ ~Unmade.on /\ NoRunner \notin RunnerIds
    /\ "free" \notin Stages \cup {"joining"} /\ "joining" \notin Stages
    /\ "none" \notin Agents
  BY AgentAssumption DEF Idling, NoVote, NoLoop, NoRunner, Unmade, Stages

LEMMA LoopParts ==
    ASSUME AgentTypes, NEW l \in LoopSlots
    PROVE  \/ loops[l] = NoLoop
           \/ /\ loops[l] # NoLoop /\ loops[l].runner \in RunnerIds /\ loops[l].at \in {"top", "call"}
              /\ loops[l] = [runner |-> loops[l].runner, at |-> loops[l].at]
              /\ runners[loops[l].runner] \in RunnerSet
  BY Letters DEF AgentTypes, LoopSet

LEMMA RunnerParts ==
    ASSUME AgentTypes, NEW i \in RunnerIds
    PROVE  /\ runners[i].on \in BOOLEAN
           /\ runners[i] # Unmade => runners[i].who \in Agents /\ runners[i] \in [who : Agents, on : BOOLEAN]
           /\ runners[i] = Unmade => ~runners[i].on
<1>1. runners[i] \in RunnerSet
  BY DEF AgentTypes
<1>2. CASE runners[i] = Unmade
  BY <1>2, Letters DEF Unmade
<1>3. CASE runners[i] # Unmade
  BY <1>1, <1>3 DEF RunnerSet
<1>4. QED
  BY <1>2, <1>3

LEMMA RouteParts ==
    ASSUME AgentTypes, NEW r \in Routes
    PROVE  /\ routes[r].at \in Stages => /\ routes[r] \in [at : Stages, todo : SUBSET Agents]
                                         /\ routes[r] # Idling
           /\ routes[r].at = "joining" => /\ routes[r] \in [at : {"joining"}, todo : SUBSET Agents, agent : Agents]
                                          /\ routes[r] # Idling
  BY Letters DEF AgentTypes, RouteSet

(* A request that has dealt with an agent goes on to the next, or is done.   *)
LEMMA LeavesAgent ==
    ASSUME AgentTypes, NEW r \in Routes, NEW a \in Agents, routes[r].at \in Stages, ThenLeave(r, a)
    PROVE  \E x \in {Idling} \cup [at : Stages, todo : SUBSET Agents] : routes' = [routes EXCEPT ![r] = x]
<1>1. routes[r] \in [at : Stages, todo : SUBSET Agents]
  BY RouteParts
<1>2. Without(routes[r], a) \in {Idling} \cup [at : Stages, todo : SUBSET Agents]
  BY <1>1 DEF Without
<1>3. QED
  BY <1>2 DEF ThenLeave

(* A request at work on one thing after another stops no runner.             *)
LEMMA RouteMoves ==
    ASSUME AgentInv, NEW r \in Routes, NEW x \in {Idling} \cup [at : Stages, todo : SUBSET Agents],
           routes' = [routes EXCEPT ![r] = x], routes[r].at # "joining",
           UNCHANGED <<registry, runners>>,
           status # "gone", status' # "gone"
    PROVE  routes' \in [Routes -> RouteSet] /\ GoneIsQuiet' /\ (~clashed => RegisteredIsOn' /\ JoiningIsOff')
<1>1. x \in RouteSet /\ x.at # "joining"
  BY Letters DEF RouteSet
<1>2. /\ routes' \in [Routes -> RouteSet] /\ routes'[r] = x
      /\ \A s \in Routes \ {r} : routes'[s] = routes[s]
  BY <1>1 DEF AgentInv, AgentTypes
<1>3. GoneIsQuiet'
  BY <1>2 DEF AgentInv, Always, GoneIsQuiet
<1>4. ~clashed => JoiningIsOff'
  BY <1>1, <1>2 DEF AgentInv, Alone, JoiningIsOff
<1>5. ASSUME ~clashed PROVE RegisteredIsOn'
  <2> SUFFICES ASSUME NEW a \in Agents, registry[a] # NoRunner, ~runners[registry[a]].on
               PROVE  \E s \in Routes : routes'[s].at = "joining" /\ routes'[s].agent = a
    BY DEF RegisteredIsOn
  <2>1. \E s \in Routes : routes[s].at = "joining" /\ routes[s].agent = a
    BY <1>5 DEF AgentInv, Alone, RegisteredIsOn
  <2>2. QED
    BY <1>2, <2>1
<1>6. QED
  BY <1>2, <1>3, <1>4, <1>5

(* A request that is at work is in a session that is not deleted.            *)
LEMMA WorkGoesOn ==
    ASSUME AgentInv, NEW r \in Routes, routes[r].at \in Stages \cup {"joining"}
    PROVE  status # "gone" /\ routes[r] # Idling
  BY RouteParts DEF AgentInv, Always, GoneIsQuiet

LEMMA RoutesStay ==
    ASSUME AgentInv, UNCHANGED <<registry, runners, routes>>,
           status = "gone" <=> status' = "gone"
    PROVE  GoneIsQuiet' /\ (~clashed => RegisteredIsOn' /\ JoiningIsOff')
  BY DEF AgentInv, Always, Alone, GoneIsQuiet, RegisteredIsOn, JoiningIsOff

(* A loop that is there in the next state too is a loop of the same runner.  *)
SameLoops ==
    \A l \in LoopSlots : loops'[l] = NoLoop \/ (loops[l] # NoLoop /\ loops'[l].runner = loops[l].runner)

LEMMA LoopsStay ==
    ASSUME AgentInv, UNCHANGED <<registry, runners>>, SameLoops
    PROVE  RunnersKnown' /\ (~clashed => GoingIsRegistered' /\ OwnLoop')
<1>1. RunnersKnown'
  BY DEF AgentInv, Always, RunnersKnown, SameLoops
<1>2. \A l \in LoopSlots : Going(l)' => Going(l) /\ Who(l)' = Who(l) /\ loops'[l].runner = loops[l].runner
  BY DEF Going, Who, SameLoops
<1>3. ~clashed => GoingIsRegistered'
  BY <1>2 DEF AgentInv, Alone, GoingIsRegistered
<1>4. ~clashed => OwnLoop'
  BY <1>2 DEF AgentInv, Alone, OwnLoop
<1>5. QED
  BY <1>1, <1>3, <1>4

(* A vote that is there stays, unless participants are posted.               *)
VotesStay ==
    ~posted' => ~posted /\ \A a \in Agents, kind \in Kinds :
                               roster[a][kind] # "none" => roster'[a][kind] = roster[a][kind]

(* A loop that has asked the model had asked it, for an agent with its vote. *)
LEMMA VotedBefore ==
    ASSUME AgentInv, VotesStay,
           \A l \in LoopSlots : loops'[l].at = "call" => loops[l].at = "call" /\ Who(l)' = Who(l)
    PROVE  VotesBeforeTurns'
<1> SUFFICES ASSUME ~posted', NEW l \in LoopSlots, loops'[l].at = "call"
             PROVE  roster'[Who(l)'].initial # "none"
  BY DEF VotesBeforeTurns
<1>1. ~posted /\ loops[l].at = "call" /\ Who(l)' = Who(l)
  BY DEF VotesStay
<1>2. roster[Who(l)].initial # "none"
  BY <1>1 DEF AgentInv, Always, VotesBeforeTurns
<1>3. Who(l) \in Agents
  <2>1. loops[l] # NoLoop /\ loops[l].runner \in RunnerIds
    BY <1>1, LoopParts, Letters DEF AgentInv
  <2>2. QED
    BY <2>1, RunnerParts DEF AgentInv, Always, RunnersKnown, Who
<1>4. roster'[Who(l)].initial = roster[Who(l)].initial
  <2>1. \A a \in Agents : roster[a]["initial"] # "none" => roster'[a]["initial"] = roster[a]["initial"]
    BY DEF VotesStay, Kinds
  <2>2. QED
    BY <1>2, <1>3, <2>1
<1>5. QED
  BY <1>1, <1>2, <1>4

LEMMA CountStays ==
    ASSUME AgentInv, UNCHANGED <<status, lateTurns>>,
           \A l \in LoopSlots : loops'[l].at = "call" => loops[l].at = "call"
    PROVE  TurnsCounted'
  BY DEF AgentInv, Always, TurnsCounted

-----------------------------------------------------------------------------
(* What the helpers do to the roster, the votes and the runners.             *)
LEMMA RosterShows ==
    ASSUME AgentTypes, NEW a \in Agents, NEW b \in BOOLEAN,
           roster' = [roster EXCEPT ![a].online = b]
    PROVE  /\ roster' \in Rosters
           /\ \A x \in Agents, kind \in Kinds : roster'[x][kind] = roster[x][kind]
<1> DEFINE row == [roster[a] EXCEPT !.online = b]
<1>1. roster[a] \in [online : BOOLEAN, initial : VotesOf, final : VotesOf]
  BY DEF AgentTypes, Rosters
<1>2. row \in [online : BOOLEAN, initial : VotesOf, final : VotesOf]
  BY <1>1
<1>3. row.initial = roster[a].initial /\ row.final = roster[a].final
  BY <1>1
<1> HIDE DEF row
<1>4. roster' = [roster EXCEPT ![a] = row]
  BY DEF row
<1>5. roster' \in Rosters /\ \A x \in Agents : roster'[x] = IF x = a THEN row ELSE roster[x]
  BY ZenonT(60), <1>2, <1>4 DEF AgentTypes, Rosters
<1>6. \A x \in Agents : roster'[x].initial = roster[x].initial /\ roster'[x].final = roster[x].final
  BY <1>3, <1>5
<1>7. QED
  BY <1>5, <1>6 DEF Kinds

LEMMA RosterVotes ==
    ASSUME AgentTypes, NEW a \in Agents, NEW kind \in Kinds, NEW c \in Candidates, CastVote(a, kind, c)
    PROVE  /\ roster' \in Rosters
           /\ \A x \in Agents, k \in Kinds : roster[x][k] # "none" => roster'[x][k] = roster[x][k]
<1>1. CASE roster[a][kind] # "none"
  BY <1>1 DEF CastVote, AgentTypes
<1>2. CASE roster[a][kind] = "none"
  <2> DEFINE row == [roster[a] EXCEPT ![kind] = c]
  <2>1. roster[a] \in [online : BOOLEAN, initial : VotesOf, final : VotesOf]
    BY DEF AgentTypes, Rosters
  <2>2. row \in [online : BOOLEAN, initial : VotesOf, final : VotesOf]
    BY <2>1 DEF Kinds, VotesOf
  <2>3. \A k \in Kinds : k # kind => row[k] = roster[a][k]
    BY <2>1 DEF Kinds
  <2> HIDE DEF row
  <2>4. roster' = [roster EXCEPT ![a] = row]
    BY <1>2 DEF CastVote, row
  <2>5. roster' \in Rosters /\ \A x \in Agents : roster'[x] = IF x = a THEN row ELSE roster[x]
    BY <2>2, <2>4 DEF AgentTypes, Rosters
  <2>6. QED
    BY <1>2, <2>3, <2>5
<1>3. QED
  BY <1>1, <1>2

LEMMA VoteAsked ==
    ASSUME AgentTypes, NEW a \in Agents, NEW kind \in Kinds, NEW own \in BOOLEAN, AskVote(a, kind, own)
    PROVE  votes' \in [VoteSlots -> VoteSet]
<1>1. PICK v \in VoteSlots :
          votes' = [votes EXCEPT ![v] = [who |-> a, kind |-> kind, own |-> own, at |-> "check"]]
  BY DEF AskVote
<1>2. [who |-> a, kind |-> kind, own |-> own, at |-> "check"] \in VoteSet
  BY DEF VoteSet
<1>3. QED
  BY <1>1, <1>2 DEF AgentTypes

(* A runner that is started is on, for the agent the registry has it under,  *)
(* and has one loop.                                                         *)
Started(i, a) ==
    /\ runners' \in [RunnerIds -> RunnerSet] /\ loops' \in [LoopSlots -> LoopSet]
    /\ votes' \in [VoteSlots -> VoteSet]
    /\ runners'[i].on /\ \A j \in RunnerIds \ {i} : runners'[j] = runners[j]
    /\ \/ runners'[i] = runners[i] /\ loops' = loops
       \/ /\ ~runners[i].on /\ runners'[i].who = a /\ runners'[i] # Unmade
          /\ \E l \in LoopSlots :
              /\ loops[l] = NoLoop /\ loops'[l] # NoLoop /\ loops'[l].at = "top" /\ loops'[l].runner = i
              /\ \A m \in LoopSlots \ {l} : loops'[m] = loops[m]

LEMMA RunnerStarts ==
    ASSUME AgentTypes, NEW i \in RunnerIds, NEW a \in Agents, StartRunner(i, a)
    PROVE  Started(i, a)
<1>1. CASE runners[i].on
  BY <1>1 DEF StartRunner, Started, AgentTypes
<1>2. CASE ~runners[i].on
  <2> DEFINE new == [who |-> a, on |-> TRUE]
  <2>1. new \in RunnerSet /\ new.on /\ new.who = a /\ new # Unmade
    BY Letters DEF RunnerSet
  <2>2. runners' = [runners EXCEPT ![i] = new]
    BY <1>2 DEF StartRunner
  <2> HIDE DEF new
  <2>3. /\ runners' \in [RunnerIds -> RunnerSet] /\ runners'[i] = new
        /\ \A j \in RunnerIds \ {i} : runners'[j] = runners[j]
    BY <2>1, <2>2 DEF AgentTypes
  <2>4. PICK l \in LoopSlots : loops[l] = NoLoop /\ loops' = [loops EXCEPT ![l] = [runner |-> i, at |-> "top"]]
    BY <1>2 DEF StartRunner
  <2> DEFINE loop == [runner |-> i, at |-> "top"]
  <2>5. loop \in LoopSet /\ loop # NoLoop /\ loop.at = "top" /\ loop.runner = i
    BY Letters DEF LoopSet
  <2>6. loops' = [loops EXCEPT ![l] = loop]
    BY <2>4
  <2> HIDE DEF loop
  <2>7. /\ loops' \in [LoopSlots -> LoopSet] /\ loops'[l] = loop
        /\ \A m \in LoopSlots \ {l} : loops'[m] = loops[m]
    BY <2>5, <2>6 DEF AgentTypes
  <2>8. votes' \in [VoteSlots -> VoteSet]
    <3>1. CASE people \/ roster[a].initial # "none"
      BY <1>2, <3>1 DEF StartRunner, AgentTypes
    <3>2. CASE ~(people \/ roster[a].initial # "none")
      <4>1. AskVote(a, "initial", TRUE) /\ "initial" \in Kinds
        BY <1>2, <3>2 DEF StartRunner, Kinds
      <4>2. QED
        BY <4>1, VoteAsked
    <3>3. QED
      BY <3>1, <3>2
  <2>9. QED
    BY <1>2, <2>1, <2>3, <2>4, <2>5, <2>7, <2>8 DEF Started
<1>3. QED
  BY <1>1, <1>2

(* A runner is started for the agent that the registry has it under, or a    *)
(* new one is put there.                                                     *)
Registers(i, a) ==
    /\ Started(i, a)
    /\ \/ registry[a] = i /\ registry' = registry
       \/ registry[a] = NoRunner /\ runners[i] = Unmade /\ registry' = [registry EXCEPT ![a] = i]

LEMMA RunnersStayKnown ==
    ASSUME AgentInv, NEW i \in RunnerIds, NEW a \in Agents, Registers(i, a)
    PROVE  /\ registry' \in [Agents -> RunnerIds \cup {NoRunner}] /\ RunnersKnown'
           /\ \A l \in LoopSlots : loops'[l].at = "call" => loops[l].at = "call" /\ Who(l)' = Who(l)
<1>1. /\ registry' \in [Agents -> RunnerIds \cup {NoRunner}]
      /\ \A b \in Agents \ {a} : registry'[b] = registry[b]
      /\ registry'[a] = i
  BY DEF Registers, AgentInv, AgentTypes
<1>2. runners'[i].who = a /\ runners'[i] # Unmade
  <2>1. CASE runners'[i] = runners[i] /\ loops' = loops
    <3>1. runners[i].on /\ runners[i] # Unmade
      BY <2>1, Letters DEF Registers, Started
    <3>2. registry[a] = i
      BY <3>1 DEF Registers
    <3>3. QED
      BY <2>1, <3>1, <3>2, Letters DEF AgentInv, Always, RunnersKnown
  <2>2. QED
    BY <2>1 DEF Registers, Started
<1>3. \A j \in RunnerIds : runners[j] # Unmade => runners'[j] # Unmade /\ runners'[j].who = runners[j].who
  <2> SUFFICES ASSUME NEW j \in RunnerIds, runners[j] # Unmade
               PROVE  runners'[j] # Unmade /\ runners'[j].who = runners[j].who
    OBVIOUS
  <2>1. CASE j # i
    BY <2>1 DEF Registers, Started
  <2>2. CASE j = i
    <3>1. registry[a] = i
      BY <2>2 DEF Registers
    <3>2. QED
      BY <1>2, <2>2, <3>1, Letters DEF AgentInv, Always, RunnersKnown
  <2>3. QED
    BY <2>1, <2>2
<1>4. \A b \in Agents : registry[b] # NoRunner => registry[b] \in RunnerIds /\ runners[registry[b]] # Unmade
  BY Letters DEF AgentInv, AgentTypes, Always, RunnersKnown
<1>5. \A b \in Agents : registry'[b] # NoRunner => runners'[registry'[b]].who = b
  BY <1>1, <1>2, <1>3, <1>4 DEF AgentInv, Always, RunnersKnown
<1>6. \A l \in LoopSlots : \/ loops'[l] = loops[l]
                           \/ loops'[l].at = "top" /\ loops'[l].runner = i
  BY DEF Registers, Started
<1>7. \A l \in LoopSlots : loops[l] # NoLoop => loops[l].runner \in RunnerIds /\ runners[loops[l].runner] # Unmade
  BY LoopParts DEF AgentInv, Always, RunnersKnown
<1>8. \A l \in LoopSlots : loops'[l] # NoLoop => runners'[loops'[l].runner] # Unmade
  BY <1>2, <1>3, <1>6, <1>7
<1>9. ASSUME NEW l \in LoopSlots, loops'[l].at = "call" PROVE loops[l].at = "call" /\ Who(l)' = Who(l)
  <2>1. loops'[l] = loops[l] /\ loops[l].at = "call" /\ loops[l] # NoLoop
    BY <1>6, <1>9, Letters
  <2>2. QED
    BY <1>3, <1>7, <2>1 DEF Who
<1>10. QED
  BY <1>1, <1>5, <1>8, <1>9 DEF RunnersKnown

(* If nothing is being stopped, the runner under a is on, or was not made.   *)
LEMMA LoopsStayOwn ==
    ASSUME AgentInv, NEW i \in RunnerIds, NEW a \in Agents, Registers(i, a), ~clashed, status # "gone",
           \A s \in Routes : routes[s].at # "joining"
    PROVE  /\ GoingIsRegistered' /\ OwnLoop'
           /\ \A b \in Agents : registry'[b] # NoRunner => runners'[registry'[b]].on
<1>1. \A b \in Agents : registry[b] # NoRunner => runners[registry[b]].on
  BY DEF AgentInv, Alone, RegisteredIsOn
<1>2. /\ \A b \in Agents \ {a} : registry'[b] = registry[b]
      /\ registry'[a] = i /\ (registry[a] = i \/ runners[i] = Unmade)
  BY DEF Registers, AgentInv, AgentTypes
<1>3. /\ runners'[i].on /\ \A j \in RunnerIds \ {i} : runners'[j] = runners[j]
  BY DEF Registers, Started
<1>4. CASE registry[a] = i
  <2>1. runners[i].on /\ registry' = registry
    BY <1>1, <1>4, Letters DEF Registers
  <2>2. loops' = loops /\ runners'[i] = runners[i]
    BY <2>1 DEF Registers, Started
  <2>3. \A l \in LoopSlots : loops[l] # NoLoop => runners'[loops[l].runner] = runners[loops[l].runner]
    BY <1>3, <2>2, LoopParts DEF AgentInv
  <2>4. \A l \in LoopSlots : Going(l)' => Going(l) /\ Who(l)' = Who(l) /\ loops'[l].runner = loops[l].runner
    BY <2>2, <2>3 DEF Going, Who
  <2>5. GoingIsRegistered' /\ OwnLoop'
    BY <2>1, <2>4 DEF AgentInv, Alone, GoingIsRegistered, OwnLoop
  <2>6. \A b \in Agents : registry'[b] # NoRunner => runners'[registry'[b]].on
    BY <1>1, <1>3, <2>1, <2>2 DEF AgentInv, AgentTypes
  <2>7. QED
    BY <2>5, <2>6
<1>5. CASE runners[i] = Unmade
  <2>1. /\ registry[a] = NoRunner
        /\ \E l \in LoopSlots :
              /\ loops[l] = NoLoop /\ loops'[l] # NoLoop /\ loops'[l].at = "top" /\ loops'[l].runner = i
              /\ \A m \in LoopSlots \ {l} : loops'[m] = loops[m]
        /\ runners'[i].who = a
    <3>1. ~runners[i].on /\ i # NoRunner
      BY <1>5, Letters
    <3>2. registry[a] # i
      BY <1>1, <3>1
    <3>3. QED
      BY <3>1, <3>2 DEF Registers, Started
  <2>2. PICK l \in LoopSlots :
              /\ loops[l] = NoLoop /\ loops'[l] # NoLoop /\ loops'[l].at = "top" /\ loops'[l].runner = i
              /\ \A m \in LoopSlots \ {l} : loops'[m] = loops[m]
    BY <2>1
  <2>3. \A m \in LoopSlots : loops[m] # NoLoop => /\ loops[m].runner \in RunnerIds
                                                  /\ loops[m].runner # i
    BY <1>5, LoopParts DEF AgentInv, Always, RunnersKnown
  <2>4. \A m \in LoopSlots \ {l} :
            Going(m)' => /\ Going(m) /\ Who(m)' = Who(m)
                         /\ loops'[m].runner = loops[m].runner /\ loops'[m].runner # i
    BY <1>3, <2>2, <2>3 DEF Going, Who
  <2>5. \A m \in LoopSlots \ {l} : Going(m)' => registry[Who(m)] = loops[m].runner /\ Who(m) # a
    BY <2>1, <2>3, <2>4, Letters DEF AgentInv, Alone, GoingIsRegistered, Going
  <2>6. \A m \in LoopSlots : loops[m] # NoLoop => Who(m) \in Agents
    BY LoopParts, RunnerParts DEF AgentInv, Always, RunnersKnown, Who
  <2>7. GoingIsRegistered'
    <3>1. Who(l)' = a /\ loops'[l].runner = i
      BY <2>1, <2>2 DEF Who
    <3>2. \A m \in LoopSlots \ {l} : Going(m)' => registry'[Who(m)'] = loops'[m].runner
      BY <1>2, <2>4, <2>5, <2>6 DEF Going
    <3>3. QED
      BY <1>2, <3>1, <3>2 DEF GoingIsRegistered
  <2>8. OwnLoop'
    BY <2>2, <2>4 DEF AgentInv, Alone, OwnLoop
  <2>9. \A b \in Agents : registry'[b] # NoRunner => runners'[registry'[b]].on
    <3>1. \A b \in Agents \ {a} : registry[b] # NoRunner => registry[b] # i /\ registry[b] \in RunnerIds
      BY <1>1, <1>5, Letters DEF AgentInv, AgentTypes
    <3>2. QED
      BY <1>1, <1>2, <1>3, <3>1
  <2>10. QED
    BY <2>7, <2>8, <2>9
<1>6. QED
  BY <1>2, <1>4, <1>5

-----------------------------------------------------------------------------
(* Every step of the agents keeps what always holds, and without a clash     *)
(* what holds when requests come one after the other.                        *)
Goes == AgentTypes' /\ Always' /\ (~clashed => Alone')

LEMMA VoteThreadStep ==
    ASSUME AgentInv, NEW v \in VoteSlots, TriggerVote(v) \/ Vote(v)
    PROVE  Goes
<1>1. UNCHANGED <<status, listed, registry, runners, loops, routes, lateTurns, posted>>
  BY DEF TriggerVote, Vote
<1>2. votes[v] # NoVote /\ votes[v] \in [who : Agents, kind : Kinds, own : BOOLEAN, at : {"check", "call"}]
  BY Letters DEF TriggerVote, Vote, AgentInv, AgentTypes, VoteSet
<1>3. votes' \in [VoteSlots -> VoteSet]
  <2>1. CASE TriggerVote(v)
    <3>1. [votes[v] EXCEPT !.at = "call"] \in VoteSet
      BY <1>2 DEF VoteSet
    <3>2. NoVote \in VoteSet
      BY DEF VoteSet
    <3>3. votes' = [votes EXCEPT ![v] = [votes[v] EXCEPT !.at = "call"]] \/ votes' = [votes EXCEPT ![v] = NoVote]
      BY <2>1 DEF TriggerVote
    <3>4. QED
      BY <3>1, <3>2, <3>3 DEF AgentInv, AgentTypes
  <2>2. CASE Vote(v)
    BY <2>2 DEF Vote, AgentInv, AgentTypes, VoteSet
  <2>3. QED
    BY <2>1, <2>2
<1>4. roster' \in Rosters /\ \A a \in Agents, kind \in Kinds :
                                 roster[a][kind] # "none" => roster'[a][kind] = roster[a][kind]
  <2>1. CASE roster' = roster
    BY <2>1 DEF AgentInv, AgentTypes
  <2>2. CASE \E c \in Candidates : CastVote(votes[v].who, votes[v].kind, c)
    <3>1. PICK c \in Candidates : CastVote(votes[v].who, votes[v].kind, c)
      BY <2>2
    <3>2. votes[v].who \in Agents /\ votes[v].kind \in Kinds
      BY <1>2
    <3>3. QED
      BY <3>1, <3>2, RosterVotes DEF AgentInv
  <2>3. QED
    BY <2>1, <2>2 DEF TriggerVote, Vote
<1>5. VotesStay /\ SameLoops
  BY <1>1, <1>4 DEF VotesStay, SameLoops
<1>6. AgentTypes'
  BY <1>1, <1>3, <1>4 DEF AgentInv, AgentTypes
<1>7. VotesBeforeTurns' /\ TurnsCounted'
  BY <1>1, <1>5, VotedBefore, CountStays DEF Who
<1>8. GoneIsQuiet' /\ RunnersKnown' /\ (~clashed => Alone')
  BY <1>1, <1>5, RoutesStay, LoopsStay DEF Alone
<1>9. QED
  BY <1>6, <1>7, <1>8 DEF Goes, Always

LEMMA WakeStep ==
    ASSUME AgentInv, NEW l \in LoopSlots, Wake(l)
    PROVE  Goes
<1>1. /\ UNCHANGED <<status, roster, listed, registry, votes, routes, posted>>
      /\ loops[l].at = "top"
  BY DEF Wake
<1>2. /\ loops[l] # NoLoop /\ loops[l].runner \in RunnerIds
      /\ loops[l] = [runner |-> loops[l].runner, at |-> loops[l].at]
      /\ loops[l].at = "top" /\ runners[loops[l].runner] \in RunnerSet
      /\ runners[loops[l].runner].on \in BOOLEAN
  BY <1>1, LoopParts, RunnerParts, Letters DEF AgentInv
<1>3. VotesStay
  BY <1>1 DEF VotesStay
<1>4. NoLoop \in LoopSet /\ [loops[l] EXCEPT !.at = "call"] \in LoopSet
  BY <1>2 DEF LoopSet
<1>5. CASE EndLoop(l)
  <2>1. /\ loops' \in [LoopSlots -> LoopSet] /\ loops'[l] = NoLoop
        /\ \A m \in LoopSlots \ {l} : loops'[m] = loops[m]
        /\ lateTurns' \in [LoopSlots -> Nat] /\ lateTurns'[l] = 0
        /\ \A m \in LoopSlots \ {l} : lateTurns'[m] = lateTurns[m]
    BY <1>4, <1>5 DEF EndLoop, AgentInv, AgentTypes
  <2>2. SameLoops
    BY <1>2, <2>1 DEF SameLoops
  <2>3. TurnsCounted'
    BY <1>1, <2>1 DEF AgentInv, Always, TurnsCounted
  <2>4. CASE UNCHANGED runners
    <3>1. AgentTypes'
      BY <1>1, <2>1, <2>4 DEF AgentInv, AgentTypes
    <3>2. \A m \in LoopSlots : loops'[m].at = "call" => loops[m].at = "call" /\ Who(m)' = Who(m)
      BY <2>1, <2>4, Letters DEF Who
    <3>3. VotesBeforeTurns'
      BY <1>3, <3>2, VotedBefore
    <3>4. GoneIsQuiet' /\ RunnersKnown' /\ (~clashed => Alone')
      BY <1>1, <2>2, <2>4, RoutesStay, LoopsStay DEF Alone
    <3>5. QED
      BY <2>3, <3>1, <3>3, <3>4 DEF Goes, Always
  <2>5. CASE status = "gone" /\ runners' = [runners EXCEPT ![loops[l].runner].on = FALSE]
    <3> DEFINE i == loops[l].runner
    <3> DEFINE off == [runners[i] EXCEPT !.on = FALSE]
    <3>1. runners[i] # Unmade /\ runners[i] \in [who : Agents, on : BOOLEAN]
      BY <1>2, RunnerParts DEF AgentInv, Always, RunnersKnown
    <3>2. off \in RunnerSet /\ off.who = runners[i].who /\ ~off.on /\ off # Unmade
      BY <3>1, Letters DEF RunnerSet
    <3>3. runners' = [runners EXCEPT ![i] = off]
      BY <2>5
    <3> HIDE DEF off
    <3>4. /\ runners' \in [RunnerIds -> RunnerSet] /\ runners'[i] = off
          /\ \A j \in RunnerIds \ {i} : runners'[j] = runners[j]
      BY <1>2, <3>2, <3>3 DEF AgentInv, AgentTypes
    <3> HIDE DEF i
    <3>5. AgentTypes'
      BY <1>1, <2>1, <3>4 DEF AgentInv, AgentTypes
    <3>6. \A j \in RunnerIds : /\ runners'[j].who = runners[j].who
                               /\ runners[j] # Unmade => runners'[j] # Unmade
                               /\ runners'[j].on => runners[j].on
      BY <3>2, <3>4
    <3>7. \A m \in LoopSlots : loops[m] # NoLoop => loops[m].runner \in RunnerIds
      BY LoopParts DEF AgentInv
    <3>8. \A m \in LoopSlots : loops'[m] # NoLoop => loops[m] # NoLoop /\ loops'[m] = loops[m]
      BY <2>1
    <3>9. VotesBeforeTurns'
      <4>1. \A m \in LoopSlots : loops'[m].at = "call" => loops[m].at = "call" /\ Who(m)' = Who(m)
        BY <3>6, <3>7, <3>8, Letters DEF Who
      <4>2. QED
        BY <1>3, <4>1, VotedBefore
    <3>10. RunnersKnown'
      <4>1. \A a \in Agents : registry[a] # NoRunner => registry[a] \in RunnerIds
        BY DEF AgentInv, AgentTypes
      <4>2. QED
        BY <1>1, <3>6, <3>7, <3>8, <4>1 DEF AgentInv, Always, RunnersKnown
    <3>11. GoneIsQuiet'
      BY <1>1 DEF AgentInv, Always, GoneIsQuiet
    <3>12. RegisteredIsOn'
      BY <1>1, <2>5 DEF RegisteredIsOn
    <3>13. JoiningIsOff'
      BY <1>1, <2>5, Letters DEF AgentInv, Always, GoneIsQuiet, JoiningIsOff
    <3>14. \A m \in LoopSlots : Going(m)' => Going(m) /\ Who(m)' = Who(m) /\ loops'[m].runner = loops[m].runner
      BY <3>6, <3>7, <3>8 DEF Going, Who
    <3>15. ~clashed => GoingIsRegistered' /\ OwnLoop'
      BY <1>1, <3>14 DEF AgentInv, Alone, GoingIsRegistered, OwnLoop
    <3>16. QED
      BY <2>3, <3>5, <3>9, <3>10, <3>11, <3>12, <3>13, <3>15 DEF Goes, Always, Alone
  <2>6. QED
    BY <1>2, <1>5, <2>4, <2>5 DEF Wake
<1>6. CASE MayPerceive(l) /\ GoTo(l, "call") /\ UNCHANGED <<runners, lateTurns>>
  <2>1. loops' = [loops EXCEPT ![l] = [loops[l] EXCEPT !.at = "call"]]
    BY <1>6 DEF GoTo
  <2>2. /\ loops' \in [LoopSlots -> LoopSet] /\ loops'[l] # NoLoop /\ loops'[l].runner = loops[l].runner
        /\ \A m \in LoopSlots \ {l} : loops'[m] = loops[m]
    BY <1>2, <1>4, <2>1, Letters DEF AgentInv, AgentTypes
  <2>3. SameLoops
    BY <1>2, <2>2 DEF SameLoops
  <2>4. AgentTypes'
    BY <1>1, <1>6, <2>2 DEF AgentInv, AgentTypes
  <2>5. VotesBeforeTurns'
    BY <1>1, <1>6, <2>2 DEF AgentInv, Always, VotesBeforeTurns, MayPerceive, Who
  <2>6. TurnsCounted'
    BY <1>1, <1>6, <2>2 DEF AgentInv, Always, TurnsCounted, MayPerceive
  <2>7. GoneIsQuiet' /\ RunnersKnown' /\ (~clashed => Alone')
    BY <1>1, <1>6, <2>3, RoutesStay, LoopsStay DEF Alone
  <2>8. QED
    BY <2>4, <2>5, <2>6, <2>7 DEF Goes, Always
<1>7. QED
  BY <1>5, <1>6 DEF Wake

LEMMA TurnStep ==
    ASSUME AgentInv, NEW l \in LoopSlots, CallFails(l) \/ Turn(l)
    PROVE  Goes
<1>1. /\ UNCHANGED <<status, listed, registry, runners, votes, routes, posted>>
      /\ loops[l].at = "call" /\ GoTo(l, "top")
  BY DEF CallFails, Turn
<1>2. /\ loops[l] # NoLoop /\ loops[l].runner \in RunnerIds
      /\ loops[l] = [runner |-> loops[l].runner, at |-> loops[l].at]
  BY <1>1, LoopParts, Letters DEF AgentInv
<1>3. [loops[l] EXCEPT !.at = "top"] \in LoopSet
  BY <1>2 DEF LoopSet
<1>4. loops' = [loops EXCEPT ![l] = [loops[l] EXCEPT !.at = "top"]]
  BY <1>1 DEF GoTo
<1>5. /\ loops' \in [LoopSlots -> LoopSet] /\ loops'[l].at = "top" /\ loops'[l].runner = loops[l].runner
      /\ \A m \in LoopSlots \ {l} : loops'[m] = loops[m]
  BY <1>2, <1>3, <1>4 DEF AgentInv, AgentTypes
<1>6. SameLoops
  BY <1>2, <1>5 DEF SameLoops
<1>7. roster' \in Rosters /\ \A a \in Agents, kind \in Kinds :
                                 roster[a][kind] # "none" => roster'[a][kind] = roster[a][kind]
  <2>1. CASE roster' = roster
    BY <2>1 DEF AgentInv, AgentTypes
  <2>2. CASE \E kind \in Kinds, c \in Candidates : CastVote(Who(l), kind, c)
    <3>1. PICK kind \in Kinds, c \in Candidates : CastVote(Who(l), kind, c)
      BY <2>2
    <3>2. Who(l) \in Agents
      BY <1>2, RunnerParts DEF AgentInv, Always, RunnersKnown, Who
    <3>3. QED
      BY <3>1, <3>2, RosterVotes DEF AgentInv
  <2>3. QED
    BY <2>1, <2>2 DEF CallFails, Turn, ExecuteActions
<1>8. VotesStay
  BY <1>1, <1>7 DEF VotesStay
<1>9. /\ lateTurns' \in [LoopSlots -> Nat]
      /\ lateTurns'[l] = lateTurns[l] \/ (status # "running" /\ lateTurns'[l] = lateTurns[l] + 1)
      /\ \A m \in LoopSlots \ {l} : lateTurns'[m] = lateTurns[m]
  <2>1. CASE lateTurns' = lateTurns
    BY <2>1 DEF AgentInv, AgentTypes
  <2>2. CASE lateTurns' = [lateTurns EXCEPT ![l] = IF status = "running" THEN @ ELSE @ + 1]
    BY <2>2 DEF AgentInv, AgentTypes
  <2>3. QED
    BY <2>1, <2>2 DEF CallFails, Turn
<1>10. AgentTypes'
  BY <1>1, <1>5, <1>7, <1>9 DEF AgentInv, AgentTypes
<1>11. TurnsCounted'
  BY <1>1, <1>5, <1>9 DEF AgentInv, AgentTypes, Always, TurnsCounted
<1>12. VotesBeforeTurns'
  <2>1. \A m \in LoopSlots : loops'[m].at = "call" => loops[m].at = "call" /\ Who(m)' = Who(m)
    BY <1>1, <1>5 DEF Who
  <2>2. QED
    BY <1>8, <2>1, VotedBefore
<1>13. GoneIsQuiet' /\ RunnersKnown' /\ (~clashed => Alone')
  BY <1>1, <1>6, RoutesStay, LoopsStay DEF Alone
<1>14. QED
  BY <1>10, <1>11, <1>12, <1>13 DEF Goes, Always

(* The status changes before the request goes through the agents.            *)
LEMMA StatusCounts ==
    ASSUME AgentInv, UNCHANGED loops,
           UNCHANGED <<status, lateTurns>> \/ \E s \in {"running", "paused", "waiting", "gone"} : NewStatus(s)
    PROVE  /\ TurnsCounted' /\ lateTurns' \in [LoopSlots -> Nat]
           /\ status' \in {"waiting", "running", "paused", "gone"}
<1>1. CASE UNCHANGED <<status, lateTurns>>
  BY <1>1 DEF AgentInv, AgentTypes, Always, TurnsCounted
<1>2. CASE NewStatus("running")
  BY <1>2 DEF NewStatus, TurnsCounted
<1>3. CASE \E s \in {"paused", "waiting", "gone"} : NewStatus(s)
  <2>1. status' \in {"paused", "waiting", "gone"} /\ lateTurns' = lateTurns
    BY <1>3 DEF NewStatus
  <2>2. QED
    BY <2>1 DEF AgentInv, AgentTypes, Always, TurnsCounted
<1>4. QED
  BY <1>1, <1>2, <1>3

LEMMA OpenStep ==
    ASSUME AgentInv, UNCHANGED <<roster, listed, registry, runners, loops, votes, posted>>,
           NEW r \in Routes, NEW at \in Stages,
           Open(r, at) \/ (status # "gone" /\ UNCHANGED routes),
           UNCHANGED <<status, lateTurns>> \/ \E s \in {"running", "paused", "waiting"} : NewStatus(s)
    PROVE  Goes
<1>1. status # "gone" /\ status' # "gone"
  BY DEF Open, NewStatus
<1>2. /\ TurnsCounted' /\ lateTurns' \in [LoopSlots -> Nat]
      /\ status' \in {"waiting", "running", "paused", "gone"}
  BY StatusCounts
<1>3. SameLoops /\ VotesStay
  BY DEF SameLoops, VotesStay
<1>4. VotesBeforeTurns' /\ RunnersKnown' /\ (~clashed => GoingIsRegistered' /\ OwnLoop')
  BY <1>3, VotedBefore, LoopsStay DEF Who
<1>5. routes' \in [Routes -> RouteSet] /\ GoneIsQuiet' /\ (~clashed => RegisteredIsOn' /\ JoiningIsOff')
  <2>1. CASE UNCHANGED routes
    BY <1>1, <2>1, RoutesStay DEF AgentInv, AgentTypes
  <2>2. CASE Open(r, at)
    <3>1. routes[r].at # "joining"
      BY <2>2, Letters DEF Open
    <3> DEFINE x == [at |-> at, todo |-> Agents]
    <3>2. x \in {Idling} \cup [at : Stages, todo : SUBSET Agents]
      OBVIOUS
    <3>3. routes' = [routes EXCEPT ![r] = x]
      BY <2>2 DEF Open
    <3> HIDE DEF x
    <3>4. QED
      BY <1>1, <3>1, <3>2, <3>3, RouteMoves
  <2>3. QED
    BY <2>1, <2>2
<1>6. AgentTypes'
  BY <1>2, <1>5 DEF AgentInv, AgentTypes
<1>7. QED
  BY <1>2, <1>4, <1>5, <1>6 DEF Goes, Always, Alone

LEMMA RequestStep ==
    ASSUME AgentInv, NEW r \in Routes,
           \/ \E s \in {"running", "paused", "waiting"} : SetStatus(r, s)
           \/ SetType(r) \/ PutRunning(r) \/ TimeIsUp(r) \/ Post(r)
    PROVE  Goes
<1>1. UNCHANGED <<roster, listed, registry, runners, loops, votes, posted>>
  BY DEF SetStatus, SetType, PutRunning, TimeIsUp, Post
<1>2. \/ UNCHANGED <<status, lateTurns>>
      \/ \E s \in {"running", "paused", "waiting"} : NewStatus(s)
  BY DEF SetStatus, SetType, PutRunning, TimeIsUp, Post
<1>3. \E at \in Stages : Open(r, at) \/ (status # "gone" /\ UNCHANGED routes)
  BY DEF SetStatus, SetType, PutRunning, TimeIsUp, Post, Stages
<1>4. QED
  BY <1>1, <1>2, <1>3, OpenStep

LEMMA DeleteStep ==
    ASSUME AgentInv, DeleteSession
    PROVE  Goes
<1>1. /\ UNCHANGED <<roster, listed, registry, runners, loops, routes, posted>>
      /\ NewStatus("gone") /\ status' = "gone" /\ \A r \in Routes : routes[r] = Idling
      /\ votes' \in [VoteSlots -> VoteSet]
  BY DEF DeleteSession, NewStatus, VoteSet
<1>2. /\ TurnsCounted' /\ lateTurns' \in [LoopSlots -> Nat]
      /\ status' \in {"waiting", "running", "paused", "gone"}
  BY <1>1, StatusCounts
<1>3. SameLoops /\ VotesStay
  BY <1>1 DEF SameLoops, VotesStay
<1>4. VotesBeforeTurns' /\ RunnersKnown' /\ (~clashed => GoingIsRegistered' /\ OwnLoop')
  BY <1>1, <1>3, VotedBefore, LoopsStay DEF Who
<1>5. GoneIsQuiet' /\ RegisteredIsOn' /\ JoiningIsOff'
  BY <1>1, Letters DEF GoneIsQuiet, RegisteredIsOn, JoiningIsOff
<1>6. AgentTypes'
  BY <1>1, <1>2 DEF AgentInv, AgentTypes
<1>7. QED
  BY <1>2, <1>4, <1>5, <1>6 DEF Goes, Always, Alone

LEMMA RestartStep ==
    ASSUME AgentInv, RestartAgents
    PROVE  Goes
<1>1. /\ UNCHANGED <<status, roster, listed, posted>>
      /\ registry' = [a \in Agents |-> NoRunner] /\ runners' = [i \in RunnerIds |-> Unmade]
      /\ loops' = [l \in LoopSlots |-> NoLoop] /\ votes' = [v \in VoteSlots |-> NoVote]
      /\ routes' = [s \in Routes |-> Idling] /\ lateTurns' = [l \in LoopSlots |-> 0]
  BY DEF RestartAgents
<1>2. AgentTypes'
  BY <1>1 DEF AgentInv, AgentTypes, RunnerSet, LoopSet, VoteSet, RouteSet
<1>3. RunnersKnown' /\ VotesBeforeTurns' /\ TurnsCounted' /\ GoneIsQuiet'
  BY <1>1, Letters DEF RunnersKnown, VotesBeforeTurns, TurnsCounted, GoneIsQuiet
<1>4. RegisteredIsOn' /\ JoiningIsOff' /\ GoingIsRegistered' /\ OwnLoop'
  BY <1>1, Letters DEF RegisteredIsOn, JoiningIsOff, GoingIsRegistered, OwnLoop, Going
<1>5. QED
  BY <1>2, <1>3, <1>4 DEF Goes, Always, Alone

LEMMA FetchStep ==
    ASSUME AgentInv, Fetch \/ \E a \in Agents, kind \in Kinds : Popup(a, kind)
    PROVE  Goes
<1>1. UNCHANGED <<status, roster, registry, runners, loops, routes, lateTurns, posted>>
  BY DEF Fetch, Popup
<1>2. listed' \subseteq Rosters /\ votes' \in [VoteSlots -> VoteSet]
  <2>1. CASE Fetch
    BY <2>1 DEF Fetch, AgentInv, AgentTypes
  <2>2. CASE \E a \in Agents, kind \in Kinds : Popup(a, kind)
    <3>1. PICK a \in Agents, kind \in Kinds : Popup(a, kind)
      BY <2>2
    <3>2. AskVote(a, kind, TRUE) /\ listed' = listed
      BY <3>1 DEF Popup
    <3>3. QED
      BY <3>2, VoteAsked DEF AgentInv, AgentTypes
  <2>3. QED
    BY <2>1, <2>2
<1>3. SameLoops /\ VotesStay
  BY <1>1 DEF SameLoops, VotesStay
<1>4. VotesBeforeTurns' /\ TurnsCounted' /\ RunnersKnown' /\ (~clashed => GoingIsRegistered' /\ OwnLoop')
  BY <1>1, <1>3, VotedBefore, CountStays, LoopsStay DEF Who
<1>5. GoneIsQuiet' /\ (~clashed => RegisteredIsOn' /\ JoiningIsOff')
  BY <1>1, RoutesStay
<1>6. AgentTypes'
  BY <1>1, <1>2 DEF AgentInv, AgentTypes
<1>7. QED
  BY <1>4, <1>5, <1>6 DEF Goes, Always, Alone

(* A request goes on without touching the runners.                           *)
LEMMA QuietRouteStep ==
    ASSUME AgentInv, NEW r \in Routes, routes[r].at \in Stages,
           NEW x \in {Idling} \cup [at : Stages, todo : SUBSET Agents], routes' = [routes EXCEPT ![r] = x],
           UNCHANGED <<status, listed, registry, runners, loops, lateTurns, posted>>,
           votes' \in [VoteSlots -> VoteSet], roster' \in Rosters,
           \A a \in Agents, kind \in Kinds : roster'[a][kind] = roster[a][kind]
    PROVE  Goes
<1>1. VotesStay /\ SameLoops
  BY DEF VotesStay, SameLoops
<1>2. VotesBeforeTurns' /\ TurnsCounted'
  BY <1>1, VotedBefore, CountStays DEF Who
<1>3. RunnersKnown' /\ (~clashed => GoingIsRegistered' /\ OwnLoop')
  BY <1>1, LoopsStay
<1>4. status # "gone" /\ routes[r].at # "joining"
  BY WorkGoesOn, Letters
<1>5. routes' \in [Routes -> RouteSet] /\ GoneIsQuiet' /\ (~clashed => RegisteredIsOn' /\ JoiningIsOff')
  BY <1>4, RouteMoves
<1>6. AgentTypes'
  BY <1>5 DEF AgentInv, AgentTypes
<1>7. QED
  BY <1>2, <1>3, <1>5, <1>6 DEF Goes, Always, Alone

(* A request has an agent's runner started or registered.                    *)
LEMMA RegisteringStep ==
    ASSUME AgentInv, NEW r \in Routes, NEW a \in Agents, routes[r].at \in Stages,
           NEW x \in {Idling} \cup [at : Stages, todo : SUBSET Agents], routes' = [routes EXCEPT ![r] = x],
           NEW i \in RunnerIds, Registers(i, a),
           UNCHANGED <<status, lateTurns>>, roster' \in Rosters, listed' \subseteq Rosters,
           posted' \in BOOLEAN, VotesStay
    PROVE  Goes
<1>1. status # "gone" /\ routes[r].at # "joining" /\ routes[r] # Idling
  BY WorkGoesOn, Letters
<1>2. /\ registry' \in [Agents -> RunnerIds \cup {NoRunner}] /\ RunnersKnown'
      /\ \A l \in LoopSlots : loops'[l].at = "call" => loops[l].at = "call" /\ Who(l)' = Who(l)
  BY RunnersStayKnown
<1>3. VotesBeforeTurns' /\ TurnsCounted'
  BY <1>2, VotedBefore, CountStays
<1>4. x \in RouteSet /\ x.at # "joining"
  BY Letters DEF RouteSet
<1>5. /\ routes' \in [Routes -> RouteSet] /\ routes'[r] = x
      /\ \A s \in Routes \ {r} : routes'[s] = routes[s]
  BY <1>4 DEF AgentInv, AgentTypes
<1>6. GoneIsQuiet'
  BY <1>1 DEF GoneIsQuiet
<1>7. AgentTypes'
  BY <1>2, <1>5 DEF AgentInv, AgentTypes, Registers, Started
<1>8. ASSUME ~clashed PROVE Alone'
  <2>1. \A s \in Routes : routes[s].at # "joining"
    <3> SUFFICES ASSUME NEW s \in Routes, routes[s].at = "joining" PROVE FALSE
      OBVIOUS
    <3>1. routes[s] # Idling
      BY RouteParts DEF AgentInv
    <3>2. s = r
      BY <1>1, <1>8, <3>1 DEF AgentInv, OneRoute
    <3>3. QED
      BY <1>1, <3>2
  <2>2. /\ GoingIsRegistered' /\ OwnLoop'
        /\ \A b \in Agents : registry'[b] # NoRunner => runners'[registry'[b]].on
    BY <1>1, <1>8, <2>1, LoopsStayOwn
  <2>3. RegisteredIsOn' /\ JoiningIsOff'
    <3>1. RegisteredIsOn'
      BY <2>2 DEF RegisteredIsOn
    <3>2. JoiningIsOff'
      BY <1>4, <1>5, <2>1 DEF JoiningIsOff
    <3>3. QED
      BY <3>1, <3>2
  <2>4. QED
    BY <2>2, <2>3 DEF Alone
<1>9. QED
  BY <1>2, <1>3, <1>6, <1>7, <1>8 DEF Goes, Always

LEMMA StartAgentStep ==
    ASSUME AgentInv, NEW r \in Routes, NEW a \in Agents, StartAgent(r, a)
    PROVE  Goes
<1>1. /\ routes[r].at \in Stages
      /\ UNCHANGED <<status, listed, registry, lateTurns, posted>>
  BY DEF StartAgent, Stages
<1>2. PICK x \in {Idling} \cup [at : Stages, todo : SUBSET Agents] : routes' = [routes EXCEPT ![r] = x]
  <2>1. CASE routes[r] = [at |-> "put", todo |-> {a}]
    <3> DEFINE x == [at |-> "ask", todo |-> Agents]
    <3>1. x \in [at : Stages, todo : SUBSET Agents]
      BY DEF Stages
    <3>2. routes' = [routes EXCEPT ![r] = x]
      BY <2>1 DEF StartAgent
    <3> HIDE DEF x
    <3>3. QED
      BY <3>1, <3>2
  <2>2. CASE routes[r] # [at |-> "put", todo |-> {a}]
    <3>1. ThenLeave(r, a)
      BY <2>2 DEF StartAgent
    <3>2. QED
      BY <1>1, <3>1, LeavesAgent DEF AgentInv
  <2>3. QED
    BY <2>1, <2>2
<1>3. CASE registry[a] = NoRunner
  <2>1. UNCHANGED <<roster, runners, loops, votes>>
    BY <1>3 DEF StartAgent
  <2>2. QED
    BY <1>1, <1>2, <2>1, QuietRouteStep DEF AgentInv, AgentTypes
<1>4. CASE registry[a] # NoRunner
  <2>1. StartRunner(registry[a], a) /\ roster' = [roster EXCEPT ![a].online = TRUE]
    BY <1>4 DEF StartAgent
  <2>2. registry[a] \in RunnerIds
    BY <1>4 DEF AgentInv, AgentTypes
  <2>3. Registers(registry[a], a)
    BY <1>1, <2>1, <2>2, RunnerStarts DEF Registers, AgentInv
  <2>4. roster' \in Rosters /\ VotesStay
    BY <1>1, <2>1, RosterShows DEF VotesStay, AgentInv
  <2>5. QED
    BY <1>1, <1>2, <2>2, <2>3, <2>4, RegisteringStep DEF AgentInv, AgentTypes
<1>5. QED
  BY <1>3, <1>4

LEMMA AgentRegistered ==
    ASSUME AgentInv, NEW a \in Agents, RegisterAgent(a)
    PROVE  \E i \in RunnerIds : Registers(i, a)
<1>1. CASE registry[a] # NoRunner /\ UNCHANGED registry /\ StartRunner(registry[a], a)
  <2>1. registry[a] \in RunnerIds
    BY <1>1 DEF AgentInv, AgentTypes
  <2>2. QED
    BY <1>1, <2>1, RunnerStarts DEF Registers, AgentInv
<1>2. CASE registry[a] = NoRunner /\ \E i \in RunnerIds :
               runners[i] = Unmade /\ registry' = [registry EXCEPT ![a] = i] /\ StartRunner(i, a)
  BY <1>2, RunnerStarts DEF Registers, AgentInv
<1>3. QED
  BY <1>1, <1>2 DEF RegisterAgent

LEMMA RegisterOneStep ==
    ASSUME AgentInv, NEW r \in Routes, NEW a \in Agents, RegisterOne(r, a)
    PROVE  Goes
<1>1. /\ routes[r].at \in Stages /\ ThenLeave(r, a)
      /\ roster' = [roster EXCEPT ![a].online = TRUE]
      /\ UNCHANGED <<status, listed, lateTurns, posted>>
  BY DEF RegisterOne, Stages
<1>2. PICK x \in {Idling} \cup [at : Stages, todo : SUBSET Agents] : routes' = [routes EXCEPT ![r] = x]
  BY <1>1, LeavesAgent DEF AgentInv
<1>3. PICK i \in RunnerIds : Registers(i, a)
  BY AgentRegistered DEF RegisterOne
<1>4. roster' \in Rosters /\ VotesStay
  BY <1>1, RosterShows DEF VotesStay, AgentInv
<1>5. QED
  BY <1>1, <1>2, <1>3, <1>4, RegisteringStep DEF AgentInv, AgentTypes

LEMMA PostOneStep ==
    ASSUME AgentInv, NEW r \in Routes, NEW a \in Agents, PostOne(r, a)
    PROVE  Goes
<1>1. /\ routes[r].at \in Stages /\ ThenLeave(r, a)
      /\ UNCHANGED <<status, lateTurns>>
  BY DEF PostOne, Stages
<1>2. PICK x \in {Idling} \cup [at : Stages, todo : SUBSET Agents] : routes' = [routes EXCEPT ![r] = x]
  BY <1>1, LeavesAgent DEF AgentInv
<1>3. PICK i \in RunnerIds : Registers(i, a)
  BY AgentRegistered DEF PostOne
<1>4. roster' \in Rosters /\ VotesStay /\ listed' \subseteq Rosters /\ posted' \in BOOLEAN
  <2>1. CASE UNCHANGED <<roster, listed, posted>>
    BY <2>1 DEF AgentInv, AgentTypes, VotesStay
  <2>2. CASE /\ \E list \in listed : roster' = [b \in Agents |-> [list[b] EXCEPT !.online = TRUE]]
             /\ listed' = {} /\ posted' = TRUE
    <3>1. PICK list \in Rosters : roster' = [b \in Agents |-> [list[b] EXCEPT !.online = TRUE]]
      BY <2>2 DEF AgentInv, AgentTypes
    <3>2. \A b \in Agents : [list[b] EXCEPT !.online = TRUE] \in [online : BOOLEAN, initial : VotesOf, final : VotesOf]
      BY <3>1 DEF Rosters
    <3>3. roster' \in Rosters
      BY <3>1, <3>2 DEF Rosters
    <3>4. QED
      BY <2>2, <3>3 DEF VotesStay
  <2>3. QED
    BY <2>1, <2>2 DEF PostOne
<1>5. QED
  BY <1>1, <1>2, <1>3, <1>4, RegisteringStep

LEMMA ShowStep ==
    ASSUME AgentInv, NEW r \in Routes, NEW a \in Agents, ShowOffline(r, a) \/ AskAgent(r, a)
    PROVE  Goes
<1>1. /\ routes[r].at \in Stages /\ ThenLeave(r, a)
      /\ UNCHANGED <<status, listed, registry, runners, loops, lateTurns, posted>>
  BY DEF ShowOffline, AskAgent, Stages
<1>2. PICK x \in {Idling} \cup [at : Stages, todo : SUBSET Agents] : routes' = [routes EXCEPT ![r] = x]
  BY <1>1, LeavesAgent DEF AgentInv
<1>3. CASE ShowOffline(r, a)
  <2>1. roster' = [roster EXCEPT ![a].online = FALSE] /\ votes' = votes
    BY <1>3 DEF ShowOffline
  <2>2. /\ roster' \in Rosters
        /\ \A b \in Agents, kind \in Kinds : roster'[b][kind] = roster[b][kind]
    BY <2>1, RosterShows DEF AgentInv
  <2>3. QED
    BY <1>1, <1>2, <2>1, <2>2, QuietRouteStep DEF AgentInv, AgentTypes
<1>4. CASE AskAgent(r, a)
  <2>1. roster' = roster /\ votes' \in [VoteSlots -> VoteSet]
    <3>1. CASE UNCHANGED votes
      BY <1>4, <3>1 DEF AskAgent, AgentInv, AgentTypes
    <3>2. CASE AskVote(a, IF routes[r].at = "ask" THEN "initial" ELSE "final", FALSE)
      BY <1>4, <3>2, VoteAsked DEF AskAgent, AgentInv, Kinds
    <3>3. QED
      BY <1>4, <3>1, <3>2 DEF AskAgent
  <2>2. QED
    BY <1>1, <1>2, <2>1, QuietRouteStep DEF AgentInv, AgentTypes
<1>5. QED
  BY <1>3, <1>4

LEMMA StopAgentStep ==
    ASSUME AgentInv, NEW r \in Routes, NEW a \in Agents, StopAgent(r, a)
    PROVE  Goes
<1>1. /\ routes[r].at \in Stages /\ routes[r].at = "stop" /\ a \in routes[r].todo
      /\ UNCHANGED <<status, roster, listed, registry, loops, votes, lateTurns, posted>>
  BY DEF StopAgent, Stages
<1>2. status # "gone" /\ routes[r] # Idling
  BY <1>1, WorkGoesOn
<1>3. CASE registry[a] = NoRunner
  <2>1. ThenLeave(r, a) /\ UNCHANGED runners
    BY <1>3 DEF StopAgent
  <2>2. PICK x \in {Idling} \cup [at : Stages, todo : SUBSET Agents] : routes' = [routes EXCEPT ![r] = x]
    BY <1>1, <2>1, LeavesAgent DEF AgentInv
  <2>3. QED
    BY <1>1, <2>1, <2>2, QuietRouteStep DEF AgentInv, AgentTypes
<1>4. CASE registry[a] # NoRunner
  <2> DEFINE i == registry[a]
  <2> DEFINE off == [runners[i] EXCEPT !.on = FALSE]
  <2> DEFINE x == [at |-> "joining", todo |-> routes[r].todo, agent |-> a]
  <2>1. /\ runners' = [runners EXCEPT ![i] = off] /\ routes' = [routes EXCEPT ![r] = x]
        /\ i \in RunnerIds
    BY <1>4 DEF StopAgent, AgentInv, AgentTypes
  <2>2. runners[i] # Unmade /\ runners[i].who = a
    BY <1>4, Letters DEF AgentInv, Always, RunnersKnown
  <2>3. off \in RunnerSet /\ off.who = a /\ ~off.on /\ off # Unmade
    <3>1. runners[i] \in [who : Agents, on : BOOLEAN]
      BY <2>1, <2>2, RunnerParts DEF AgentInv
    <3>2. QED
      BY <2>2, <3>1, Letters DEF RunnerSet
  <2>4. x \in RouteSet /\ x.at = "joining" /\ x.agent = a
    <3>1. routes[r].todo \in SUBSET Agents
      BY <1>1, RouteParts DEF AgentInv
    <3>2. QED
      BY <3>1 DEF RouteSet
  <2> HIDE DEF off, x
  <2>5. /\ runners' \in [RunnerIds -> RunnerSet] /\ runners'[i] = off
        /\ \A j \in RunnerIds \ {i} : runners'[j] = runners[j]
    BY <2>1, <2>3 DEF AgentInv, AgentTypes
  <2>6. /\ routes' \in [Routes -> RouteSet] /\ routes'[r] = x
        /\ \A s \in Routes \ {r} : routes'[s] = routes[s]
    BY <2>4, <2>1 DEF AgentInv, AgentTypes
  <2>7. \A j \in RunnerIds : /\ runners'[j].who = runners[j].who
                             /\ runners[j] # Unmade => runners'[j] # Unmade
                             /\ runners'[j].on => runners[j].on
    BY <2>2, <2>3, <2>5
  <2>8. AgentTypes'
    BY <1>1, <2>5, <2>6 DEF AgentInv, AgentTypes
  <2>9. \A m \in LoopSlots : loops[m] # NoLoop => loops[m].runner \in RunnerIds
    BY LoopParts DEF AgentInv
  <2>10. VotesBeforeTurns' /\ TurnsCounted'
    <3>1. VotesStay
      BY <1>1 DEF VotesStay
    <3>2. \A m \in LoopSlots : loops'[m].at = "call" => loops[m].at = "call" /\ Who(m)' = Who(m)
      BY <1>1, <2>7, <2>9, Letters DEF Who
    <3>3. QED
      BY <1>1, <3>1, <3>2, VotedBefore, CountStays
  <2>11. RunnersKnown'
    <3>1. \A b \in Agents : registry[b] # NoRunner => registry[b] \in RunnerIds
      BY DEF AgentInv, AgentTypes
    <3>2. QED
      BY <1>1, <2>7, <2>9, <3>1 DEF AgentInv, Always, RunnersKnown
  <2>12. GoneIsQuiet'
    BY <1>1, <1>2 DEF GoneIsQuiet
  <2>13. ASSUME ~clashed PROVE Alone'
    <3>1. \A s \in Routes \ {r} : routes[s].at # "joining"
      BY <1>2, <2>13, RouteParts DEF AgentInv, OneRoute
    <3>2. \A b \in Agents : registry[b] # NoRunner => registry[b] \in RunnerIds /\ runners[registry[b]].on
      BY <1>1, <1>2, <2>13, <3>1, Letters DEF AgentInv, AgentTypes, Alone, RegisteredIsOn
    <3>3. RegisteredIsOn'
      <4> SUFFICES ASSUME NEW b \in Agents, registry'[b] # NoRunner, ~runners'[registry'[b]].on
                   PROVE  \E s \in Routes : routes'[s].at = "joining" /\ routes'[s].agent = b
        BY DEF RegisteredIsOn
      <4>1. registry[b] = i
        BY <1>1, <2>5, <3>2
      <4>2. b = a
        BY <2>2, <4>1, <1>1, Letters DEF AgentInv, Always, RunnersKnown
      <4>3. QED
        BY <2>4, <2>6, <4>2
    <3>4. JoiningIsOff'
      BY <1>1, <2>3, <2>4, <2>5, <2>6, <3>1 DEF JoiningIsOff
    <3>5. \A m \in LoopSlots : Going(m)' => Going(m) /\ Who(m)' = Who(m) /\ loops'[m].runner = loops[m].runner
      BY <1>1, <2>7, <2>9 DEF Going, Who
    <3>6. GoingIsRegistered' /\ OwnLoop'
      BY <1>1, <2>13, <3>5 DEF AgentInv, Alone, GoingIsRegistered, OwnLoop
    <3>7. QED
      BY <3>3, <3>4, <3>6 DEF Alone
  <2>14. QED
    BY <2>8, <2>10, <2>11, <2>12, <2>13 DEF Goes, Always
<1>5. QED
  BY <1>3, <1>4

(* The runner that a request waited for leaves the registry.                 *)
LEMMA JoinedStep ==
    ASSUME AgentInv, NEW r \in Routes, Joined(r)
    PROVE  Goes
<1>1. /\ routes[r].at = "joining"
      /\ UNCHANGED <<status, listed, runners, loops, votes, lateTurns, posted>>
  BY DEF Joined
<1>2. status # "gone" /\ routes[r] # Idling
  BY <1>1, WorkGoesOn
<1> DEFINE a == routes[r].agent
<1>3. routes[r] \in [at : {"joining"}, todo : SUBSET Agents, agent : Agents] /\ a \in Agents
  BY <1>1, RouteParts DEF AgentInv
<1>4. PICK x \in {Idling} \cup [at : Stages, todo : SUBSET Agents] : routes' = [routes EXCEPT ![r] = x]
  <2>1. CASE routes' = [routes EXCEPT ![r] = Idling]
    BY <2>1
  <2>2. CASE routes' = [routes EXCEPT ![r] = IF @.todo = {a} THEN Idling
                                             ELSE [at |-> "stop", todo |-> @.todo \ {a}]]
    <3> DEFINE x == IF routes[r].todo = {a} THEN Idling ELSE [at |-> "stop", todo |-> routes[r].todo \ {a}]
    <3>1. x \in {Idling} \cup [at : Stages, todo : SUBSET Agents]
      BY <1>3 DEF Stages
    <3>2. routes' = [routes EXCEPT ![r] = x]
      BY <2>2
    <3> HIDE DEF x
    <3>3. QED
      BY <3>1, <3>2
  <2>3. QED
    BY <2>1, <2>2 DEF Joined
<1>5. /\ registry' \in [Agents -> RunnerIds \cup {NoRunner}] /\ registry'[a] = NoRunner
      /\ \A b \in Agents \ {a} : registry'[b] = registry[b]
      /\ roster' \in Rosters
      /\ \A b \in Agents, kind \in Kinds : roster'[b][kind] = roster[b][kind]
  <2>1. CASE registry[a] = NoRunner
    <3>1. UNCHANGED <<registry, roster>>
      BY <2>1 DEF Joined
    <3>2. QED
      BY <2>1, <3>1 DEF AgentInv, AgentTypes
  <2>2. CASE registry[a] # NoRunner
    <3>1. registry' = [registry EXCEPT ![a] = NoRunner] /\ roster' = [roster EXCEPT ![a].online = FALSE]
      BY <2>2 DEF Joined
    <3>2. QED
      BY <1>3, <3>1, RosterShows DEF AgentInv, AgentTypes
  <2>3. QED
    BY <2>1, <2>2
<1> HIDE DEF a
<1>6. x \in RouteSet /\ x.at # "joining"
  BY Letters DEF RouteSet
<1>7. /\ routes' \in [Routes -> RouteSet] /\ routes'[r] = x
      /\ \A s \in Routes \ {r} : routes'[s] = routes[s]
  BY <1>4, <1>6 DEF AgentInv, AgentTypes
<1>8. AgentTypes'
  BY <1>1, <1>5, <1>7 DEF AgentInv, AgentTypes
<1>9. VotesBeforeTurns' /\ TurnsCounted'
  <2>1. VotesStay
    BY <1>1, <1>5 DEF VotesStay
  <2>2. QED
    BY <1>1, <2>1, VotedBefore, CountStays DEF Who
<1>10. RunnersKnown'
  BY <1>1, <1>5 DEF AgentInv, Always, RunnersKnown
<1>11. GoneIsQuiet'
  BY <1>1, <1>2 DEF GoneIsQuiet
<1>12. ASSUME ~clashed PROVE Alone'
  <2>1. \A s \in Routes \ {r} : routes[s].at # "joining"
    BY <1>2, <1>12, RouteParts DEF AgentInv, OneRoute
  <2>2. RegisteredIsOn'
    <3> SUFFICES ASSUME NEW b \in Agents, registry'[b] # NoRunner, ~runners'[registry'[b]].on
                 PROVE  FALSE
      BY DEF RegisteredIsOn
    <3>1. b # a /\ registry[b] # NoRunner /\ ~runners[registry[b]].on
      BY <1>1, <1>5
    <3>2. PICK s \in Routes : routes[s].at = "joining" /\ routes[s].agent = b
      BY <1>2, <1>12, <3>1 DEF AgentInv, Alone, RegisteredIsOn
    <3>3. s = r
      BY <2>1, <3>2
    <3>4. QED
      BY <3>1, <3>2, <3>3 DEF a
  <2>3. JoiningIsOff'
    BY <1>6, <1>7, <2>1 DEF JoiningIsOff
  <2>4. \A m \in LoopSlots : Going(m) => Who(m) # a /\ Who(m) \in Agents
    <3> SUFFICES ASSUME NEW m \in LoopSlots, Going(m) PROVE Who(m) # a /\ Who(m) \in Agents
      OBVIOUS
    <3>1. /\ loops[m] # NoLoop /\ loops[m].runner \in RunnerIds /\ runners[loops[m].runner].on
          /\ registry[Who(m)] = loops[m].runner
      BY <1>12, LoopParts DEF Going, AgentInv, Alone, GoingIsRegistered
    <3>2. Who(m) \in Agents
      BY <3>1, RunnerParts DEF AgentInv, Always, RunnersKnown, Who
    <3>3. registry[a] # NoRunner => ~runners[registry[a]].on
      BY <1>1, <1>12 DEF AgentInv, Alone, JoiningIsOff, a
    <3>4. QED
      BY <3>1, <3>2, <3>3, Letters
  <2>5. GoingIsRegistered'
    BY <1>1, <1>5, <1>12, <2>4 DEF AgentInv, Alone, GoingIsRegistered, Going, Who
  <2>6. OwnLoop'
    BY <1>1, <1>12 DEF AgentInv, Alone, OwnLoop, Going
  <2>7. QED
    BY <2>2, <2>3, <2>5, <2>6 DEF Alone
<1>13. QED
  BY <1>8, <1>9, <1>10, <1>11, <1>12 DEF Goes, Always

-----------------------------------------------------------------------------
(* The invariant holds at the start and is kept by every step.               *)
LEMMA AtMostOne ==
    ASSUME NEW S, IsFiniteSet(S), ~(Cardinality(S) > 1)
    PROVE  \A x, y \in S : x = y
<1> SUFFICES ASSUME NEW x \in S, NEW y \in S, x # y PROVE FALSE
  OBVIOUS
<1>1. IsFiniteSet({x}) /\ Cardinality({x}) = 1
  BY FS_Singleton
<1>2. IsFiniteSet({x} \cup {y}) /\ Cardinality({x} \cup {y}) = 2
  <2>1. y \notin {x}
    OBVIOUS
  <2>2. Cardinality({x} \cup {y}) = Cardinality({x}) + 1
    BY <1>1, <2>1, FS_AddElement
  <2>3. QED
    BY <1>1, <2>2, FS_AddElement
<1>3. Cardinality({x} \cup {y}) <= Cardinality(S)
  BY FS_Subset
<1>4. Cardinality(S) \in Nat
  BY FS_CardinalityType
<1>5. QED
  BY <1>2, <1>3, <1>4

LEMMA AgentInitInvariant == AgentInit => AgentInv
<1> SUFFICES ASSUME AgentInit PROVE AgentInv
  OBVIOUS
<1>1. AgentTypes
  <2>1. [online |-> FALSE, initial |-> "none", final |-> "none"] \in [online : BOOLEAN, initial : VotesOf, final : VotesOf]
    BY DEF VotesOf
  <2>2. roster \in Rosters
    BY <2>1 DEF AgentInit, Rosters
  <2>3. QED
    BY <2>2 DEF AgentInit, AgentTypes, RunnerSet, LoopSet, VoteSet, RouteSet
<1>2. Always
  BY Letters DEF AgentInit, Always, RunnersKnown, VotesBeforeTurns, TurnsCounted, GoneIsQuiet
<1>3. OneRoute /\ Alone /\ clashed \in BOOLEAN
  BY Letters DEF AgentInit, OneRoute, Alone, RegisteredIsOn, JoiningIsOff, GoingIsRegistered, OwnLoop, Going
<1>4. QED
  BY <1>1, <1>2, <1>3 DEF AgentInv

LEMMA AgentNextInvariant == AgentInv /\ [AgentNext]_agentVars => AgentInv'
<1> SUFFICES ASSUME AgentInv, [AgentNext]_agentVars PROVE AgentInv'
  OBVIOUS
<1>1. CASE AgentNext
  <2>1. Goes
    <3>1. AgentStep
      BY <1>1 DEF AgentNext
    <3>2. QED
      BY <3>1, VoteThreadStep, WakeStep, TurnStep, RequestStep, DeleteStep, RestartStep, FetchStep, StartAgentStep,
         StopAgentStep, JoinedStep, ShowStep, RegisterOneStep, PostOneStep DEF AgentStep, LoopStep
  <2>2. clashed' \in BOOLEAN /\ (~clashed' => ~clashed /\ OneRoute')
    <3>1. clashed' = (clashed \/ Cardinality({r \in Routes : routes'[r] # Idling}) > 1)
      BY <1>1 DEF AgentNext
    <3>2. IsFiniteSet({r \in Routes : routes'[r] # Idling})
      <4>1. {r \in Routes : routes'[r] # Idling} \subseteq Routes
        OBVIOUS
      <4>2. QED
        BY <4>1, AgentAssumption, FS_Subset
    <3>3. ASSUME ~clashed' PROVE ~clashed /\ OneRoute'
      <4>1. ~clashed /\ ~(Cardinality({r \in Routes : routes'[r] # Idling}) > 1)
        BY <3>1, <3>3
      <4>2. \A r, s \in {q \in Routes : routes'[q] # Idling} : r = s
        BY <3>2, <4>1, AtMostOne
      <4>3. QED
        BY <4>1, <4>2 DEF OneRoute
    <3>4. clashed' \in BOOLEAN
      BY <3>1 DEF AgentInv
    <3>5. QED
      BY <3>3, <3>4
  <2>3. QED
    BY <2>1, <2>2 DEF Goes, AgentInv
<1>2. CASE UNCHANGED agentVars
  <2>1. /\ UNCHANGED <<status, roster, listed, registry, runners, loops, votes>>
        /\ UNCHANGED <<routes, lateTurns, clashed, posted>>
    BY <1>2 DEF agentVars
  <2>2. AgentTypes' /\ OneRoute' = OneRoute
    BY <2>1 DEF AgentInv, AgentTypes, OneRoute
  <2>3. Always'
    BY <2>1 DEF AgentInv, Always, RunnersKnown, VotesBeforeTurns, TurnsCounted, GoneIsQuiet, Who
  <2>4. ~clashed => Alone'
    BY <2>1 DEF AgentInv, Alone, RegisteredIsOn, JoiningIsOff, GoingIsRegistered, OwnLoop, Going, Who
  <2>5. QED
    BY <2>1, <2>2, <2>3, <2>4 DEF AgentInv
<1>3. QED
  BY <1>1, <1>2

LEMMA AgentInvariantSuffices == AgentInv => AgentsInOrder
<1> SUFFICES ASSUME AgentInv PROVE AgentsInOrder
  OBVIOUS
<1>1. AgentTypeOK
  BY DEF AgentInv, AgentTypes, Rosters, VotesOf, Always, RunnersKnown, AgentTypeOK
<1>2. VotesBeforeTurns /\ OneLateTurn
  BY DEF AgentInv, Always, TurnsCounted, OneLateTurn
<1>3. RunningIsRegistered
  BY DEF AgentInv, Alone, GoingIsRegistered, Going, RunningIsRegistered
<1>4. OneLoop
  <2> SUFFICES ASSUME ~clashed, NEW a \in Agents
               PROVE  Cardinality({l \in LoopSlots : loops[l] # NoLoop /\ Who(l) = a
                                                     /\ runners[loops[l].runner].on}) <= 1
    BY DEF OneLoop
  <2> DEFINE L == {l \in LoopSlots : loops[l] # NoLoop /\ Who(l) = a /\ runners[loops[l].runner].on}
  <2>1. \A l, m \in L : l = m
    <3> SUFFICES ASSUME NEW l \in L, NEW m \in L PROVE l = m
      OBVIOUS
    <3>1. Going(l) /\ Going(m) /\ loops[l].runner = loops[m].runner
      BY DEF AgentInv, Alone, GoingIsRegistered, Going
    <3>2. QED
      BY <3>1 DEF AgentInv, Alone, OwnLoop
  <2> HIDE DEF L
  <2>2. Cardinality(L) <= 1
    <3>1. CASE L = {}
      BY <3>1, FS_EmptySet
    <3>2. CASE L # {}
      <4>1. PICK l \in L : TRUE
        BY <3>2
      <4>2. L = {l}
        BY <2>1, <4>1
      <4>3. Cardinality({l}) = 1
        BY FS_Singleton
      <4>4. QED
        BY <4>2, <4>3
    <3>3. QED
      BY <3>1, <3>2
  <2>3. QED
    BY <2>2 DEF L
<1>5. QED
  BY <1>1, <1>2, <1>3, <1>4 DEF AgentsInOrder

(* However many threads, requests and restarts there are: an agent votes     *)
(* before it takes part, takes one late turn at most after its session       *)
(* stopped, and, if requests come one after the other, has one loop, which   *)
(* the registry knows (agent_runner.py, start and _perception_loop).         *)
THEOREM AgentsStayInOrder == AgentSpec => []AgentsInOrder
<1>1. AgentSpec => []AgentInv
  BY AgentInitInvariant, AgentNextInvariant, PTL DEF AgentSpec
<1>2. QED
  BY <1>1, AgentInvariantSuffices, PTL

LEMMA VotesAreKept ==
    ASSUME AgentInv, [AgentNext]_agentVars, ~posted'
    PROVE  \A a \in Agents, kind \in Kinds : roster[a][kind] # "none" => roster'[a][kind] = roster[a][kind]
<1> DEFINE Stays == \A a \in Agents, kind \in Kinds : roster[a][kind] # "none" => roster'[a][kind] = roster[a][kind]
<1>1. CASE UNCHANGED roster
  BY <1>1
<1>2. CASE \E a \in Agents, b \in BOOLEAN : roster' = [roster EXCEPT ![a].online = b]
  BY <1>2, RosterShows DEF AgentInv
<1>3. CASE \E a \in Agents, kind \in Kinds, c \in Candidates : CastVote(a, kind, c)
  BY <1>3, RosterVotes DEF AgentInv
<1>4. ASSUME NEW v \in VoteSlots, Vote(v) PROVE Stays
  <2>1. votes[v] \in [who : Agents, kind : Kinds, own : BOOLEAN, at : {"check", "call"}]
    BY <1>4, Letters DEF Vote, AgentInv, AgentTypes, VoteSet
  <2>2. QED
    BY <1>1, <1>3, <1>4, <2>1 DEF Vote
<1>5. ASSUME NEW l \in LoopSlots, Turn(l) PROVE Stays
  <2>1. loops[l] # NoLoop /\ loops[l].runner \in RunnerIds
    BY <1>5, LoopParts, Letters DEF Turn, AgentInv
  <2>2. Who(l) \in Agents
    BY <2>1, RunnerParts DEF AgentInv, Always, RunnersKnown, Who
  <2>3. QED
    BY <1>1, <1>3, <1>5, <2>2 DEF Turn, ExecuteActions
<1>6. ASSUME NEW r \in Routes, NEW a \in Agents, StartAgent(r, a) \/ ShowOffline(r, a) \/ RegisterOne(r, a) PROVE Stays
  BY <1>1, <1>2, <1>6 DEF StartAgent, ShowOffline, RegisterOne
<1>7. ASSUME NEW r \in Routes, Joined(r) PROVE Stays
  <2>1. routes[r].agent \in Agents
    BY <1>7, RouteParts DEF Joined, AgentInv
  <2>2. QED
    BY <1>1, <1>2, <1>7, <2>1 DEF Joined
<1>8. ASSUME NEW r \in Routes, NEW a \in Agents, PostOne(r, a) PROVE Stays
  BY <1>1, <1>8 DEF PostOne
<1>9. ASSUME NEW v \in VoteSlots, TriggerVote(v) PROVE Stays
  BY <1>1, <1>9 DEF TriggerVote
<1>10. ASSUME NEW l \in LoopSlots, Wake(l) \/ CallFails(l) PROVE Stays
  BY <1>1, <1>10 DEF Wake, CallFails
<1>11. ASSUME NEW r \in Routes,
              \/ \E s \in {"running", "paused", "waiting"} : SetStatus(r, s)
              \/ SetType(r) \/ PutRunning(r) \/ TimeIsUp(r) \/ Post(r)
       PROVE  Stays
  BY <1>1, <1>11 DEF SetStatus, SetType, PutRunning, TimeIsUp, Post
<1>12. ASSUME NEW r \in Routes, NEW a \in Agents, StopAgent(r, a) \/ AskAgent(r, a) PROVE Stays
  BY <1>1, <1>12 DEF StopAgent, AskAgent
<1>13. ASSUME Fetch \/ (\E a \in Agents, kind \in Kinds : Popup(a, kind)) \/ DeleteSession \/ RestartAgents PROVE Stays
  BY <1>1, <1>13 DEF Fetch, Popup, DeleteSession, RestartAgents
<1>14. CASE UNCHANGED agentVars
  BY <1>1, <1>14 DEF agentVars
<1>15. CASE AgentNext
  <2>1. AgentStep
    BY <1>15 DEF AgentNext
  <2> HIDE DEF Stays
  <2>2. QED
    BY <2>1, <1>4, <1>5, <1>6, <1>7, <1>8, <1>9, <1>10, <1>11, <1>12, <1>13 DEF AgentStep, LoopStep, Stays
<1>16. QED
  BY <1>14, <1>15

(* However many threads ask an agent for its vote, and whatever becomes of   *)
(* its runner, the vote it has cast stays until participants are posted.     *)
THEOREM AgentVotesStay == AgentSpec => VoteIsFinal
<1>1. AgentSpec => []AgentInv
  BY AgentInitInvariant, AgentNextInvariant, PTL DEF AgentSpec
<1>2. AgentInv /\ [AgentNext]_agentVars =>
      [~posted' => \A a \in Agents, kind \in Kinds :
                       roster[a][kind] # "none" => roster'[a][kind] = roster[a][kind]]_agentVars
  BY VotesAreKept
<1>3. QED
  BY <1>1, <1>2, PTL DEF AgentSpec, VoteIsFinal
=============================================================================
