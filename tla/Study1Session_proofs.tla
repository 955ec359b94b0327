------------------------ MODULE Study1Session_proofs ------------------------
(***************************************************************************)
(* Proofs about Study1Session, for every number of handlers, both protocol   *)
(* modes and every bound.                                                    *)
(***************************************************************************)
EXTENDS Study1Session, TLAPS

-----------------------------------------------------------------------------
(* The formal projection is monotone: records are only ever added.           *)

Grows(r, s) ==
    /\ r.submissions \subseteq s.submissions
    /\ r.decisions \subseteq s.decisions
    /\ r.responses \subseteq s.responses
    /\ r.media \subseteq s.media
    /\ r.ui \subseteq s.ui
    /\ r.artifacts \subseteq s.artifacts
    /\ r.locks \subseteq s.locks
    /\ r.opened => s.opened

LEMMA IndividualKeysMonotone ==
    ASSUME NEW r, NEW s, Grows(r, s)
    PROVE  IndividualKeys(r) \subseteq IndividualKeys(s)
BY DEF Grows, IndividualKeys

LEMMA SharedKeysMonotone ==
    ASSUME NEW r, NEW s, Grows(r, s)
    PROVE  SharedKeys(r) \subseteq SharedKeys(s)
BY IndividualKeysMonotone DEF Grows, SharedKeys

LEMMA MediaKeysMonotone ==
    ASSUME NEW r, NEW s, Grows(r, s)
    PROVE  MediaKeys(r) \subseteq MediaKeys(s)
BY DEF Grows, MediaKeys

LEMMA ReviewKeysMonotone ==
    ASSUME NEW r, NEW s, Grows(r, s)
    PROVE  ReviewKeys(r) \subseteq ReviewKeys(s)
BY DEF Grows, ReviewKeys

(* A longer list of records never projects fewer completion keys: whatever   *)
(* advance read before it took the lock is still true when it commits.       *)
LEMMA ProjectionMonotone ==
    ASSUME NEW r, NEW s, Grows(r, s)
    PROVE  project_formal_completion(r) \subseteq project_formal_completion(s)
<1>1. ResponseKeys(r) \subseteq ResponseKeys(s)
  BY DEF Grows, ResponseKeys
<1>2. QED
  BY <1>1, IndividualKeysMonotone, SharedKeysMonotone, MediaKeysMonotone,
     ReviewKeysMonotone DEF project_formal_completion

LEMMA LegacyNameType == \A kind \in DecisionKinds : legacy_name[kind] \in SubmissionTypes
BY DEF legacy_name, DecisionKinds, SubmissionTypes

(* Every projected key is a key of the completion map.                       *)
LEMMA ProjectionType ==
    ASSUME NEW r \in Records
    PROVE  project_formal_completion(r) \in SUBSET Keys
<1>1. IndividualKeys(r) \subseteq Keys
  BY DEF Records, IndividualKeys, Keys
<1>2. SharedKeys(r) \subseteq Keys
  BY DEF SharedKeys, Keys, Done, By, SubmissionTypes
<1>3. MediaKeys(r) \subseteq Keys
  BY DEF MediaKeys, Keys, Done
<1>4. ReviewKeys(r) \subseteq Keys
  BY DEF ReviewKeys, Keys, ReadingRecorded, ReviewOpened, MinimumTimeMet, HUMAN_ROLES
<1>5. ResponseKeys(r) \subseteq Keys
  BY DEF ResponseKeys, Records, Keys, completion_by_phase, SubmissionTypes, HUMAN_ROLES,
         InstrumentNames
<1>6. QED
  BY <1>1, <1>2, <1>3, <1>4, <1>5 DEF project_formal_completion

-----------------------------------------------------------------------------
(* What the handlers have read: a formal advance carries a part of the       *)
(* projection, and a pending mark has its record.                            *)
Backed(request, keys) ==
    /\ request.op = "advance" /\ FormalV2 => request.seen \subseteq keys
    /\ request.op = "mark" => <<request.name, request.role>> \in keys

RequestsBacked == \A r \in Requests : Backed(requests[r], projected)

IInv == TypeOK /\ StoredIsBacked /\ RequestsBacked /\ EarnedPhases /\ VersionIdentifiesPhase

LEMMA PhasesAreNumbers ==
    /\ Phases = 0 .. 14
    /\ COMPLETED = 14
    /\ MATERIAL_READING = 1
    /\ SETUP = 0
BY DEF Phases, SETUP, COMPLETED, MATERIAL_READING

LEMMA InitTyped == Init => TypeOK
<1> SUFFICES ASSUME Init PROVE TypeOK
  OBVIOUS
<1>1. phase \in Phases /\ phase_version \in Nat
  BY PhasesAreNumbers DEF Init
<1>2. requests \in [Requests -> RequestSet]
  BY DEF Init, Idle, RequestSet
<1>3. records \in Records
  BY DEF Init, Records
<1>4. last_transition \in [phase : Phases, satisfied : BOOLEAN,
                          override : BOOLEAN, completion : SUBSET Keys]
  BY <1>1 DEF Init
<1>5. status \in Statuses /\ time_passed \in BOOLEAN /\ overrides \in Nat
       /\ media_status \in {"mock_idle", "ready", "error"} /\ crashes \in Nat
       /\ completion \in SUBSET Keys
  BY DEF Init, Statuses
<1>6. QED
  BY <1>1, <1>2, <1>3, <1>4, <1>5 DEF TypeOK

LEMMA ReadTyped ==
    ASSUME TypeOK, NEW r \in Requests, NEW request \in RequestSet, Read(r, request)
    PROVE  TypeOK'
BY DEF TypeOK, Read, snapshot

LEMMA RejectTyped ==
    ASSUME TypeOK, NEW r \in Requests, Reject(r)
    PROVE  TypeOK'
<1>1. Idle \in RequestSet
  BY DEF Idle, RequestSet
<1>2. QED
  BY <1>1 DEF TypeOK, Reject, Finish, snapshot

LEMMA TransitionTyped ==
    ASSUME TypeOK, NEW target \in Phases, NEW done \in SUBSET Keys,
           NEW override \in BOOLEAN, TransitionTo(target, done, override)
    PROVE  /\ phase' \in Phases
           /\ phase_version' \in Nat
           /\ overrides' \in Nat
           /\ last_transition' \in [phase : Phases, satisfied : BOOLEAN,
                                     override : BOOLEAN, completion : SUBSET Keys]
BY DEF TypeOK, TransitionTo
LEMMA RequestFields ==
    ASSUME NEW q \in RequestSet
    PROVE  /\ q.op = "advance" => /\ q.target \in Phases
                                  /\ q.override \in BOOLEAN
                                  /\ q.seen \in SUBSET Keys
           /\ q.op = "submit" => q.type \in SubmissionTypes /\ q.role \in HUMAN_ROLES
           /\ q.op = "decision" => q.kind \in DecisionKinds /\ q.role \in HUMAN_ROLES
           /\ q.op = "response" => q.name \in InstrumentNames /\ q.role \in HUMAN_ROLES
           /\ q.op = "mark" => q.name \in SubmissionTypes /\ q.role \in HUMAN_ROLES
           /\ q.op = "confirm" => q.kind \in SharedKinds
BY DEF RequestSet

LEMMA RequestsMade ==
    /\ Idle \in RequestSet
    /\ [op |-> "start"] \in RequestSet
    /\ \A target \in Phases, override \in BOOLEAN, seen \in SUBSET Keys :
          [op |-> "advance", target |-> target, override |-> override, seen |-> seen]
              \in RequestSet
    /\ \A type \in SubmissionTypes, role \in HUMAN_ROLES :
          [op |-> "submit", type |-> type, role |-> role] \in RequestSet
    /\ \A kind \in DecisionKinds, role \in HUMAN_ROLES :
          [op |-> "decision", kind |-> kind, role |-> role] \in RequestSet
    /\ \A name \in InstrumentNames, role \in HUMAN_ROLES :
          [op |-> "response", name |-> name, role |-> role] \in RequestSet
    /\ \A name \in SubmissionTypes, role \in HUMAN_ROLES :
          Marking(name, role) \in RequestSet
    /\ \A kind \in SharedKinds : [op |-> "confirm", kind |-> kind] \in RequestSet
BY DEF Idle, RequestSet, Marking

LEMMA KeysMade ==
    /\ \A type \in SubmissionTypes, role \in HUMAN_ROLES : <<type, role>> \in Keys
    /\ \A kind \in SharedKinds : LockKeys(kind) \in SUBSET Keys
    /\ \A type : EventKeys(type) \in SUBSET Keys
    /\ {ReviewOpened, ReadingRecorded, MinimumTimeMet} \subseteq Keys
    /\ Done("summary_artifact_ready") \in Keys
BY DEF Keys, LockKeys, EventKeys, Done, By, HUMAN_ROLES, SubmissionTypes,
       ReviewOpened, ReadingRecorded, MinimumTimeMet
-----------------------------------------------------------------------------
(* Every step keeps the types.                                               *)
LEMMA ResearcherTyped ==
    ASSUME TypeOK, Researcher
    PROVE  TypeOK'
<1>1. ASSUME NEW r \in Requests, NEW target \in Targets, NEW override \in BOOLEAN,
             AdvanceRead(r, target, override)
      PROVE  TypeOK'
  <2>1. (IF FormalV2 THEN projected ELSE {}) \in SUBSET Keys
    BY ProjectionType DEF TypeOK, projected
  <2>2. [op |-> "advance", target |-> target, override |-> override,
         seen |-> IF FormalV2 THEN projected ELSE {}] \in RequestSet
    BY <2>1, RequestsMade, Study1SessionAssumption
  <2>3. QED
    BY <1>1, <2>2, ReadTyped DEF AdvanceRead
<1>2. ASSUME NEW r \in Requests, AdvanceCommit(r)
      PROVE  TypeOK'
  <2> DEFINE request == requests[r]
             done == IF FormalV2 THEN request.seen ELSE completion
  <2>1. request \in RequestSet /\ request.op = "advance"
    BY <1>2 DEF TypeOK, AdvanceCommit
  <2>2. request.target \in Phases /\ request.override \in BOOLEAN /\ done \in SUBSET Keys
    BY <2>1, RequestFields DEF TypeOK
  <2>3. CASE advance_allowed(request, done)
    <3>1. TransitionTo(request.target, done, request.override)
      BY <1>2, <2>3 DEF AdvanceCommit
    <3>2. status' \in Statuses
      BY <1>2, <2>3 DEF AdvanceCommit, TypeOK, Statuses
    <3>3. requests' \in [Requests -> RequestSet]
      BY <1>2, <2>3, RequestsMade DEF AdvanceCommit, TypeOK, Finish
    <3>4. UNCHANGED <<completion, records, time_passed, media_status, crashes>>
      BY <1>2, <2>3 DEF AdvanceCommit
    <3>5. QED
      BY <2>2, <3>1, <3>2, <3>3, <3>4, TransitionTyped DEF TypeOK
  <2>4. CASE ~advance_allowed(request, done)
    BY <1>2, <2>4, RejectTyped DEF AdvanceCommit
  <2>5. QED
    BY <2>3, <2>4
<1>3. ASSUME NEW r \in Requests, StartRead(r)
      PROVE  TypeOK'
  BY <1>3, ReadTyped, RequestsMade DEF StartRead
<1>4. ASSUME NEW r \in Requests, StartCommit(r)
      PROVE  TypeOK'
  <2>1. CASE start_allowed
    <3>1. TransitionTo(MATERIAL_READING, completion, FALSE)
      BY <1>4, <2>1 DEF StartCommit
    <3>2. status' \in Statuses /\ requests' \in [Requests -> RequestSet]
      BY <1>4, <2>1, RequestsMade DEF StartCommit, TypeOK, Finish, Statuses
    <3>3. UNCHANGED <<completion, records, time_passed, media_status, crashes>>
      BY <1>4, <2>1 DEF StartCommit
    <3>4. MATERIAL_READING \in Phases
      BY PhasesAreNumbers
    <3>5. QED
      BY <3>1, <3>2, <3>3, <3>4, TransitionTyped DEF TypeOK
  <2>2. CASE ~start_allowed
    BY <1>4, <2>2, RejectTyped DEF StartCommit
  <2>3. QED
    BY <2>1, <2>2
<1>5. ASSUME Pause \/ Resume \/ Terminate
      PROVE  TypeOK'
  BY <1>5 DEF TypeOK, Pause, Resume, Terminate, Control, Statuses
<1>6. QED
  BY <1>1, <1>2, <1>3, <1>4, <1>5 DEF Researcher

LEMMA InsertTyped ==
    ASSUME TypeOK, NEW r \in Requests,
           NEW rows \in Records, NEW keys \in SUBSET Keys, NEW next \in RequestSet,
           records' = rows, completion' = completion \cup keys,
           requests' = [requests EXCEPT ![r] = next],
           UNCHANGED <<snapshot, time_passed, media_status>>
    PROVE  TypeOK'
BY DEF TypeOK, snapshot

LEMMA WriteTyped ==
    ASSUME TypeOK, NEW rows \in Records, NEW keys \in SUBSET Keys,
           records' = rows, completion' = completion \cup keys,
           UNCHANGED <<snapshot, time_passed, media_status, requests>>
    PROVE  TypeOK'
BY DEF TypeOK, snapshot

(* Adding a well-typed row to the records gives records.                     *)
LEMMA RowsAdded ==
    ASSUME NEW rs \in Records
    PROVE  /\ \A k \in SubmissionTypes \X HUMAN_ROLES :
                 [rs EXCEPT !.submissions = @ \cup {k}] \in Records
           /\ \A k \in DecisionKinds \X HUMAN_ROLES :
                 [rs EXCEPT !.decisions = @ \cup {k}] \in Records
           /\ \A k \in InstrumentNames \X HUMAN_ROLES :
                 [rs EXCEPT !.responses = @ \cup {k}] \in Records
           /\ \A row \in MediaRows : [rs EXCEPT !.media = @ \cup {row}] \in Records
           /\ \A k \in {"review_page_enter", "reading"} \X BOOLEAN :
                 [rs EXCEPT !.ui = @ \cup {k}] \in Records
           /\ \A k \in {"review_page_enter", "reading"} \X BOOLEAN :
                 [rs EXCEPT !.opened = TRUE, !.ui = @ \cup {k}] \in Records
           /\ \A type \in ArtifactTypes :
                 [rs EXCEPT !.artifacts = @ \cup {type}] \in Records
           /\ \A kind \in SharedKinds : [rs EXCEPT !.locks = @ \cup {kind}] \in Records
BY ZenonT(60) DEF Records
LEMMA SubmissionTyped ==
    ASSUME TypeOK, NEW r \in Requests, SubmitCommit(r)
    PROVE  TypeOK'
<1> DEFINE request == requests[r]
           key == <<request.type, request.role>>
<1>1. request \in RequestSet /\ request.op = "submit"
  BY DEF TypeOK, SubmitCommit
<1>2. key \in SubmissionTypes \X HUMAN_ROLES /\ {key} \in SUBSET Keys
  BY <1>1, RequestFields, KeysMade
<1>3. CASE submission_allowed(request.type, request.role)
  <2>1. [records EXCEPT !.submissions = @ \cup {key}] \in Records
    BY <1>2, RowsAdded DEF TypeOK
  <2>2. QED
    BY <1>2, <1>3, <2>1, RequestsMade, InsertTyped DEF SubmitCommit, Finish
<1>4. CASE ~submission_allowed(request.type, request.role)
  BY <1>4, RejectTyped DEF SubmitCommit
<1>5. QED
  BY <1>3, <1>4

LEMMA DecisionTyped ==
    ASSUME TypeOK, NEW r \in Requests, DecisionInsert(r)
    PROVE  TypeOK'
<1> DEFINE request == requests[r]
           key == <<request.kind, request.role>>
<1>1. request \in RequestSet /\ request.op = "decision"
  BY DEF TypeOK, DecisionInsert
<1>2. key \in DecisionKinds \X HUMAN_ROLES
  BY <1>1, RequestFields
<1>3. CASE key \notin records.decisions
  <2>1. [records EXCEPT !.decisions = @ \cup {key}] \in Records
    BY <1>2, RowsAdded DEF TypeOK
  <2>2. Marking(legacy_name[request.kind], request.role) \in RequestSet
    BY <1>1, RequestFields, LegacyNameType, RequestsMade
  <2>3. completion' = completion \cup {}
    BY <1>3 DEF DecisionInsert
  <2>4. QED
    BY <1>3, <2>1, <2>2, <2>3, InsertTyped DEF DecisionInsert
<1>4. CASE key \in records.decisions
  BY <1>4, RejectTyped DEF DecisionInsert
<1>5. QED
  BY <1>3, <1>4

LEMMA ResponseTyped ==
    ASSUME TypeOK, NEW r \in Requests, ResponseInsert(r)
    PROVE  TypeOK'
<1> DEFINE request == requests[r]
           key == <<request.name, request.role>>
           next == IF request.name \in completion_by_phase
                   THEN Marking(request.name, request.role) ELSE Idle
<1>1. request \in RequestSet /\ request.op = "response"
  BY DEF TypeOK, ResponseInsert
<1>2. key \in InstrumentNames \X HUMAN_ROLES
  BY <1>1, RequestFields
<1>3. CASE key \notin records.responses
  <2>1. [records EXCEPT !.responses = @ \cup {key}] \in Records
    BY <1>2, RowsAdded DEF TypeOK
  <2>2. next \in RequestSet
    <3>1. completion_by_phase \subseteq SubmissionTypes
      BY DEF completion_by_phase, SubmissionTypes
    <3>2. QED
      BY <1>1, <3>1, RequestFields, RequestsMade
  <2>3. completion' = completion \cup {}
    BY <1>3 DEF ResponseInsert
  <2>4. QED
    BY <1>3, <2>1, <2>2, <2>3, InsertTyped DEF ResponseInsert
<1>4. CASE key \in records.responses
  BY <1>4, RejectTyped DEF ResponseInsert
<1>5. QED
  BY <1>3, <1>4

LEMMA MarkTyped ==
    ASSUME TypeOK, NEW r \in Requests, MarkCompletion(r)
    PROVE  TypeOK'
<1>1. requests[r] \in RequestSet /\ requests[r].op = "mark"
  BY DEF TypeOK, MarkCompletion
<1>2. {<<requests[r].name, requests[r].role>>} \in SUBSET Keys
  BY <1>1, RequestFields, KeysMade
<1>3. QED
  BY <1>2, RequestsMade, InsertTyped DEF MarkCompletion, Finish, TypeOK

LEMMA ConfirmTyped ==
    ASSUME TypeOK, NEW r \in Requests, ConfirmCommit(r)
    PROVE  TypeOK'
<1> DEFINE kind == requests[r].kind
           rows == [records EXCEPT !.locks = @ \cup {kind}]
<1>1. kind \in SharedKinds
  BY RequestFields DEF TypeOK, ConfirmCommit
<1>2. rows \in Records /\ LockKeys(kind) \in SUBSET Keys
  BY <1>1, RowsAdded, KeysMade DEF TypeOK
<1>3. CASE Reject(r)
  BY <1>3, RejectTyped
<1>4. CASE ~Reject(r)
  BY <1>2, <1>4, RequestsMade, InsertTyped DEF ConfirmCommit, Finish
<1>5. QED
  BY <1>3, <1>4

LEMMA ParticipantTyped ==
    ASSUME TypeOK, Participant
    PROVE  TypeOK'
<1>1. ASSUME NEW r \in Requests, NEW role \in HUMAN_ROLES
      PROVE  /\ \A type \in SubmitTypes : SubmitRead(r, type, role) => TypeOK'
             /\ \A kind \in Kinds : DecisionRead(r, kind, role) => TypeOK'
             /\ \A name \in Instruments : ResponseRead(r, name, role) => TypeOK'
  BY ReadTyped, RequestsMade, Study1SessionAssumption
     DEF SubmitRead, DecisionRead, ResponseRead
<1>2. ASSUME NEW r \in Requests, NEW kind \in SharedKinds, ConfirmRead(r, kind)
      PROVE  TypeOK'
  BY <1>2, ReadTyped, RequestsMade DEF ConfirmRead
<1>3. TypeOK => time_passed \in BOOLEAN
  BY DEF TypeOK
<1>4. ASSUME OpenReview
      PROVE  TypeOK'
  <2> DEFINE entry == <<"review_page_enter", time_passed>>
  <2>1. [records EXCEPT !.opened = TRUE, !.ui = @ \cup {entry}] \in Records
    BY <1>3, RowsAdded DEF TypeOK
  <2>2. QED
    BY <1>4, <2>1, KeysMade, WriteTyped DEF OpenReview
<1>5. ASSUME NEW role \in HUMAN_ROLES, NEW type \in UiTypes, UiEvent(role, type)
      PROVE  TypeOK'
  <2> DEFINE entry == <<IF type = "review_page_enter" THEN type ELSE "reading",
                        time_passed>>
             keys == {ReadingRecorded} \cup
                       (IF records.opened /\ (MinimumReview => time_passed)
                        THEN {MinimumTimeMet} ELSE {})
  <2>1. keys \in SUBSET Keys
    BY KeysMade
  <2>2. [records EXCEPT !.ui = @ \cup {entry}] \in Records /\ records \in Records
    BY <1>3, RowsAdded DEF TypeOK
  <2>3. completion' = completion \cup keys
    BY <1>5 DEF UiEvent
  <2>4. QED
    BY <1>5, <2>1, <2>2, <2>3, WriteTyped DEF UiEvent
<1>6. ASSUME NEW enough \in BOOLEAN, ReviewBatch(enough)
      PROVE  TypeOK'
  <2> DEFINE keys == {ReadingRecorded} \cup
                       (IF MinimumReview => enough THEN {MinimumTimeMet} ELSE {})
  <2>1. keys \in SUBSET Keys
    BY KeysMade
  <2>2. completion' = completion \cup keys
    BY <1>6 DEF ReviewBatch
  <2>3. QED
    BY <1>6, <2>1, <2>2, WriteTyped DEF ReviewBatch, TypeOK
<1>7. QED
  BY <1>1, <1>2, <1>4, <1>5, <1>6, SubmissionTyped, DecisionTyped, ResponseTyped,
     MarkTyped, ConfirmTyped DEF Participant

LEMMA MediaServiceTyped ==
    ASSUME TypeOK, MediaService
    PROVE  TypeOK'
<1>1. ASSUME NEW type \in MediaTypes, NEW version \in 1 .. phase_version,
             ReceiveMediaEvent(type, version)
      PROVE  TypeOK'
  <2>1. MediaRow(type) \in MediaRows
    BY DEF MediaRow, MediaRows, TypeOK
  <2>2. [records EXCEPT !.media = @ \cup {MediaRow(type)}] \in Records
    BY <2>1, RowsAdded DEF TypeOK
  <2>3. EventKeys(type) \in SUBSET Keys
    BY KeysMade
  <2>4. media_status' \in {"mock_idle", "ready", "error"}
    BY <1>1 DEF ReceiveMediaEvent, TypeOK, MediaStatusOf
  <2>5. QED
    BY <1>1, <2>2, <2>3, <2>4 DEF ReceiveMediaEvent, TypeOK, snapshot
<1>2. ASSUME NEW type \in ArtifactTypes, CreateArtifact(type)
      PROVE  TypeOK'
  <2>1. [records EXCEPT !.artifacts = @ \cup {type}] \in Records
    BY RowsAdded DEF TypeOK
  <2>2. QED
    BY <1>2, <2>1, KeysMade DEF CreateArtifact, TypeOK, snapshot
<1>3. QED
  BY <1>1, <1>2 DEF MediaService

LEMMA TypeStep == TypeOK /\ [Next]_vars => TypeOK'
<1>1. ASSUME TypeOK, Crash
      PROVE  TypeOK'
  BY <1>1, RequestsMade DEF TypeOK, Crash
<1>2. ASSUME TypeOK, ReviewTimePasses \/ UNCHANGED vars
      PROVE  TypeOK'
  BY <1>2 DEF TypeOK, ReviewTimePasses, vars, snapshot
<1>3. QED
  BY <1>1, <1>2, ResearcherTyped, ParticipantTyped, MediaServiceTyped DEF Next

(* Type correctness of the Session row, its records and its handlers.        *)
THEOREM TypeCorrect == Spec => []TypeOK
BY InitTyped, TypeStep, PTL DEF Spec
-----------------------------------------------------------------------------
(* What every step does to the records, the completion map and the requests. *)
StepBacked ==
    /\ Grows(records, records')
    /\ completion \subseteq completion'
    /\ completion' \subseteq completion \cup projected' \cup {ReadingRecorded, MinimumTimeMet}
    /\ \A r \in Requests : requests'[r] = requests[r] \/ Backed(requests'[r], projected')

LEMMA RowProjects ==
    ASSUME NEW rs \in Records
    PROVE  /\ rs.submissions \subseteq project_formal_completion(rs)
           /\ \A d \in rs.decisions :
                 <<legacy_name[d[1]], d[2]>> \in project_formal_completion(rs)
           /\ \A k \in rs.responses : k[1] \in completion_by_phase =>
                 k \in project_formal_completion(rs)
           /\ \A kind \in rs.locks : LockKeys(kind) \subseteq project_formal_completion(rs)
           /\ "summary" \in rs.artifacts =>
                 Done("summary_artifact_ready") \in project_formal_completion(rs)
           /\ \A e \in rs.ui : e[1] = "review_page_enter" =>
                 ReviewOpened \in project_formal_completion(rs)
<1>1. rs.submissions \subseteq IndividualKeys(rs)
  BY DEF IndividualKeys
<1>2. \A d \in rs.decisions : <<legacy_name[d[1]], d[2]>> \in IndividualKeys(rs)
  BY LegacyNameType DEF IndividualKeys, Records
<1>3. \A k \in rs.responses : k[1] \in completion_by_phase => k \in ResponseKeys(rs)
  BY DEF ResponseKeys
<1>4. \A kind \in rs.locks : LockKeys(kind) \subseteq SharedKeys(rs)
  BY DEF LockKeys, SharedKeys, Records, SharedKinds
<1>5. "summary" \in rs.artifacts => Done("summary_artifact_ready") \in MediaKeys(rs)
  BY DEF MediaKeys
<1>6. \A e \in rs.ui : e[1] = "review_page_enter" => ReviewOpened \in ReviewKeys(rs)
  BY DEF ReviewKeys
<1>7. QED
  BY <1>1, <1>2, <1>3, <1>4, <1>5, <1>6 DEF project_formal_completion

LEMMA MediaRowProjects ==
    ASSUME TypeOK, TypeOK', NEW type \in MediaTypes, NEW version,
           ReceiveMediaEvent(type, version)
    PROVE  EventKeys(type) \subseteq projected'
<1> DEFINE row == MediaRow(type)
<1>1. row \in records'.media
  BY DEF ReceiveMediaEvent, TypeOK, Records
<1>2. row.event_type = type /\ row.phase = phase
  BY DEF MediaRow
<1>3. type = "MEETING_ENDED" => phase \in {PROXY_MEETING, SYNC_MEETING}
  BY DEF ReceiveMediaEvent
<1>4. EventKeys(type) \subseteq MediaKeys(records')
  BY <1>1, <1>2, <1>3 DEF EventKeys, MediaKeys
<1>5. QED
  BY <1>4 DEF projected, project_formal_completion

LEMMA GrowsReflexive == Grows(records, records)
BY DEF Grows

(* A step that only changes requests, and gives one a backed value.          *)
LEMMA RequestStep ==
    ASSUME TypeOK, UNCHANGED <<records, completion>>,
           \A r \in Requests : requests'[r] = requests[r] \/ Backed(requests'[r], projected')
    PROVE  StepBacked
BY GrowsReflexive DEF StepBacked

LEMMA FinishBacked ==
    ASSUME TypeOK, NEW r \in Requests, Finish(r)
    PROVE  \A q \in Requests : requests'[q] = requests[q] \/ Backed(requests'[q], projected')
<1>1. \A q \in Requests : requests'[q] = requests[q] \/ requests'[q] = Idle
  BY DEF Finish, TypeOK
<1>2. QED
  BY <1>1 DEF Backed, Idle

LEMMA RejectBacked ==
    ASSUME TypeOK, NEW r \in Requests, Reject(r)
    PROVE  StepBacked
BY FinishBacked, RequestStep DEF Reject

LEMMA ReadBacked ==
    ASSUME TypeOK, NEW r \in Requests, NEW request, Read(r, request), Backed(request, projected')
    PROVE  StepBacked
<1>1. \A q \in Requests : requests'[q] = requests[q] \/ requests'[q] = request
  BY DEF Read, TypeOK
<1>2. QED
  BY <1>1, RequestStep DEF Read, Backed
LEMMA ResearcherBacked ==
    ASSUME TypeOK, Researcher
    PROVE  StepBacked
<1>1. ASSUME NEW r \in Requests, NEW target \in Targets, NEW override \in BOOLEAN,
             AdvanceRead(r, target, override)
      PROVE  StepBacked
  <2> DEFINE request == [op |-> "advance", target |-> target, override |-> override,
                         seen |-> IF FormalV2 THEN projected ELSE {}]
  <2>1. Backed(request, projected')
    BY <1>1 DEF AdvanceRead, Read, Backed, projected
  <2>2. QED
    BY <1>1, <2>1, ReadBacked DEF AdvanceRead
<1>2. ASSUME NEW r \in Requests, AdvanceCommit(r) \/ StartCommit(r)
      PROVE  StepBacked
  <2>1. CASE Reject(r)
    BY <2>1, RejectBacked
  <2>2. CASE ~Reject(r)
    <3>1. Finish(r) /\ UNCHANGED <<completion, records>>
      BY <1>2, <2>2 DEF AdvanceCommit, StartCommit
    <3>2. QED
      BY <3>1, FinishBacked, RequestStep
  <2>3. QED
    BY <2>1, <2>2
<1>3. ASSUME NEW r \in Requests, StartRead(r)
      PROVE  StepBacked
  <2>1. Backed([op |-> "start"], projected')
    BY DEF Backed
  <2>2. QED
    BY <1>3, <2>1, ReadBacked DEF StartRead
<1>4. ASSUME Pause \/ Resume \/ Terminate
      PROVE  StepBacked
  BY <1>4, RequestStep DEF Pause, Resume, Terminate, Control
<1>5. QED
  BY <1>1, <1>2, <1>3, <1>4 DEF Researcher

(* A handler that inserts a row keeps what was projected, sets keys its row   *)
(* projects, and leaves a backed request.                                    *)
LEMMA InsertBacked ==
    ASSUME TypeOK, NEW r \in Requests, NEW next, Grows(records, records'),
           completion \subseteq completion', completion' \subseteq completion \cup projected',
           requests' = [requests EXCEPT ![r] = next], Backed(next, projected')
    PROVE  StepBacked
<1>1. \A q \in Requests : requests'[q] = requests[q] \/ requests'[q] = next
  BY DEF TypeOK
<1>2. QED
  BY <1>1 DEF StepBacked, Backed

(* A write outside the request slots.                                        *)
LEMMA WriteBacked ==
    ASSUME NEW keys, Grows(records, records'), UNCHANGED requests,
           completion' = completion \cup keys,
           keys \subseteq projected' \cup {ReadingRecorded, MinimumTimeMet}
    PROVE  StepBacked
BY DEF StepBacked

LEMMA SubmissionBacked ==
    ASSUME TypeOK, TypeOK', NEW r \in Requests, SubmitCommit(r)
    PROVE  StepBacked
<1> DEFINE key == <<requests[r].type, requests[r].role>>
<1>1. CASE Reject(r)
  BY <1>1, RejectBacked
<1>2. CASE ~Reject(r)
  <2>1. /\ records' = [records EXCEPT !.submissions = @ \cup {key}]
        /\ completion' = completion \cup {key}
        /\ requests' = [requests EXCEPT ![r] = Idle]
    BY <1>2 DEF SubmitCommit, Finish
  <2>2. Grows(records, records') /\ key \in records'.submissions
    BY <2>1 DEF Grows, TypeOK, Records
  <2>3. key \in projected'
    BY <2>2, RowProjects DEF TypeOK, projected
  <2>4. Backed(Idle, projected')
    BY DEF Backed, Idle
  <2>5. QED
    BY <2>1, <2>2, <2>3, <2>4, InsertBacked
<1>3. QED
  BY <1>1, <1>2

LEMMA DecisionBacked ==
    ASSUME TypeOK, TypeOK', NEW r \in Requests, DecisionInsert(r)
    PROVE  StepBacked
<1> DEFINE key == <<requests[r].kind, requests[r].role>>
           next == Marking(legacy_name[requests[r].kind], requests[r].role)
<1>1. CASE Reject(r)
  BY <1>1, RejectBacked
<1>2. CASE ~Reject(r)
  <2>1. /\ records' = [records EXCEPT !.decisions = @ \cup {key}]
        /\ completion' = completion
        /\ requests' = [requests EXCEPT ![r] = next]
    BY <1>2 DEF DecisionInsert
  <2>2. Grows(records, records') /\ key \in records'.decisions
    BY <2>1 DEF Grows, TypeOK, Records
  <2>3. <<legacy_name[key[1]], key[2]>> \in projected'
    BY <2>2, RowProjects DEF TypeOK, projected
  <2>4. next.name = legacy_name[key[1]] /\ next.role = key[2] /\ next.op = "mark"
    BY DEF Marking
  <2>5. Backed(next, projected')
    BY <2>3, <2>4 DEF Backed
  <2>6. QED
    BY <2>1, <2>2, <2>5, InsertBacked
<1>3. QED
  BY <1>1, <1>2
LEMMA ResponseBacked ==
    ASSUME TypeOK, TypeOK', NEW r \in Requests, ResponseInsert(r)
    PROVE  StepBacked
<1> DEFINE key == <<requests[r].name, requests[r].role>>
           next == IF requests[r].name \in completion_by_phase
                   THEN Marking(requests[r].name, requests[r].role) ELSE Idle
<1>1. CASE Reject(r)
  BY <1>1, RejectBacked
<1>2. CASE ~Reject(r)
  <2>1. /\ records' = [records EXCEPT !.responses = @ \cup {key}]
        /\ completion' = completion
        /\ requests' = [requests EXCEPT ![r] = next]
    BY <1>2 DEF ResponseInsert
  <2>2. Grows(records, records') /\ key \in records'.responses
    BY <2>1 DEF Grows, TypeOK, Records
  <2>3. key[1] \in completion_by_phase => key \in projected'
    BY <2>2, RowProjects DEF TypeOK, projected
  <2>4. Backed(next, projected')
    BY <2>3 DEF Backed, Marking, Idle
  <2>5. QED
    BY <2>1, <2>2, <2>4, InsertBacked
<1>3. QED
  BY <1>1, <1>2

LEMMA MarkBacked ==
    ASSUME TypeOK, RequestsBacked, NEW r \in Requests, MarkCompletion(r)
    PROVE  StepBacked
<1> DEFINE key == <<requests[r].name, requests[r].role>>
<1>1. completion' = completion \cup {key} /\ UNCHANGED records /\ Finish(r)
  BY DEF MarkCompletion
<1>2. key \in projected'
  BY <1>1 DEF MarkCompletion, RequestsBacked, Backed, projected
<1>3. QED
  BY <1>1, <1>2, FinishBacked, GrowsReflexive DEF StepBacked

LEMMA ConfirmBacked ==
    ASSUME TypeOK, TypeOK', NEW r \in Requests, ConfirmCommit(r)
    PROVE  StepBacked
<1> DEFINE kind == requests[r].kind
<1>1. CASE Reject(r)
  BY <1>1, RejectBacked
<1>2. CASE ~Reject(r)
  <2>1. /\ records' = [records EXCEPT !.locks = @ \cup {kind}]
        /\ completion' = completion \cup LockKeys(kind)
        /\ requests' = [requests EXCEPT ![r] = Idle]
    BY <1>2 DEF ConfirmCommit, Finish
  <2>2. Grows(records, records') /\ kind \in records'.locks
    BY <2>1 DEF Grows, TypeOK, Records
  <2>3. LockKeys(kind) \subseteq projected'
    BY <2>2, RowProjects DEF TypeOK, projected
  <2>4. Backed(Idle, projected')
    BY DEF Backed, Idle
  <2>5. QED
    BY <2>1, <2>2, <2>3, <2>4, InsertBacked
<1>3. QED
  BY <1>1, <1>2

LEMMA ParticipantBacked ==
    ASSUME TypeOK, TypeOK', RequestsBacked, Participant
    PROVE  StepBacked
<1>1. ASSUME NEW r \in Requests, NEW role \in HUMAN_ROLES
      PROVE  /\ \A type : SubmitRead(r, type, role) => StepBacked
             /\ \A kind : DecisionRead(r, kind, role) => StepBacked
             /\ \A name : ResponseRead(r, name, role) => StepBacked
  BY ReadBacked DEF SubmitRead, DecisionRead, ResponseRead, Backed
<1>2. ASSUME OpenReview
      PROVE  StepBacked
  <2> DEFINE entry == <<"review_page_enter", time_passed>>
  <2>1. Grows(records, records') /\ entry \in records'.ui
    BY <1>2 DEF OpenReview, Grows, TypeOK, Records
  <2>2. ReviewOpened \in projected'
    BY <2>1, RowProjects DEF TypeOK, projected
  <2>3. completion' = completion \cup {ReviewOpened} /\ UNCHANGED requests
    BY <1>2 DEF OpenReview
  <2>4. QED
    BY <2>1, <2>2, <2>3, WriteBacked
<1>3. ASSUME NEW role \in HUMAN_ROLES, NEW type \in UiTypes, UiEvent(role, type)
      PROVE  StepBacked
  <2>1. Grows(records, records')
    BY <1>3 DEF UiEvent, Grows, TypeOK, Records
  <2>2. /\ completion \subseteq completion'
        /\ completion' \subseteq completion \cup {ReadingRecorded, MinimumTimeMet}
        /\ UNCHANGED requests
    BY <1>3 DEF UiEvent
  <2>3. QED
    BY <2>1, <2>2 DEF StepBacked
<1>4. ASSUME NEW enough \in BOOLEAN, ReviewBatch(enough)
      PROVE  StepBacked
  BY <1>4, GrowsReflexive DEF ReviewBatch, StepBacked
<1>5. ASSUME NEW r \in Requests
      PROVE  \A kind : ConfirmRead(r, kind) => StepBacked
  BY ReadBacked DEF ConfirmRead, Backed
<1>6. QED
  BY <1>1, <1>2, <1>3, <1>4, <1>5, SubmissionBacked, DecisionBacked, ResponseBacked,
     MarkBacked, ConfirmBacked DEF Participant

LEMMA MediaServiceBacked ==
    ASSUME TypeOK, TypeOK', MediaService
    PROVE  StepBacked
<1>1. ASSUME NEW type \in MediaTypes, NEW version, ReceiveMediaEvent(type, version)
      PROVE  StepBacked
  <2>1. Grows(records, records')
    BY <1>1 DEF ReceiveMediaEvent, Grows, TypeOK, Records
  <2>2. completion' = completion \cup EventKeys(type) /\ UNCHANGED requests
    BY <1>1 DEF ReceiveMediaEvent
  <2>3. QED
    BY <1>1, <2>1, <2>2, MediaRowProjects, WriteBacked
<1>2. ASSUME NEW type \in ArtifactTypes, CreateArtifact(type)
      PROVE  StepBacked
  <2>1. Grows(records, records') /\ type \in records'.artifacts
    BY <1>2 DEF CreateArtifact, Grows, TypeOK, Records
  <2>2. type = "summary" => Done("summary_artifact_ready") \in projected'
    BY <2>1, RowProjects DEF TypeOK, projected
  <2>3. /\ completion \subseteq completion'
        /\ completion' \subseteq completion \cup projected'
        /\ UNCHANGED requests
    BY <1>2, <2>2 DEF CreateArtifact
  <2>4. QED
    BY <2>1, <2>3 DEF StepBacked
<1>3. QED
  BY <1>1, <1>2 DEF MediaService

LEMMA NextBacked == TypeOK /\ RequestsBacked /\ [Next]_vars => StepBacked
<1> SUFFICES ASSUME TypeOK, RequestsBacked, [Next]_vars
             PROVE  StepBacked
  OBVIOUS
<1>1. TypeOK'
  BY TypeStep
<1>2. CASE Crash
  <2>1. \A r \in Requests : Backed(requests'[r], projected')
    BY <1>2 DEF Crash, Backed, Idle
  <2>2. QED
    BY <1>2, <2>1, RequestStep DEF Crash
<1>3. CASE ReviewTimePasses \/ UNCHANGED vars
  BY <1>3, GrowsReflexive DEF ReviewTimePasses, vars, StepBacked
<1>4. QED
  BY <1>1, <1>2, <1>3, ResearcherBacked, ParticipantBacked, MediaServiceBacked DEF Next
LEMMA ProjectionGrows == StepBacked => projected \subseteq projected'
BY ProjectionMonotone DEF StepBacked, projected

LEMMA BackedStep ==
    ASSUME StoredIsBacked, RequestsBacked, StepBacked
    PROVE  StoredIsBacked' /\ RequestsBacked'
<1>1. projected \subseteq projected'
  BY ProjectionGrows
<1>2. StoredIsBacked'
  BY <1>1 DEF StoredIsBacked, StepBacked
<1>3. \A r \in Requests : Backed(requests[r], projected) => Backed(requests[r], projected')
  BY <1>1 DEF Backed
<1>4. RequestsBacked'
  BY <1>3 DEF RequestsBacked, StepBacked
<1>5. QED
  BY <1>2, <1>4

-----------------------------------------------------------------------------
(* Only the two commits move the phase, and what they check is true.         *)
LEMMA ReadKeepsPhase ==
    ASSUME [Next]_vars,
           ~ \E r \in Requests : AdvanceCommit(r) \/ StartCommit(r)
    PROVE  UNCHANGED <<phase, phase_version, overrides>>
BY DEF Next, Researcher, Participant, MediaService, Crash, ReviewTimePasses, vars,
       snapshot, AdvanceRead, Read, StartRead, Pause, Resume, Terminate, Control,
       SubmitRead, DecisionRead, ResponseRead, ConfirmRead, SubmitCommit, DecisionInsert,
       ResponseInsert, MarkCompletion, ConfirmCommit, Reject, OpenReview, UiEvent,
       ReviewBatch, ReceiveMediaEvent, CreateArtifact

LEMMA StartNeedsConsent ==
    Required[MATERIAL_READING] \cap {ReadingRecorded, MinimumTimeMet} = {}
BY PhasesAreNumbers DEF Required, By, ReadingRecorded, MinimumTimeMet

LEMMA EarnedStep ==
    ASSUME TypeOK, StoredIsBacked, RequestsBacked, EarnedPhases, [Next]_vars
    PROVE  EarnedPhases'
<1> SUFFICES ASSUME overrides' = 0, NEW p \in MATERIAL_READING .. phase'
             PROVE  Required[p] \subseteq effective'
  BY DEF EarnedPhases
<1>1. StepBacked
  BY NextBacked
<1>2. effective \subseteq effective'
  BY <1>1, ProjectionGrows DEF effective, StepBacked
<1>3. phase \in Nat /\ overrides \in Nat
  BY PhasesAreNumbers DEF TypeOK
<1>4. ASSUME overrides = 0, p \in MATERIAL_READING .. phase
      PROVE  Required[p] \subseteq effective'
  BY <1>2, <1>4 DEF EarnedPhases
<1>5. ASSUME NEW target, NEW done, NEW override \in BOOLEAN,
             TransitionTo(target, done, override),
             override \/ can_transition(phase, target, done),
             override \/ missing_prerequisites(target, effective) = {}
      PROVE  Required[p] \subseteq effective'
  <2>1. ~override /\ overrides = 0
    BY <1>3, <1>5 DEF TransitionTo
  <2>2. phase' = phase + 1 /\ phase' = target
    BY <1>5, <2>1 DEF TransitionTo, can_transition, target_is_next
  <2>3. CASE p = target
    BY <1>2, <1>5, <2>1, <2>3 DEF missing_prerequisites
  <2>4. CASE p # target
    <3>1. p \in MATERIAL_READING .. phase
      BY <1>3, <2>2, <2>4, PhasesAreNumbers
    <3>2. QED
      BY <1>4, <2>1, <3>1
  <2>5. QED
    BY <2>3, <2>4
<1>6. ASSUME NEW r \in Requests, AdvanceCommit(r), ~Reject(r)
      PROVE  Required[p] \subseteq effective'
  <2> DEFINE request == requests[r]
             done == IF FormalV2 THEN request.seen ELSE completion
  <2>1. TransitionTo(request.target, done, request.override)
        /\ advance_allowed(request, done)
    BY <1>6 DEF AdvanceCommit
  <2>2. request.override \in BOOLEAN
    BY <1>6, RequestFields DEF TypeOK, AdvanceCommit
  <2>3. done \subseteq effective
    BY <1>6 DEF AdvanceCommit, RequestsBacked, Backed, effective
  <2>4. request.override \/ can_transition(phase, request.target, done)
    BY <2>1 DEF advance_allowed
  <2>5. request.override \/ missing_prerequisites(request.target, effective) = {}
    BY <2>3, <2>4 DEF can_transition, missing_prerequisites
  <2> HIDE DEF done, request
  <2>6. QED
    BY <1>5, <2>1, <2>2, <2>4, <2>5
<1>7. ASSUME NEW r \in Requests, StartCommit(r), ~Reject(r)
      PROVE  Required[p] \subseteq effective'
  <2>1. TransitionTo(MATERIAL_READING, completion, FALSE)
        /\ can_transition(phase, MATERIAL_READING, completion)
    BY <1>7 DEF StartCommit, start_allowed
  <2>2. missing_prerequisites(MATERIAL_READING, effective) = {}
    BY <2>1, StartNeedsConsent
       DEF can_transition, missing_prerequisites, effective, StoredIsBacked
  <2>3. QED
    BY <1>5, <2>1, <2>2
<1>8. ASSUME UNCHANGED <<phase, phase_version, overrides>>
      PROVE  Required[p] \subseteq effective'
  BY <1>4, <1>8
<1>9. \A r \in Requests : Reject(r) => UNCHANGED <<phase, phase_version, overrides>>
  BY DEF Reject, snapshot
<1>10. QED
  BY <1>6, <1>7, <1>8, <1>9, ReadKeepsPhase
LEMMA OnlyEventsWriteMedia ==
    ASSUME TypeOK, [Next]_vars, UNCHANGED phase_version,
           ~ \E type \in MediaTypes, version \in 1 .. phase_version :
                ReceiveMediaEvent(type, version)
    PROVE  UNCHANGED <<phase, records.media>>
<1>1. ASSUME NEW r \in Requests, AdvanceCommit(r) \/ StartCommit(r)
      PROVE  UNCHANGED <<phase, records.media>>
  BY <1>1 DEF TypeOK, AdvanceCommit, StartCommit, TransitionTo, Reject, snapshot
<1>2. ASSUME ~ \E r \in Requests : AdvanceCommit(r) \/ StartCommit(r)
      PROVE  UNCHANGED <<phase, records.media>>
  <2>1. UNCHANGED phase
    BY <1>2, ReadKeepsPhase
  <2>2. UNCHANGED records.media
    BY <1>2 DEF TypeOK, Records, Next, Researcher, Participant, MediaService, Crash,
          ReviewTimePasses, vars, snapshot, AdvanceRead, Read, StartRead, Pause, Resume,
          Terminate, Control, SubmitRead, DecisionRead, ResponseRead, ConfirmRead,
          SubmitCommit, DecisionInsert, ResponseInsert, MarkCompletion, ConfirmCommit,
          Reject, OpenReview, UiEvent, ReviewBatch, CreateArtifact
  <2>3. QED
    BY <2>1, <2>2
<1>3. QED
  BY <1>1, <1>2

LEMMA VersionStep ==
    ASSUME TypeOK, VersionIdentifiesPhase, [Next]_vars
    PROVE  VersionIdentifiesPhase'
<1>1. phase_version \in Nat /\ records \in Records
  BY DEF TypeOK
<1>2. \A e \in records.media : e.phase_version \in Nat
  BY <1>1 DEF Records, MediaRows
<1>3. ASSUME NEW type \in MediaTypes, NEW version \in 1 .. phase_version,
             ReceiveMediaEvent(type, version)
      PROVE  VersionIdentifiesPhase'
  <2>1. records'.media = records.media \cup {MediaRow(type)}
        /\ UNCHANGED <<phase, phase_version>>
    BY <1>1, <1>3 DEF ReceiveMediaEvent, Records, snapshot
  <2>2. MediaRow(type).phase = phase /\ MediaRow(type).phase_version = phase_version
    BY DEF MediaRow
  <2>3. QED
    BY <1>1, <1>2, <2>1, <2>2 DEF VersionIdentifiesPhase
<1>4. ASSUME UNCHANGED <<phase, phase_version, records.media>>
      PROVE  VersionIdentifiesPhase'
  BY <1>4 DEF VersionIdentifiesPhase
<1>5. ASSUME phase_version' = phase_version + 1, UNCHANGED records
      PROVE  VersionIdentifiesPhase'
  <2>1. records'.media = records.media
    BY <1>5
  <2>2. ASSUME NEW e \in records.media
        PROVE  e.phase_version < phase_version'
    <3>1. e.phase_version \leq phase_version
      BY DEF VersionIdentifiesPhase
    <3>2. QED
      BY <1>1, <1>2, <1>5, <3>1
  <2>3. phase_version' \in Nat
    BY <1>1, <1>5
  <2>4. QED
    BY <1>2, <2>1, <2>2, <2>3 DEF VersionIdentifiesPhase
<1>6. ASSUME NEW r \in Requests, AdvanceCommit(r) \/ StartCommit(r)
      PROVE  \/ phase_version' = phase_version + 1 /\ UNCHANGED records
             \/ UNCHANGED <<phase, phase_version, records.media>>
  BY <1>6 DEF AdvanceCommit, StartCommit, TransitionTo, Reject, snapshot
<1>7. CASE \E r \in Requests : AdvanceCommit(r) \/ StartCommit(r)
  BY <1>4, <1>5, <1>6, <1>7
<1>8. CASE ~ \E r \in Requests : AdvanceCommit(r) \/ StartCommit(r)
  <2>1. UNCHANGED <<phase, phase_version>>
    BY <1>8, ReadKeepsPhase
  <2>2. CASE \E type \in MediaTypes, version \in 1 .. phase_version :
                ReceiveMediaEvent(type, version)
    BY <1>3, <2>2
  <2>3. CASE ~ \E type \in MediaTypes, version \in 1 .. phase_version :
                ReceiveMediaEvent(type, version)
    BY <1>4, <2>1, <2>3, OnlyEventsWriteMedia
  <2>4. QED
    BY <2>2, <2>3
<1>9. QED
  BY <1>7, <1>8

-----------------------------------------------------------------------------
LEMMA InitInvariant == Init => IInv
<1> SUFFICES ASSUME Init PROVE IInv
  OBVIOUS
<1>1. TypeOK
  BY InitTyped
<1>2. StoredIsBacked
  BY DEF Init, StoredIsBacked
<1>3. RequestsBacked
  BY DEF Init, RequestsBacked, Backed, Idle
<1>4. EarnedPhases
  BY PhasesAreNumbers DEF Init, EarnedPhases
<1>5. VersionIdentifiesPhase
  BY DEF Init, VersionIdentifiesPhase
<1>6. QED
  BY <1>1, <1>2, <1>3, <1>4, <1>5 DEF IInv

LEMMA NextInvariant == IInv /\ [Next]_vars => IInv'
<1> SUFFICES ASSUME IInv, [Next]_vars PROVE IInv'
  OBVIOUS
<1>1. TypeOK'
  BY TypeStep DEF IInv
<1>2. StoredIsBacked' /\ RequestsBacked'
  BY NextBacked, BackedStep DEF IInv
<1>3. EarnedPhases'
  BY EarnedStep DEF IInv
<1>4. VersionIdentifiesPhase'
  BY VersionStep DEF IInv
<1>5. QED
  BY <1>1, <1>2, <1>3, <1>4 DEF IInv

(* IInv is an inductive invariant of the Session.                            *)
THEOREM Invariance == Spec => []IInv
BY InitInvariant, NextInvariant, PTL DEF Spec

(* A stored completion key always has the record that justifies it, however  *)
(* handlers interleave and wherever the process dies.                        *)
THEOREM CompletionBacked == Spec => []StoredIsBacked
<1>1. IInv => StoredIsBacked
  BY DEF IInv
<1>2. QED
  BY <1>1, Invariance, PTL

(* No phase is reached without its prerequisites unless a researcher forced  *)
(* a transition, although advance checks them on a stale projection.         *)
THEOREM PhasesEarned == Spec => []EarnedPhases
<1>1. IInv => EarnedPhases
  BY DEF IInv
<1>2. QED
  BY <1>1, Invariance, PTL

(* A media event was applied in the phase it was issued for.                 *)
THEOREM VersionSound == Spec => []VersionIdentifiesPhase
<1>1. IInv => VersionIdentifiesPhase
  BY DEF IInv
<1>2. QED
  BY <1>1, Invariance, PTL

(* No step of any handler loses a completion key.                            *)
THEOREM CompletionMonotone == Spec => CompletionOnlyGrows
<1>1. IInv /\ [Next]_vars => [completion \subseteq completion']_vars
  BY NextBacked DEF IInv, StepBacked
<1>2. QED
  BY <1>1, Invariance, PTL DEF Spec, CompletionOnlyGrows
-----------------------------------------------------------------------------
(* What a step of Next other than the commit of an advance does to a Session *)
(* that was terminated: nothing.                                             *)
LEMMA TerminatedStays ==
    ASSUME TypeOK, Next, status = "terminated", <<status, phase>>' # <<status, phase>>
    PROVE  \E r \in Requests : requests[r].op = "advance" /\ requests'[r] = Idle
<1>1. CASE Researcher
  <2>1. \E r \in Requests : AdvanceCommit(r) /\ <<status, phase>>' # <<status, phase>>
    BY <1>1 DEF Researcher, AdvanceRead, StartRead, StartCommit, start_allowed, Read, Reject, Finish,
                snapshot, Pause, Resume, Terminate, Control
  <2>2. PICK r \in Requests : AdvanceCommit(r) /\ <<status, phase>>' # <<status, phase>>
    BY <2>1
  <2>3. requests[r].op = "advance" /\ Finish(r)
    BY <2>2 DEF AdvanceCommit, Reject
  <2>4. QED
    BY <2>3 DEF Finish, TypeOK
<1>2. CASE Participant
  BY <1>2 DEF Participant, SubmitRead, DecisionRead, ResponseRead, SubmitCommit, DecisionInsert,
              ResponseInsert, MarkCompletion, ConfirmRead, ConfirmCommit, OpenReview, UiEvent, ReviewBatch,
              Read, Reject, Finish, snapshot
<1>3. CASE MediaService
  BY <1>3 DEF MediaService, ReceiveMediaEvent, CreateArtifact, snapshot
<1>4. CASE ReviewTimePasses \/ Crash
  BY <1>4 DEF ReviewTimePasses, Crash, snapshot
<1>5. QED
  BY <1>1, <1>2, <1>3, <1>4 DEF Next

(* A terminated Session is revived only by an advance that was authorized    *)
(* before (OnlyStaleAdvanceRevives).                                         *)
THEOREM TerminationHolds == Spec => OnlyStaleAdvanceRevives
<1>1. TypeOK /\ [Next]_vars =>
        [status = "terminated" /\ <<status, phase>>' # <<status, phase>> =>
            \E r \in Requests : requests[r].op = "advance" /\ requests'[r] = Idle]_vars
  BY TerminatedStays
<1>2. QED
  BY <1>1, TypeCorrect, PTL DEF Spec, OnlyStaleAdvanceRevives

-----------------------------------------------------------------------------
(* What a projected key of a decision or of the follow-up task comes from.   *)
LEMMA DecisionKeys ==
    ASSUME NEW rs \in Records, NEW kind \in DecisionKinds, NEW role \in HUMAN_ROLES
    PROVE  <<kind, role>> \in project_formal_completion(rs)
             <=> <<legacy_name[kind], role>> \in project_formal_completion(rs)
<1> DEFINE individual == IndividualKeys(rs)
<1>1. <<kind, role>> \in individual <=> <<legacy_name[kind], role>> \in individual
  BY DEF IndividualKeys, Records, legacy_name, DecisionKinds, SubmissionTypes
<1>2. \A key \in SharedKeys(rs) \cup MediaKeys(rs) \cup ReviewKeys(rs) \cup ResponseKeys(rs) :
          key[1] # kind /\ key[1] # legacy_name[kind]
  BY DEF SharedKeys, MediaKeys, ReviewKeys, ResponseKeys, Done, By, completion_by_phase,
         ReviewOpened, ReadingRecorded, MinimumTimeMet, DecisionKinds, legacy_name
<1>3. QED
  BY <1>1, <1>2 DEF project_formal_completion
(* A shared key of the follow-up task is projected for every role or none.   *)
LEMMA TaskKeys ==
    ASSUME NEW rs \in Records
    PROVE  Done("followup_task_locked") \in project_formal_completion(rs)
             <=> By("followup_task", HUMAN_ROLES) \subseteq project_formal_completion(rs)
<1> DEFINE keys == project_formal_completion(rs)
           own == By("followup_task", HUMAN_ROLES)
<1>1. \A key \in MediaKeys(rs) \cup ReviewKeys(rs) \cup ResponseKeys(rs) :
          key[1] # "followup_task" /\ key[1] # "followup_task_locked"
  BY DEF MediaKeys, ReviewKeys, ResponseKeys, Done, completion_by_phase,
         ReviewOpened, ReadingRecorded, MinimumTimeMet
<1>2. \A key \in IndividualKeys(rs) : key[1] # "followup_task_locked"
  BY DEF IndividualKeys, Records, DecisionKinds, SubmissionTypes
<1>3. Done("followup_task_locked") \in keys <=> Done("followup_task_locked") \in SharedKeys(rs)
  BY <1>1, <1>2 DEF project_formal_completion, Done
<1>4. Done("followup_task_locked") \in SharedKeys(rs) => own \subseteq keys
  BY DEF SharedKeys, Done, project_formal_completion
<1>5. ASSUME own \subseteq keys
      PROVE  Done("followup_task_locked") \in SharedKeys(rs)
  <2>1. CASE own \subseteq IndividualKeys(rs)
    BY <2>1 DEF SharedKeys
  <2>2. CASE ~ (own \subseteq IndividualKeys(rs))
    <3>1. PICK key \in own : key \notin IndividualKeys(rs)
      BY <2>2
    <3>2. key \in SharedKeys(rs)
      BY <1>1, <1>5, <3>1 DEF project_formal_completion, By
    <3>3. key # Done("team_final_locked") /\ key # Done("followup_task_locked")
      BY <3>1 DEF By, Done
    <3>4. QED
      BY <3>2, <3>3 DEF SharedKeys
  <2>3. QED
    BY <2>1, <2>2
<1>6. QED
  BY <1>3, <1>4, <1>5

(* Three final decisions lock the team's decision.                           *)
LEMMA TeamKeys ==
    ASSUME NEW rs \in Records,
           By("final_individual", HUMAN_ROLES) \subseteq project_formal_completion(rs)
    PROVE  Done("team_final_locked") \in project_formal_completion(rs)
<1>1. \A key \in SharedKeys(rs) \cup MediaKeys(rs) \cup ReviewKeys(rs) \cup ResponseKeys(rs) :
          key[1] # "final_individual"
  BY DEF SharedKeys, MediaKeys, ReviewKeys, ResponseKeys, Done, By, completion_by_phase,
         ReviewOpened, ReadingRecorded, MinimumTimeMet
<1>2. By("final_individual", HUMAN_ROLES) \subseteq IndividualKeys(rs)
  BY <1>1 DEF By, project_formal_completion
<1>3. QED
  BY <1>2 DEF SharedKeys, project_formal_completion

LEMMA RequiredShape ==
    /\ Required[PROXY_CONFIGURATION] = By("pre_vote", HUMAN_ROLES)
    /\ Required[DELEGATION_EXPECTATION] = By("tentative_decision", Teammates)
    /\ Required[FOLLOWUP_TASK] = By("final_decision", HUMAN_ROLES)
    /\ Required[POST_SURVEY] = By("followup_task", HUMAN_ROLES)
    /\ FormalRequired[PROXY_CONFIGURATION] = By("pre_individual", HUMAN_ROLES)
    /\ FormalRequired[DELEGATION_EXPECTATION] = By("tentative_individual", Teammates)
    /\ FormalRequired[FOLLOWUP_TASK] =
          By("final_individual", HUMAN_ROLES) \cup {Done("team_final_locked")}
    /\ FormalRequired[POST_SURVEY] = {Done("followup_task_locked")}
    /\ \A target \in MATERIAL_READING .. COMPLETED :
          target \notin {PROXY_CONFIGURATION, DELEGATION_EXPECTATION, FOLLOWUP_TASK,
                         POST_SURVEY}
          => FormalRequired[target] = Required[target]
BY DEF Required, FormalRequired, MATERIAL_READING, COMPLETED, PROXY_CONFIGURATION,
       DELEGATION_EXPECTATION, FOLLOWUP_TASK, POST_SURVEY

(* The readiness shown by the dashboard and the prerequisites enforced by    *)
(* the transition agree for every target on every set of records.            *)
LEMMA ReadinessOnRecords ==
    ASSUME NEW rs \in Records, NEW target \in MATERIAL_READING .. COMPLETED
    PROVE  FormalRequired[target] \subseteq project_formal_completion(rs)
             <=> Required[target] \subseteq project_formal_completion(rs)
<1>1. ASSUME NEW kind \in DecisionKinds, NEW roles \in SUBSET HUMAN_ROLES
      PROVE  By(kind, roles) \subseteq project_formal_completion(rs)
               <=> By(legacy_name[kind], roles) \subseteq project_formal_completion(rs)
  <2>1. \A role \in roles : <<kind, role>> \in project_formal_completion(rs)
            <=> <<legacy_name[kind], role>> \in project_formal_completion(rs)
    BY <1>1, DecisionKeys
  <2>2. \A name : By(name, roles) \subseteq project_formal_completion(rs)
            <=> \A role \in roles : <<name, role>> \in project_formal_completion(rs)
    BY DEF By
  <2>3. QED
    BY <2>1, <2>2
<1>2. /\ \A kind \in {"pre_individual", "tentative_individual", "final_individual"} :
            kind \in DecisionKinds
      /\ legacy_name["pre_individual"] = "pre_vote"
      /\ legacy_name["tentative_individual"] = "tentative_decision"
      /\ legacy_name["final_individual"] = "final_decision"
      /\ Teammates \subseteq HUMAN_ROLES
  BY DEF DecisionKinds, legacy_name, HUMAN_ROLES
<1>3. CASE target = PROXY_CONFIGURATION
  BY <1>1, <1>2, <1>3, RequiredShape
<1>4. CASE target = DELEGATION_EXPECTATION
  BY <1>1, <1>2, <1>4, RequiredShape
<1>5. CASE target = FOLLOWUP_TASK
  BY <1>1, <1>2, <1>5, RequiredShape, TeamKeys
<1>6. CASE target = POST_SURVEY
  BY <1>6, RequiredShape, TaskKeys
<1>7. QED
  BY <1>3, <1>4, <1>5, <1>6, RequiredShape

(* The dashboard of a formal Session never shows ready what the transition   *)
(* refuses, nor blocked what it allows.                                      *)
THEOREM ReadinessSound == Spec => []ReadinessAgrees
<1>1. TypeOK => ReadinessAgrees
  <2> SUFFICES ASSUME TypeOK, phase # COMPLETED
               PROVE  FormalRequired[phase + 1] \subseteq projected
                        <=> Required[phase + 1] \subseteq projected
    BY DEF ReadinessAgrees
  <2>1. phase + 1 \in MATERIAL_READING .. COMPLETED /\ records \in Records
    BY PhasesAreNumbers DEF TypeOK
  <2>2. QED
    BY <2>1, ReadinessOnRecords DEF projected
<1>2. QED
  BY <1>1, TypeCorrect, PTL
=============================================================================
