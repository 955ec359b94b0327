---------------------------- MODULE Study1Session ---------------------------
(***************************************************************************)
(* The life of one Study 1 Session in platform A (backend/study1): its       *)
(* status, its phase and phase_version, the completion map and the records   *)
(* that back it, and the request handlers of researchers, participants and   *)
(* the media service that change them.                                       *)
(*                                                                           *)
(* Study1Service reads the Session without a lock, authorizes the request    *)
(* on what it read, and then calls the repository, which locks the row and   *)
(* writes.  A handler is therefore a request that reads in one step and      *)
(* commits in a later one; operations whose checks all run under the row     *)
(* lock are one step.                                                        *)
(***************************************************************************)
EXTENDS Study1Phases, FiniteSets

CONSTANTS
    FormalV2,           \* session["protocol_mode"] = "formal_v2"
    Requests,           \* slots for handlers that have read and not committed
    Targets,            \* bound: the target phases researchers ask for
    SubmitTypes,        \* bound: the submission types participants send
    Kinds,              \* bound: the individual decisions participants send
    Instruments,        \* bound: the instruments participants answer
    UiTypes,            \* bound: the UI events browsers send
    EventTypes,         \* bound: the media events and artifacts B sends
    MaxVersion,         \* bound: no transition is asked for at this version
    MaxOverrides,       \* bound: number of forced transitions
    MaxCrashes          \* bound: number of times the process of A dies

ASSUME Study1SessionAssumption ==
    /\ FormalV2 \in BOOLEAN
    /\ Targets \subseteq Phases
    /\ SubmitTypes \subseteq SubmissionTypes
    /\ Kinds \subseteq DecisionKinds
    /\ Instruments \subseteq InstrumentNames
    /\ MaxVersion \in Nat
    /\ MaxOverrides \in Nat
    /\ MaxCrashes \in Nat

VARIABLES
    status,             \* session["status"]
    phase,              \* session["phase"]
    phase_version,      \* session["phase_version"]
    completion,         \* session["completion"]: the keys that are true
    records,            \* the rows the formal projection is computed from
    time_passed,        \* minimum_review_seconds elapsed since Review opened
    last_transition,    \* the newest phase_history entry
    overrides,          \* history: number of forced transitions so far
    media_status,       \* session["media_service_status"]
    requests,           \* what each handler has read
    crashes             \* history: number of crashes so far

vars == <<status, phase, phase_version, completion, records, time_passed,
          last_transition, overrides, media_status, requests, crashes>>

snapshot == <<status, phase, phase_version, last_transition, overrides, crashes>>

Statuses == {"waiting", "running", "paused", "terminated", "completed"}
MediaTypes == {"MEDIA_READY", "MEDIA_ERROR", "HANDOFF_COMPLETE", "MEETING_ENDED"}
ArtifactTypes == {"transcript", "summary"}
SharedKinds == {"team_final", "followup_task"}
SharedPhase == [kind \in SharedKinds |->
    IF kind = "team_final" THEN FINAL_DECISION ELSE FOLLOWUP_TASK]

Idle == [op |-> "idle"]
projected == project_formal_completion(records)

(* What the prerequisites of a transition are checked against.               *)
effective == IF FormalV2 THEN projected ELSE completion

Init ==
    /\ status = "waiting"
    /\ phase = SETUP
    /\ phase_version = 1
    /\ completion = {}
    /\ records = [submissions |-> {}, decisions |-> {}, responses |-> {},
                  media |-> {}, ui |-> {}, artifacts |-> {}, locks |-> {},
                  opened |-> FALSE]
    /\ time_passed = FALSE
    /\ last_transition = [phase |-> SETUP, satisfied |-> TRUE,
                          override |-> FALSE, completion |-> {}]
    /\ overrides = 0
    /\ media_status = "mock_idle"
    /\ requests = [r \in Requests |-> Idle]
    /\ crashes = 0

-----------------------------------------------------------------------------
(* action_policy.authorize_action through Study1Service._authorize: only a   *)
(* formal_v2 Session is gated, and "submit", "advance" and the media actions *)
(* all need status running.                                                  *)
Authorized_EveryMode == status = "running"
Authorized == FormalV2 => status = "running"

Read(r, request) ==
    /\ requests[r] = Idle
    /\ requests' = [requests EXCEPT ![r] = request]
    /\ UNCHANGED <<snapshot, completion, records, time_passed, media_status>>

Finish(r) == requests' = [requests EXCEPT ![r] = Idle]

Reject(r) ==
    /\ Finish(r)
    /\ UNCHANGED <<snapshot, completion, records, time_passed, media_status>>

(* A transition that forgets to bump the version.                            *)
TransitionTo_KeepsVersion(target, done, override) ==
    /\ phase' = target
    /\ phase_version' = phase_version
    /\ last_transition' =
          [phase |-> target, override |-> override,
           satisfied |-> reported_missing(phase, target, done) = {},
           completion |-> done]
    /\ overrides' = IF override THEN overrides + 1 ELSE overrides

(* state_machine.transition_phase on the locked row.                         *)
TransitionTo(target, done, override) ==
    /\ phase' = target
    /\ phase_version' = phase_version + 1
    /\ last_transition' =
          [phase |-> target, override |-> override,
           satisfied |-> reported_missing(phase, target, done) = {},
           completion |-> done]
    /\ overrides' = IF override THEN overrides + 1 ELSE overrides

-----------------------------------------------------------------------------
(* Study1Service.advance: authorize and, in a formal Session, project the    *)
(* completion map; then repository.transition on the locked row, which does  *)
(* not look at the status again.                                             *)
AdvanceRead(r, target, override) ==
    /\ Authorized
    /\ phase_version < MaxVersion
    /\ override => overrides < MaxOverrides
    /\ Read(r, [op |-> "advance", target |-> target, override |-> override,
                seen |-> IF FormalV2 THEN projected ELSE {}])

advance_allowed(request, done) ==
    request.override \/ can_transition(phase, request.target, done)

(* A commit that persists the projected map it was called with.              *)
AdvanceCommit_WritesProjection(r) ==
    LET request == requests[r]
    IN  /\ request.op = "advance"
        /\ advance_allowed(request, request.seen)
        /\ TransitionTo(request.target, request.seen, request.override)
        /\ status' = IF request.target = COMPLETED THEN "completed" ELSE status
        /\ completion' = IF FormalV2 THEN request.seen ELSE completion
        /\ Finish(r)
        /\ UNCHANGED <<records, time_passed, media_status, crashes>>

AdvanceCommit(r) ==
    LET request == requests[r]
        done == IF FormalV2 THEN request.seen ELSE completion
    IN  /\ request.op = "advance"
        /\ \/ /\ advance_allowed(request, done)
              /\ TransitionTo(request.target, done, request.override)
              /\ status' = IF request.target = COMPLETED THEN "completed" ELSE status
              /\ Finish(r)
              /\ UNCHANGED <<completion, records, time_passed, media_status, crashes>>
           \/ /\ ~advance_allowed(request, done)
              /\ Reject(r)

(* Study1Service.control("start"): readiness on an unlocked read, then       *)
(* control_session, which transitions with the stored completion map.        *)
StartRead(r) ==
    /\ phase # COMPLETED =>
          (IF FormalV2 THEN FormalRequired ELSE Required)[phase + 1] \subseteq effective
    /\ Read(r, [op |-> "start"])

start_allowed ==
    /\ status = "waiting"
    /\ phase = SETUP
    /\ can_transition(phase, MATERIAL_READING, completion)

StartCommit(r) ==
    /\ requests[r].op = "start"
    /\ \/ /\ start_allowed
          /\ status' = "running"
          /\ TransitionTo(MATERIAL_READING, completion, FALSE)
          /\ Finish(r)
          /\ UNCHANGED <<completion, records, time_passed, media_status, crashes>>
       \/ /\ ~start_allowed
          /\ Reject(r)

(* The other controls check and write under the row lock.                    *)
Control(from, to) ==
    /\ status \in from
    /\ status' = to
    /\ UNCHANGED <<phase, phase_version, completion, records, time_passed,
                   last_transition, overrides, media_status, requests, crashes>>

Pause_UnknownStatus == Control({"running"}, "suspended")
Pause == Control({"running"}, "paused")
(* A resume that takes any Session that is not running. *)
Resume_FromAny == Control(Statuses \ {"running"}, "running")

Resume == Control({"paused"}, "running")
Terminate == Control(Statuses \ {"terminated", "completed"}, "terminated")

-----------------------------------------------------------------------------
(* Study1Service.submit and repository.create_submission.                    *)
SubmitRead(r, type, role) ==
    /\ Authorized
    /\ Read(r, [op |-> "submit", type |-> type, role |-> role])

submission_allowed(type, role) ==
    /\ phase = SUBMISSION_RULES[type].phase
    /\ role \in SUBMISSION_RULES[type].roles
    /\ <<type, role>> \notin records.submissions

SubmitCommit(r) ==
    LET request == requests[r]
        key == <<request.type, request.role>>
    IN  /\ request.op = "submit"
        /\ \/ /\ submission_allowed(request.type, request.role)
              /\ records' = [records EXCEPT !.submissions = @ \cup {key}]
              /\ completion' = completion \cup {key}
              /\ Finish(r)
              /\ UNCHANGED <<snapshot, time_passed, media_status>>
           \/ /\ ~submission_allowed(request.type, request.role)
              /\ Reject(r)

(* Study1Service.create_individual_decision: validated on the unlocked read, *)
(* then the decision row, then mark_completion in a transaction of its own.  *)
DecisionRead(r, kind, role) ==
    /\ FormalV2
    /\ Authorized
    /\ phase = DECISION_POLICY[kind].phase
    /\ role \in DECISION_POLICY[kind].roles
    /\ Read(r, [op |-> "decision", kind |-> kind, role |-> role])

Marking(name, role) == [op |-> "mark", name |-> name, role |-> role]

DecisionInsert(r) ==
    LET request == requests[r]
        key == <<request.kind, request.role>>
    IN  /\ request.op = "decision"
        /\ \/ /\ key \notin records.decisions
              /\ records' = [records EXCEPT !.decisions = @ \cup {key}]
              /\ requests' = [requests EXCEPT ![r] =
                                Marking(legacy_name[request.kind], request.role)]
              /\ UNCHANGED <<snapshot, completion, time_passed, media_status>>
           \/ /\ key \in records.decisions
              /\ Reject(r)

(* Study1Service.submit_instrument_response: the current instrument is found *)
(* by phase and role, with no look at the status.                            *)
ResponseRead(r, name, role) ==
    /\ FormalV2
    /\ phase = SUBMISSION_RULES[name].phase
    /\ role \in SUBMISSION_RULES[name].roles
    /\ Read(r, [op |-> "response", name |-> name, role |-> role])

(* A response whose key is marked although the row was never inserted.       *)
ResponseInsert_MarksFirst(r) ==
    /\ requests[r].op = "response"
    /\ requests' = [requests EXCEPT ![r] = Marking(requests[r].name, requests[r].role)]
    /\ UNCHANGED <<snapshot, completion, records, time_passed, media_status>>

ResponseInsert(r) ==
    LET request == requests[r]
        key == <<request.name, request.role>>
    IN  /\ request.op = "response"
        /\ \/ /\ key \notin records.responses
              /\ records' = [records EXCEPT !.responses = @ \cup {key}]
              /\ requests' = [requests EXCEPT ![r] =
                                IF request.name \in completion_by_phase
                                THEN Marking(request.name, request.role) ELSE Idle]
              /\ UNCHANGED <<snapshot, completion, time_passed, media_status>>
           \/ /\ key \in records.responses
              /\ Reject(r)

MarkCompletion(r) ==
    /\ requests[r].op = "mark"
    /\ completion' = completion \cup {<<requests[r].name, requests[r].role>>}
    /\ Finish(r)
    /\ UNCHANGED <<snapshot, records, time_passed, media_status>>

(* Study1Service.confirm_shared_revision: phase and status checked on the    *)
(* unlocked read; the confirmation that completes the three roles locks the  *)
(* artifact (SharedArtifact models the revisions and confirmations).         *)
ConfirmRead(r, kind) ==
    /\ FormalV2
    /\ Authorized
    /\ phase = SharedPhase[kind]
    /\ Read(r, [op |-> "confirm", kind |-> kind])

LockKeys(kind) ==
    IF kind = "team_final" THEN {Done("team_final_locked")}
    ELSE {Done("followup_task_locked")} \cup By("followup_task", HUMAN_ROLES)

ConfirmCommit(r) ==
    LET kind == requests[r].kind
    IN  /\ requests[r].op = "confirm"
        /\ \/ /\ kind \notin records.locks
              /\ records' = [records EXCEPT !.locks = @ \cup {kind}]
              /\ completion' = completion \cup LockKeys(kind)
              /\ Finish(r)
              /\ UNCHANGED <<snapshot, time_passed, media_status>>
           \/ Reject(r)

-----------------------------------------------------------------------------
(* repository.record_media_event with _apply_media_event.  B derives the id  *)
(* of these events from runtime, version and type, so the content is the id. *)
MediaRow(type) == [event_type |-> type, phase |-> phase, phase_version |-> phase_version]

already_logged(type, version) ==
    \E e \in records.media : e.event_type = type /\ e.phase_version = version

MediaStatusOf == [MEDIA_READY |-> "ready", MEDIA_ERROR |-> "error"]

EventKeys(type) ==
    IF type = "HANDOFF_COMPLETE" THEN {Done("handoff_complete")}
    ELSE IF type # "MEETING_ENDED" THEN {}
    ELSE {Done(IF phase = PROXY_MEETING THEN "proxy_meeting_ended"
                                        ELSE "sync_meeting_ended")}

ReceiveMediaEvent(type, version) ==
    /\ ~already_logged(type, version)
    /\ version = phase_version
    /\ type = "HANDOFF_COMPLETE" => phase = HANDOFF
    /\ type = "MEETING_ENDED" => phase \in {PROXY_MEETING, SYNC_MEETING}
    /\ records' = [records EXCEPT !.media = @ \cup {MediaRow(type)}]
    /\ completion' = completion \cup EventKeys(type)
    /\ media_status' = IF type \in DOMAIN MediaStatusOf THEN MediaStatusOf[type]
                                                      ELSE media_status
    /\ UNCHANGED <<snapshot, time_passed, requests>>

(* repository.create_artifact: no check of status, phase or version.         *)
CreateArtifact(type) ==
    /\ type \notin records.artifacts
    /\ records' = [records EXCEPT !.artifacts = @ \cup {type}]
    /\ completion' = IF type = "summary"
                     THEN completion \cup {Done("summary_artifact_ready")}
                     ELSE completion
    /\ UNCHANGED <<snapshot, time_passed, media_status, requests>>

-----------------------------------------------------------------------------
(* Review.  _validate_review_access consults the stored completion map.      *)
review_access(role) ==
    /\ role = "principal"
    /\ phase \in {REVIEW, COMPREHENSION_MEASUREMENT}
    /\ <<"delegation_expectation", "principal">> \in completion

OpenReview ==
    /\ review_access("principal")
    /\ records' = [records EXCEPT !.opened = TRUE,
                      !.ui = @ \cup {<<"review_page_enter", time_passed>>}]
    /\ completion' = completion \cup {ReviewOpened}
    /\ UNCHANGED <<snapshot, time_passed, media_status, requests>>

(* repository.record_ui_event: RTC samples come from every human role in     *)
(* every phase, the other events from the principal's Review; both go        *)
(* through _record_review_ui_event.                                          *)
UiEvent(role, type) ==
    /\ IF type = "rtc_metric_sample" THEN status \notin {"terminated", "completed"}
                                     ELSE review_access(role)
    /\ records' = IF role = "principal"
                  THEN [records EXCEPT !.ui = @ \cup
                         {<<IF type = "review_page_enter" THEN type ELSE "reading",
                            time_passed>>}]
                  ELSE records
    /\ completion' = completion \cup {ReadingRecorded} \cup
          (IF records.opened /\ (MinimumReview => time_passed)
           THEN {MinimumTimeMet} ELSE {})
    /\ UNCHANGED <<snapshot, time_passed, media_status, requests>>

(* repository.record_review_event_batch: active time is summed from the      *)
(* observed_at_ms of the browser, so it is any value.                        *)
ReviewBatch(active_enough) ==
    /\ review_access("principal")
    /\ completion' = completion \cup {ReadingRecorded} \cup
          (IF MinimumReview => active_enough THEN {MinimumTimeMet} ELSE {})
    /\ UNCHANGED <<snapshot, records, time_passed, media_status, requests>>

ReviewTimePasses ==
    /\ records.opened
    /\ ~time_passed
    /\ time_passed' = TRUE
    /\ UNCHANGED <<snapshot, completion, records, media_status, requests>>

(* A worker or the process of A dies: what its handlers had read is gone.    *)
Crash ==
    /\ \E r \in Requests : requests[r] # Idle
    /\ crashes < MaxCrashes
    /\ crashes' = crashes + 1
    /\ requests' = [r \in Requests |-> Idle]
    /\ UNCHANGED <<status, phase, phase_version, last_transition, overrides,
                   completion, records, time_passed, media_status>>

-----------------------------------------------------------------------------
Researcher ==
    \/ \E r \in Requests :
          \/ \E target \in Targets, override \in BOOLEAN :
                AdvanceRead(r, target, override)
          \/ AdvanceCommit(r)
          \/ StartRead(r)
          \/ StartCommit(r)
    \/ Pause
    \/ Resume
    \/ Terminate

Participant ==
    \/ \E r \in Requests, role \in HUMAN_ROLES :
          \/ \E type \in SubmitTypes : SubmitRead(r, type, role)
          \/ \E kind \in Kinds : DecisionRead(r, kind, role)
          \/ \E name \in Instruments : ResponseRead(r, name, role)
    \/ \E r \in Requests :
          \/ SubmitCommit(r)
          \/ DecisionInsert(r)
          \/ ResponseInsert(r)
          \/ MarkCompletion(r)
          \/ \E kind \in SharedKinds : ConfirmRead(r, kind)
          \/ ConfirmCommit(r)
    \/ OpenReview
    \/ \E role \in HUMAN_ROLES, type \in UiTypes : UiEvent(role, type)
    \/ \E active_enough \in BOOLEAN : ReviewBatch(active_enough)

MediaService ==
    \/ \E type \in EventTypes \cap MediaTypes, version \in 1 .. phase_version :
          ReceiveMediaEvent(type, version)
    \/ \E type \in EventTypes \cap ArtifactTypes : CreateArtifact(type)

Next == Researcher \/ Participant \/ MediaService \/ ReviewTimePasses \/ Crash

Spec == Init /\ [][Next]_vars
-----------------------------------------------------------------------------
Keys == (SubmissionTypes \cup DecisionKinds
            \cup {"review_opened", "review_reading_recorded", "minimum_review_time_met",
                  "proxy_meeting_ended", "sync_meeting_ended", "handoff_complete",
                  "summary_artifact_ready", "team_final_locked",
                  "followup_task_locked"})
        \X (HUMAN_ROLES \cup {"session"})

MediaRows == [event_type : MediaTypes, phase : Phases, phase_version : Nat]

Records == [submissions : SUBSET (SubmissionTypes \X HUMAN_ROLES),
            decisions : SUBSET (DecisionKinds \X HUMAN_ROLES),
            responses : SUBSET (InstrumentNames \X HUMAN_ROLES),
            media : SUBSET MediaRows,
            ui : SUBSET ({"review_page_enter", "reading"} \X BOOLEAN),
            artifacts : SUBSET ArtifactTypes,
            locks : SUBSET SharedKinds,
            opened : BOOLEAN]

RequestSet ==
    [op : {"idle", "start"}]
    \cup [op : {"advance"}, target : Phases, override : BOOLEAN, seen : SUBSET Keys]
    \cup [op : {"submit"}, type : SubmissionTypes, role : HUMAN_ROLES]
    \cup [op : {"decision"}, kind : DecisionKinds, role : HUMAN_ROLES]
    \cup [op : {"response"}, name : InstrumentNames, role : HUMAN_ROLES]
    \cup [op : {"mark"}, name : SubmissionTypes, role : HUMAN_ROLES]
    \cup [op : {"confirm"}, kind : SharedKinds]

(* Type invariant of the Session row, its records and the handlers.          *)
TypeOK ==
    /\ status \in Statuses
    /\ phase \in Phases
    /\ phase_version \in Nat
    /\ completion \in SUBSET Keys
    /\ records \in Records
    /\ time_passed \in BOOLEAN
    /\ last_transition \in [phase : Phases, satisfied : BOOLEAN,
                            override : BOOLEAN, completion : SUBSET Keys]
    /\ overrides \in Nat
    /\ media_status \in {"mock_idle", "ready", "error"}
    /\ requests \in [Requests -> RequestSet]
    /\ crashes \in Nat

(* Every stored completion key is backed by the record that justifies it,    *)
(* although formal decisions and instrument responses write the record and   *)
(* the key in two transactions and a handler may die between them.  The two  *)
(* reading keys are excepted: the telemetry paths set them on their own.     *)
StoredIsBacked == completion \ {ReadingRecorded, MinimumTimeMet} \subseteq projected

(* Unless a researcher forced a transition, a Session that stands in a phase *)
(* has met the prerequisites of every phase up to it - in a formal Session   *)
(* although advance projects the completion map before it takes the lock.    *)
EarnedPhases ==
    overrides = 0 => \A p \in MATERIAL_READING .. phase : Required[p] \subseteq effective

(* phase_version identifies one visit of one phase, so a media event that    *)
(* passed the version check was applied in the phase it was issued for.      *)
VersionIdentifiesPhase ==
    /\ \A e, f \in records.media :
          e.phase_version = f.phase_version => e.phase = f.phase
    /\ \A e \in records.media :
          /\ e.phase_version \leq phase_version
          /\ e.phase_version = phase_version => e.phase = phase

(* What the dashboard of a formal Session shows as missing is what the       *)
(* transition will enforce: formal_readiness and missing_prerequisites spell *)
(* the rules with different keys and agree on every reachable projection.    *)
ReadinessAgrees ==
    phase # COMPLETED =>
        (FormalRequired[phase + 1] \subseteq projected
            <=> Required[phase + 1] \subseteq projected)

(* No step loses a completion key: the transition of a formal Session swaps  *)
(* a projected map in and must put the stored one back.                      *)
CompletionOnlyGrows == [][completion \subseteq completion']_vars

(* A terminated Session stays as it is, but for an advance that was          *)
(* authorized before the termination and commits after it: transition takes  *)
(* the row lock and checks the phase again, never the status.                *)
OnlyStaleAdvanceRevives ==
    [][status = "terminated" /\ <<status, phase>>' # <<status, phase>> =>
        \E r \in Requests : requests[r].op = "advance" /\ requests'[r] = Idle]_vars

(* Participants who keep consenting and a researcher who keeps pressing      *)
(* start: strong fairness, because a crashed handler has to be retried.  An  *)
(* advance that has read runs to its end unless its process dies.            *)
ConsentReads(role) == \E r \in Requests : SubmitRead(r, "consent", role)
ConsentCommits(role) ==
    \E r \in Requests : /\ requests[r] = [op |-> "submit", type |-> "consent", role |-> role]
                        /\ SubmitCommit(r)

ConsentFairness ==
    /\ \A role \in HUMAN_ROLES :
          /\ SF_vars(<<"consent", role>> \notin completion /\ ConsentReads(role))
          /\ SF_vars(ConsentCommits(role))
    /\ SF_vars(\E r \in Requests : StartRead(r))
    /\ SF_vars(\E r \in Requests : StartCommit(r))
    /\ \A r \in Requests : WF_vars(AdvanceCommit(r))

FairStartSpec == Spec /\ ConsentFairness

(* A created Session can be started: it leaves SETUP unless terminated.      *)
SessionStarts == <>(phase # SETUP \/ status = "terminated")
=============================================================================
