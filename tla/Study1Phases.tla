---------------------------- MODULE Study1Phases ----------------------------
(***************************************************************************)
(* The pure part of platform A: the fixed phase order, the prerequisites    *)
(* of every phase, the rule of every submission, and the projection that a  *)
(* formal_v2 Session uses to derive its completion map from its records.     *)
(*                                                                           *)
(* A phase is its position in PHASE_ORDER, so the phase after p is p + 1.    *)
(* A completion key "name:role" of the code is the pair <<name, role>>, and  *)
(* a key without a role is <<name, "session">>; a completion map is the set  *)
(* of its keys that are true (no code path ever sets one back to false).     *)
(***************************************************************************)
EXTENDS Integers

CONSTANTS
    RequireConsent,     \* session["require_consent"]
    MinimumReview       \* session["minimum_review_seconds"] > 0

ASSUME Study1PhasesAssumption ==
    /\ RequireConsent \in BOOLEAN
    /\ MinimumReview \in BOOLEAN

Teammates == {"teammate_1", "teammate_2"}
HUMAN_ROLES == {"principal"} \cup Teammates

SETUP == 0
MATERIAL_READING == 1
PRE_VOTE == 2
PROXY_CONFIGURATION == 3
PROXY_MEETING == 4
TENTATIVE_DECISION == 5
DELEGATION_EXPECTATION == 6
REVIEW == 7
COMPREHENSION_MEASUREMENT == 8
HANDOFF == 9
SYNC_MEETING == 10
FINAL_DECISION == 11
FOLLOWUP_TASK == 12
POST_SURVEY == 13
COMPLETED == 14

Phases == SETUP .. COMPLETED

By(name, roles) == {name} \X roles
Done(name) == <<name, "session">>

ReviewOpened == <<"review_opened", "principal">>
ReadingRecorded == <<"review_reading_recorded", "principal">>
MinimumTimeMet == <<"minimum_review_time_met", "principal">>

-----------------------------------------------------------------------------
(* state_machine.missing_prerequisites: the keys each target phase needs, in *)
(* phase order from MATERIAL_READING to COMPLETED.                           *)
Required == <<
    IF RequireConsent THEN By("consent", HUMAN_ROLES) ELSE {},
    By("material_ack", HUMAN_ROLES),                            \* PRE_VOTE
    By("pre_vote", HUMAN_ROLES),
    By("proxy_config", {"principal"}) \cup By("proxy_ready", Teammates),
    {Done("proxy_meeting_ended")},                              \* TENTATIVE_DECISION
    By("tentative_decision", Teammates),
    By("delegation_expectation", {"principal"})
        \cup {Done("summary_artifact_ready")},                  \* REVIEW
    {ReviewOpened, ReadingRecorded}
        \cup (IF MinimumReview THEN {MinimumTimeMet} ELSE {}),
    By("comprehension_measurement", {"principal"}),             \* HANDOFF
    {Done("handoff_complete")},
    {Done("sync_meeting_ended")},                               \* FINAL_DECISION
    By("final_decision", HUMAN_ROLES),
    By("followup_task", HUMAN_ROLES),                           \* POST_SURVEY
    By("post_survey", HUMAN_ROLES)>>

missing_prerequisites(target, completion) == Required[target] \ completion

(* state_machine.can_transition: only the next phase, and nothing missing.   *)
(* When the target is not the next phase the check returns before it looks   *)
(* at the prerequisites, so its list of missing keys is empty.               *)
target_is_next(phase, target) == target = phase + 1

reported_missing(phase, target, completion) ==
    IF target_is_next(phase, target)
    THEN missing_prerequisites(target, completion) ELSE {}

(* A transition that forgets its prerequisites.                               *)
can_transition_Unchecked(phase, target, completion) == target_is_next(phase, target)

can_transition(phase, target, completion) ==
    /\ target_is_next(phase, target)
    /\ missing_prerequisites(target, completion) = {}

-----------------------------------------------------------------------------
(* services.SUBMISSION_RULES and decisions.DECISION_POLICY.                  *)

SubmissionTypes == {"consent", "material_ack", "pre_vote", "proxy_config",
    "proxy_ready", "tentative_decision", "delegation_expectation",
    "comprehension_measurement", "final_decision", "followup_task",
    "post_survey"}

Rule(phase, roles) == [phase |-> phase, roles |-> roles]

SUBMISSION_RULES == [
    consent |-> Rule(SETUP, HUMAN_ROLES),
    material_ack |-> Rule(MATERIAL_READING, HUMAN_ROLES),
    pre_vote |-> Rule(PRE_VOTE, HUMAN_ROLES),
    proxy_config |-> Rule(PROXY_CONFIGURATION, {"principal"}),
    proxy_ready |-> Rule(PROXY_CONFIGURATION, Teammates),
    tentative_decision |-> Rule(TENTATIVE_DECISION, Teammates),
    delegation_expectation |-> Rule(DELEGATION_EXPECTATION, {"principal"}),
    comprehension_measurement |-> Rule(COMPREHENSION_MEASUREMENT, {"principal"}),
    final_decision |-> Rule(FINAL_DECISION, HUMAN_ROLES),
    followup_task |-> Rule(FOLLOWUP_TASK, HUMAN_ROLES),
    post_survey |-> Rule(POST_SURVEY, HUMAN_ROLES)]

(* A formal record names what it completes: the decision kinds, and the      *)
(* phases whose instrument completes a prerequisite.                         *)
DecisionKinds == {"pre_individual", "tentative_individual", "final_individual"}

legacy_name == [pre_individual |-> "pre_vote",
                tentative_individual |-> "tentative_decision",
                final_individual |-> "final_decision"]

DECISION_POLICY == [kind \in DecisionKinds |->
    SUBMISSION_RULES[legacy_name[kind]]]

InstrumentNames == {"pre_vote", "tentative_decision", "delegation_expectation",
    "comprehension_measurement", "final_decision", "post_survey"}

completion_by_phase == {"delegation_expectation", "comprehension_measurement",
    "post_survey"}

-----------------------------------------------------------------------------
(* formal_projection.project_formal_completion.  The records of a Session:   *)
(*   submissions  original submissions, <<type, role>>                       *)
(*   decisions    individual decisions, <<kind, role>>                       *)
(*   responses    instrument responses, <<name of the phase, role>>          *)
(*   media        media_event rows, [event_type, phase, phase_version]       *)
(*   ui           the principal's REVIEW_UI_EVENT_TYPES rows,                *)
(*                <<"review_page_enter" or "reading", minimum time passed>>  *)
(*   artifacts    artifact types stored                                      *)
(*   locks        shared artifact kinds with a locked revision               *)
(*   opened       review_opened_at is set                                    *)

IndividualKeys(r) ==
    r.submissions \cup r.decisions
        \cup {key \in DecisionKinds \X HUMAN_ROLES :
                 <<legacy_name[key[1]], key[2]>> \in r.submissions}
        \cup {key \in SubmissionTypes \X HUMAN_ROLES :
                 \E d \in r.decisions : <<legacy_name[d[1]], d[2]>> = key}

SharedKeys_LocksOnly(r) ==
    (IF "team_final" \in r.locks THEN {Done("team_final_locked")} ELSE {}) \cup
    (IF "followup_task" \in r.locks
     THEN {Done("followup_task_locked")} \cup By("followup_task", HUMAN_ROLES) ELSE {})

SharedKeys(r) ==
    LET team == \/ "team_final" \in r.locks
                \/ By("final_individual", HUMAN_ROLES) \subseteq IndividualKeys(r)
        task == \/ "followup_task" \in r.locks
                \/ By("followup_task", HUMAN_ROLES) \subseteq IndividualKeys(r)
    IN  (IF team THEN {Done("team_final_locked")} ELSE {}) \cup
        (IF task THEN {Done("followup_task_locked")}
                        \cup By("followup_task", HUMAN_ROLES) ELSE {})

MediaKeys(r) ==
    LET seen(type, phase) == \E e \in r.media : e.event_type = type /\ e.phase = phase
    IN  (IF \E e \in r.media : e.event_type = "HANDOFF_COMPLETE"
         THEN {Done("handoff_complete")} ELSE {}) \cup
        (IF seen("MEETING_ENDED", PROXY_MEETING)
         THEN {Done("proxy_meeting_ended")} ELSE {}) \cup
        (IF seen("MEETING_ENDED", SYNC_MEETING)
         THEN {Done("sync_meeting_ended")} ELSE {}) \cup
        (IF "summary" \in r.artifacts
         THEN {Done("summary_artifact_ready")} ELSE {})

ReviewKeys(r) ==
    (IF r.ui # {} THEN {ReadingRecorded} ELSE {}) \cup
    (IF \E e \in r.ui : e[1] = "review_page_enter" THEN {ReviewOpened} ELSE {}) \cup
    (IF r.opened /\ r.ui # {} /\ (MinimumReview => \E e \in r.ui : e[2])
     THEN {MinimumTimeMet} ELSE {})

ResponseKeys(r) == {key \in r.responses : key[1] \in completion_by_phase}

project_formal_completion(r) ==
    IndividualKeys(r) \cup SharedKeys(r) \cup MediaKeys(r)
        \cup ReviewKeys(r) \cup ResponseKeys(r)

(* formal_projection.formal_readiness: what the dashboard says is missing.   *)
FormalRequired == [Required EXCEPT
    ![PROXY_CONFIGURATION] = By("pre_individual", HUMAN_ROLES),
    ![DELEGATION_EXPECTATION] = By("tentative_individual", Teammates),
    ![FOLLOWUP_TASK] = By("final_individual", HUMAN_ROLES) \cup {Done("team_final_locked")},
    ![POST_SURVEY] = {Done("followup_task_locked")}]
=============================================================================
