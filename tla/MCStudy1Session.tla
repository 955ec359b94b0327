--------------------------- MODULE MCStudy1Session --------------------------
(***************************************************************************)
(* The inputs Study1Session is model-checked with: which submissions,        *)
(* decisions, UI events, media events and target phases a run sends.         *)
(***************************************************************************)
EXTENDS Study1Session

AllTargets == Phases
AllSubmissions == SubmissionTypes
AllKinds == DecisionKinds
FormalInstruments == completion_by_phase
FormalSubmissions == {"material_ack", "proxy_config", "proxy_ready"}
ConsentOnly == {"consent"}
FlagEvents == {"HANDOFF_COMPLETE", "MEETING_ENDED", "summary"}
RaceTargets == {PROXY_MEETING, HANDOFF}
RaceEvents == {"MEDIA_READY", "MEETING_ENDED"}
ReviewTypes == {"scroll_depth", "review_page_enter"}
None == {}
=============================================================================
