----------------------------- MODULE MCLiveParts ----------------------------
(***************************************************************************)
(* Parts that work on their own and must get somewhere, checked side by side *)
(* in one run: the purge of a participant's data, the audio session of the   *)
(* browser, and the loops of the legacy agents.  A behaviour is one of the   *)
(* part it chose at the start and leaves the others at their initial state.  *)
(***************************************************************************)
EXTENDS Retention, StableAudio, AgentLoop

VARIABLE part

liveVars == <<retentionVars, stableVars, agentVars, part>>

LiveInit ==
    /\ part \in {"retention", "audio", "agents"}
    /\ RetentionInit /\ StableInit /\ AgentInit
    /\ part # "agents" => people

LiveNext ==
    \/ part = "retention" /\ RetentionNext /\ UNCHANGED <<stableVars, agentVars, part>>
    \/ part = "audio" /\ StableNext /\ UNCHANGED <<retentionVars, agentVars, part>>
    \/ part = "agents" /\ AgentNext /\ UNCHANGED <<retentionVars, stableVars, part>>

LiveSpec == /\ LiveInit /\ [][LiveNext]_liveVars
            /\ RetentionFairness /\ StableFairness /\ AgentFairness

\* Agents go on as long as their session runs, and no page shows "reconnecting"
\* for ever.
NobodyIsStuck == AgentsGoOn /\ WindowIsBounded
=============================================================================
