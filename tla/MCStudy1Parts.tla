---------------------------- MODULE MCStudy1Parts ---------------------------
(***************************************************************************)
(* The parts of Study 1 around the Session that work on their own, checked   *)
(* side by side in one run: the protocol and its snapshot, the telemetry of  *)
(* the review page, a shared artifact, and what the Proxy is told.  A        *)
(* behaviour is one of the part it chose at the start and leaves the others  *)
(* at their initial state.                                                   *)
(***************************************************************************)
EXTENDS ProtocolFreeze, ReviewTelemetry, SharedArtifact, Delegation, TLC

CONSTANTS principal, teammate_1, teammate_2

VARIABLE part

ThreeRoles == {principal, teammate_1, teammate_2}
RoleSymmetry == Permutations(ThreeRoles)

\* A pair of tasks that divide their facts over the roles, and one that leaves
\* a role without any.
TwoRoles == {"principal", "teammate_1"}
TwoFacts == {"f1", "f2"}
ThreeTasks == {[f \in TwoFacts |-> TwoRoles],
               ("f1" :> {"principal"}) @@ ("f2" :> {"teammate_1"}),
               [f \in TwoFacts |-> {"principal"}]}

partsVars == <<protocolVars, telemetryVars, vars, delegationVars, part>>

PartsInit ==
    /\ part \in {"protocol", "telemetry", "artifact", "delegation"}
    /\ ProtocolInit /\ TelemetryInit /\ Init /\ DelegationInit

PartsNext ==
    \/ part = "protocol" /\ ProtocolNext /\ UNCHANGED <<telemetryVars, vars, delegationVars, part>>
    \/ part = "telemetry" /\ TelemetryNext /\ UNCHANGED <<protocolVars, vars, delegationVars, part>>
    \/ part = "artifact" /\ Next /\ UNCHANGED <<protocolVars, telemetryVars, delegationVars, part>>
    \/ part = "delegation" /\ DelegationNext /\ UNCHANGED <<protocolVars, telemetryVars, vars, part>>

PartsSpec == PartsInit /\ [][PartsNext]_partsVars
=============================================================================
