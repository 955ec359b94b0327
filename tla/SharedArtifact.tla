--------------------------- MODULE SharedArtifact ---------------------------
(***************************************************************************)
(* One shared artifact of a formal Session in platform A: the team's final   *)
(* decision or the follow-up task.  The participants edit it by revisions,   *)
(* each naming the revision it replaces, and confirm the current revision;   *)
(* the confirmation that completes the three roles locks it.                 *)
(*                                                                           *)
(* A browser acts on what it last loaded.  A request was admitted on an      *)
(* unlocked read of the Session and commits later under the row locks of     *)
(* the Session and the artifact, so requests overtake one another.           *)
(***************************************************************************)
EXTENDS Naturals, Sequences, FiniteSets

CONSTANTS
    HUMAN_ROLES,        \* the three participants, one per role
    MaxRevisions,       \* bound: revisions of the artifact
    MaxInFlight         \* bound: admitted requests that have not committed

ASSUME SharedArtifactAssumption ==
    /\ HUMAN_ROLES # {}
    /\ MaxRevisions \in Nat
    /\ MaxInFlight \in Nat

VARIABLES
    open,               \* the Session is running in the phase of the artifact
    revisions,          \* rows of study1_shared_revisions, in revision_number order
    current,            \* current_revision_id, 0 for None
    locked,             \* locked_revision_id, 0 for None
    confirmations,      \* rows <<revision, role>>
    decision,           \* source_revision_id of the team's decision row, 0 for none
    shown,              \* the revisions each participant's tabs have loaded, 0 for none
    inflight            \* admitted requests

vars == <<open, revisions, current, locked, confirmations, decision, shown, inflight>>

Roles == HUMAN_ROLES
Revision == [parent : Nat, editor : Roles]
Request == [op : {"revise", "confirm"}, role : Roles, revision : Nat]

Init ==
    /\ open = TRUE
    /\ revisions = <<>>
    /\ current = 0
    /\ locked = 0
    /\ confirmations = {}
    /\ decision = 0
    /\ shown = [role \in Roles |-> {0}]
    /\ inflight = {}

(* Study1Service.get_shared_artifact: a tab shows the current revision.      *)
Look(role) ==
    /\ open
    /\ shown' = [shown EXCEPT ![role] = @ \cup {current}]
    /\ UNCHANGED <<open, revisions, current, locked, confirmations, decision, inflight>>

(* Study1Service.create_shared_revision and confirm_shared_revision up to    *)
(* the repository call: phase, assignment and authorization on a read.  The  *)
(* request names the revision its tab shows, which may be an old one.        *)
Admit(op, role, n) ==
    /\ open
    /\ n \in shown[role]
    /\ op = "confirm" => n # 0
    /\ inflight' = inflight \cup {[op |-> op, role |-> role, revision |-> n]}
    /\ Cardinality(inflight') \leq MaxInFlight
    /\ UNCHANGED <<open, revisions, current, locked, confirmations, decision, shown>>

Answer(request) == inflight' = inflight \ {request}

revision_allowed_AnyParent(request) == locked = 0

revision_allowed_EvenLocked(request) == request.revision = current

revision_allowed(request) ==
    /\ locked = 0
    /\ request.revision = current

(* A revision credited to the team and not to the participant.               *)
CreateRevision_ByTeam(request) ==
    /\ request.op = "revise"
    /\ revision_allowed(request)
    /\ Len(revisions) < MaxRevisions
    /\ revisions' = Append(revisions, [parent |-> current, editor |-> "team"])
    /\ current' = Len(revisions')
    /\ Answer(request)
    /\ UNCHANGED <<open, locked, confirmations, decision, shown>>

(* repository.create_shared_revision, whose answer shows the new revision.   *)
CreateRevision(request) ==
    LET number == Len(revisions) + 1
    IN  /\ request.op = "revise"
        /\ revision_allowed(request)
        /\ number \leq MaxRevisions
        /\ revisions' = Append(revisions, [parent |-> request.revision,
                                           editor |-> request.role])
        /\ current' = number
        /\ shown' = [shown EXCEPT ![request.role] = @ \cup {number}]
        /\ Answer(request)
        /\ UNCHANGED <<open, locked, confirmations, decision>>

confirmed_by(revision, rows) == {role \in Roles : <<revision, role>> \in rows}

(* A count taken before the new confirmation is flushed.                     *)
ConfirmRevision_CountsFirst(request) ==
    LET all_confirmed == confirmed_by(request.revision, confirmations) = Roles
    IN  /\ request.op = "confirm"
        /\ request.revision = current
        /\ confirmations' = confirmations \cup {<<current, request.role>>}
        /\ locked' = IF all_confirmed /\ locked = 0 THEN current ELSE locked
        /\ decision' = IF all_confirmed /\ decision = 0 THEN current ELSE decision
        /\ Answer(request)
        /\ UNCHANGED <<open, revisions, current, shown>>

(* A confirmation that takes whatever is current for the revision it names.  *)
ConfirmRevision_Latest(request) ==
    LET rows == confirmations \cup {<<current, request.role>>}
        completes == confirmed_by(current, rows) = Roles /\ locked = 0
    IN  /\ request.op = "confirm"
        /\ confirmations' = rows
        /\ locked' = IF completes THEN current ELSE locked
        /\ decision' = IF completes /\ decision = 0 THEN current ELSE decision
        /\ Answer(request)
        /\ UNCHANGED <<open, revisions, current, shown>>

(* repository.confirm_shared_revision: insert once per participant, then     *)
(* count the roles that have confirmed and lock in the same transaction.     *)
ConfirmRevision(request) ==
    LET rows == confirmations \cup {<<current, request.role>>}
        completes == confirmed_by(current, rows) = Roles /\ locked = 0
    IN  /\ request.op = "confirm"
        /\ request.revision = current
        /\ confirmations' = rows
        /\ locked' = IF completes THEN current ELSE locked
        /\ decision' = IF completes /\ decision = 0 THEN current ELSE decision
        /\ Answer(request)
        /\ UNCHANGED <<open, revisions, current, shown>>

(* Any other request is answered with 409.                                   *)
Refuse(request) ==
    /\ IF request.op = "revise" THEN ~revision_allowed(request)
                                ELSE request.revision # current
    /\ Answer(request)
    /\ UNCHANGED <<open, revisions, current, locked, confirmations, decision, shown>>

(* The Session moves on, pauses or comes back; the row keeps its content.    *)
SessionMoves ==
    /\ open' = ~open
    /\ UNCHANGED <<revisions, current, locked, confirmations, decision, shown, inflight>>

(* A request or its answer is lost, or the worker that serves it dies.       *)
Lose(request) ==
    /\ Answer(request)
    /\ UNCHANGED <<open, revisions, current, locked, confirmations, decision, shown>>

Next ==
    \/ \E role \in Roles :
          \/ Look(role)
          \/ \E op \in {"revise", "confirm"}, n \in shown[role] : Admit(op, role, n)
    \/ \E request \in inflight :
          \/ CreateRevision(request)
          \/ ConfirmRevision(request)
          \/ Refuse(request)
          \/ Lose(request)
    \/ SessionMoves

Spec == Init /\ [][Next]_vars
-----------------------------------------------------------------------------
(* Type invariant of the artifact row, its revisions and its confirmations.  *)
TypeOK ==
    /\ open \in BOOLEAN
    /\ revisions \in Seq(Revision)
    /\ current \in Nat
    /\ locked \in Nat
    /\ confirmations \in SUBSET (Nat \X Roles)
    /\ decision \in Nat
    /\ shown \in [Roles -> SUBSET Nat]
    /\ inflight \in SUBSET Request

(* No edit is lost: every revision replaced the revision just before it, so  *)
(* its editor had the whole history, and the newest revision is current.     *)
RevisionsChain ==
    /\ current = Len(revisions)
    /\ \A n \in 1 .. Len(revisions) : revisions[n].parent = n - 1

(* The artifact is locked exactly when all three roles have confirmed its    *)
(* current revision, and the team's decision is that revision.               *)
LockMeansAgreement ==
    /\ decision = locked
    /\ locked # 0 <=> current # 0 /\ confirmed_by(current, confirmations) = Roles
    /\ locked # 0 => locked = current

(* A locked artifact never changes again, whatever requests are still on     *)
(* their way.                                                                *)
LockIsFinal ==
    [][locked # 0 => UNCHANGED <<revisions, current, locked, decision>>]_vars

(* A participant is only ever recorded for a revision that participant was   *)
(* shown, although others may replace it while the confirmation travels.     *)
ConfirmedWhatWasShown == \A row \in confirmations : row[1] \in shown[row[2]]

(* The artifact the team locked is the one all three saw: no edit was lost   *)
(* on the way to it, every role confirmed that revision, and each of them    *)
(* had been shown it.                                                        *)
AgreementIsReal == TypeOK /\ RevisionsChain /\ LockMeansAgreement /\ ConfirmedWhatWasShown
=============================================================================
