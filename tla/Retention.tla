------------------------------ MODULE Retention -----------------------------
(***************************************************************************)
(* Withdrawal of a Session's media: platform A writes a dry run, a           *)
(* researcher approves its manifest, A sends PURGE_SESSION_MEDIA, marks the  *)
(* job executed and writes a tombstone; the media service B stops the        *)
(* meeting and deletes rows.  Jobs and tombstones of A live in memory.       *)
(* Contents of manifests are left out; a manifest has the job it belongs to. *)
(***************************************************************************)
EXTENDS Naturals, FiniteSets

CONSTANTS
    Jobs,           \* retention jobs
    Approvals,      \* execute requests that may be in flight
    MaxMeetings,    \* bound: meetings held
    MaxPurgeCrashes,    \* bound: restarts of B
    MaxRetentionRestarts \* bound: restarts of A

ASSUME RetentionAssumption ==
    /\ IsFiniteSet(Jobs)
    /\ {MaxMeetings, MaxPurgeCrashes, MaxRetentionRestarts} \subseteq Nat

VARIABLES
    jobs,           \* A: job -> "none", "dry_run" or "executed"
    tombs,          \* A: tombstones written for each job
    approving,      \* A: approval -> [at, job]
    ledger,         \* B: command of each job: "new", "accepted", "processing", "failed", "completed"
    purging,        \* B: [at, job] of the command that is being carried out
    meeting,        \* B: a runtime of the Session is active
    media,          \* B: rows of the Session, each the number of its meeting
    marks,          \* B: retention tombstones, one per job
    deletions,      \* history: how often the command of a job deleted rows
    purged,         \* history: the meetings held when rows were last deleted
    meetings,       \* history: meetings held
    restarts        \* [a, b]: restarts so far

retentionVars ==
    <<jobs, tombs, approving, ledger, purging, meeting, media, marks, deletions,
      purged, meetings, restarts>>

InA == <<jobs, tombs, approving>>
InB == <<ledger, purging, meeting, media, marks, deletions, purged, meetings>>
NoJob == "no job"
Resting == [at |-> "idle", job |-> NoJob]

RetentionInit ==
    /\ jobs = [j \in Jobs |-> "none"] /\ tombs = [j \in Jobs |-> 0]
    /\ approving = [a \in Approvals |-> Resting]
    /\ ledger = [j \in Jobs |-> "new"] /\ purging = Resting
    /\ meeting = FALSE /\ media = {} /\ marks = {}
    /\ deletions = [j \in Jobs |-> 0]
    /\ purged = 0 /\ meetings = 0 /\ restarts = [a |-> 0, b |-> 0]

(* create_dry_run, for a participant who withdraws or for a researcher. *)
CreateDryRun(j) ==
    /\ jobs[j] = "none" /\ ledger[j] = "new"    \* job ids are never used again
    /\ jobs' = [jobs EXCEPT ![j] = "dry_run"]
    /\ UNCHANGED <<tombs, approving, restarts>> /\ UNCHANGED InB

(* execute works on a copy of the job: status and checksum are checked, the    *)
(* command is sent, and then the copy is stored as executed.                   *)
Approve(a, j) ==
    /\ approving[a] = Resting /\ jobs[j] = "dry_run"
    /\ approving' = [approving EXCEPT ![a] = [at |-> "send", job |-> j]]
    /\ UNCHANGED <<jobs, tombs, restarts>> /\ UNCHANGED InB

(* Mutant: a failed command gets a status nobody reads. *)
Accepted_Unnamed(j) == ledger' = [ledger EXCEPT ![j] =
                   IF @ \in {"new", "failed"} THEN "queued" ELSE @]

\* accept_command: a command with a known semantic key is answered as a
\* duplicate; a failed one is queued again.
Accepted(j) == ledger' = [ledger EXCEPT ![j] =
                   IF @ \in {"new", "failed"} THEN "accepted" ELSE @]

(* The gateway answers: the handler goes on.  The command or the answer is     *)
(* lost, or takes ten seconds: MediaGatewayError, and the job stays a dry run. *)
Send(a) ==
    /\ approving[a].at = "send"
    /\ approving' = [approving EXCEPT ![a].at = "store"]
    /\ Accepted(approving[a].job)
    /\ UNCHANGED <<jobs, tombs, purging, meeting, media, marks, deletions, purged, meetings, restarts>>

(* Mutant: a failed call is taken for an accepted one. *)
SendFails_Goes(a) ==
    /\ approving[a].at = "send"
    /\ approving' = [approving EXCEPT ![a].at = "store"]
    /\ Accepted(approving[a].job) \/ UNCHANGED ledger
    /\ UNCHANGED <<jobs, tombs, purging, meeting, media, marks, deletions, purged, meetings, restarts>>

SendFails(a) ==
    /\ approving[a].at = "send"
    /\ approving' = [approving EXCEPT ![a] = Resting]
    /\ Accepted(approving[a].job) \/ UNCHANGED ledger
    /\ UNCHANGED <<jobs, tombs, purging, meeting, media, marks, deletions, purged, meetings, restarts>>

Executed(a) ==
    /\ approving[a].at = "store"
    /\ LET j == approving[a].job
       IN  /\ jobs' = [jobs EXCEPT ![j] = "executed"]
           /\ tombs' = [tombs EXCEPT ![j] = @ + 1]
    /\ approving' = [approving EXCEPT ![a] = Resting]
    /\ UNCHANGED restarts /\ UNCHANGED InB

(* A restarts: the InMemoryRetentionStore and every request are gone. *)
RestartA ==
    /\ restarts.a < MaxRetentionRestarts
    /\ restarts' = [restarts EXCEPT !.a = @ + 1]
    /\ jobs' = [j \in Jobs |-> "none"] /\ tombs' = [j \in Jobs |-> 0]
    /\ approving' = [a \in Approvals |-> Resting]
    /\ UNCHANGED InB

-----------------------------------------------------------------------------
(* The meetings of B: commands of the Session wait while one is carried out;   *)
(* the pipeline of an active meeting writes at any time until it is cancelled. *)
StartMeeting ==
    /\ purging.at = "idle" /\ ~meeting /\ meetings < MaxMeetings
    /\ meeting' = TRUE /\ meetings' = meetings + 1
    /\ UNCHANGED <<ledger, purging, media, marks, deletions, purged, restarts>> /\ UNCHANGED InA

WriteSegment ==
    /\ meeting
    /\ media' = media \cup {<<"segment", meetings>>}
    /\ UNCHANGED <<ledger, purging, meeting, marks, deletions, purged, meetings, restarts>> /\ UNCHANGED InA

EndMeeting ==
    /\ purging.at = "idle" /\ meeting
    /\ meeting' = FALSE
    /\ media' = media \cup {<<"artifact", meetings>>}
    /\ UNCHANGED <<ledger, purging, marks, deletions, purged, meetings, restarts>> /\ UNCHANGED InA

(* Mutant: an active meeting is not stopped first. *)
Claim_NoStop(j) ==
    /\ purging.at = "idle" /\ ledger[j] = "accepted"
    /\ ledger' = [ledger EXCEPT ![j] = "processing"]
    /\ purging' = [at |-> "purge", job |-> j]
    /\ UNCHANGED <<meeting, media, marks, deletions, purged, meetings, restarts>> /\ UNCHANGED InA

(* purge_session_media under the lock of the Session: claim the command, stop  *)
(* the meeting if there is one, delete, complete.                              *)
Claim(j) ==
    /\ purging.at = "idle" /\ ledger[j] = "accepted"
    /\ ledger' = [ledger EXCEPT ![j] = "processing"]
    /\ purging' = [at |-> IF meeting THEN "stop" ELSE "purge", job |-> j]
    /\ UNCHANGED <<meeting, media, marks, deletions, purged, meetings, restarts>> /\ UNCHANGED InA

StopFirst ==
    /\ purging.at = "stop"
    /\ meeting' = FALSE
    /\ purging' = [purging EXCEPT !.at = "purge"]
    /\ UNCHANGED <<ledger, media, marks, deletions, purged, meetings, restarts>> /\ UNCHANGED InA

(* Mutant: the command is completed although cleaning up failed. *)
StopFails_Completes ==
    /\ purging.at = "stop"
    /\ meeting' = FALSE
    /\ ledger' = [ledger EXCEPT ![purging.job] = "completed"]
    /\ purging' = Resting
    /\ UNCHANGED <<media, marks, deletions, purged, meetings, restarts>> /\ UNCHANGED InA

\* Cancelling or disconnecting raises: the runtime is ended, the purge is not done.
StopFails ==
    /\ purging.at = "stop"
    /\ meeting' = FALSE
    /\ ledger' = [ledger EXCEPT ![purging.job] = "failed"]
    /\ purging' = Resting
    /\ UNCHANGED <<media, marks, deletions, purged, meetings, restarts>> /\ UNCHANGED InA

(* Mutant: the tombstone of the job is not looked for. *)
Purge_NoMark ==
    /\ purging.at = "purge"
    /\ IF FALSE
       THEN UNCHANGED <<media, marks, deletions, purged>>
       ELSE /\ media' = {} /\ purged' = meetings
            /\ marks' = marks \cup {purging.job}
            /\ deletions' = [deletions EXCEPT ![purging.job] = @ + 1]
    /\ purging' = [purging EXCEPT !.at = "complete"]
    /\ UNCHANGED <<ledger, meeting, meetings, restarts>> /\ UNCHANGED InA

\* One transaction; a job that has its tombstone has nothing left to do.
Purge ==
    /\ purging.at = "purge"
    /\ IF purging.job \in marks
       THEN UNCHANGED <<media, marks, deletions, purged>>
       ELSE /\ media' = {} /\ purged' = meetings
            /\ marks' = marks \cup {purging.job}
            /\ deletions' = [deletions EXCEPT ![purging.job] = @ + 1]
    /\ purging' = [purging EXCEPT !.at = "complete"]
    /\ UNCHANGED <<ledger, meeting, meetings, restarts>> /\ UNCHANGED InA

Complete ==
    /\ purging.at = "complete"
    /\ ledger' = [ledger EXCEPT ![purging.job] = "completed"]
    /\ purging' = Resting
    /\ UNCHANGED <<meeting, media, marks, deletions, purged, meetings, restarts>> /\ UNCHANGED InA

(* Mutant: commands in progress are not queued again. *)
RestartB_Forgets ==
    /\ restarts.b < MaxPurgeCrashes
    /\ restarts' = [restarts EXCEPT !.b = @ + 1]
    /\ ledger' = [j \in Jobs |-> IF ledger[j] \in {"failed"}
                                 THEN "accepted" ELSE ledger[j]]
    /\ purging' = Resting
    /\ UNCHANGED <<meeting, media, marks, deletions, purged, meetings>> /\ UNCHANGED InA

(* B restarts: what was being carried out or had failed is carried out again. *)
RestartB ==
    /\ restarts.b < MaxPurgeCrashes
    /\ restarts' = [restarts EXCEPT !.b = @ + 1]
    /\ ledger' = [j \in Jobs |-> IF ledger[j] \in {"processing", "failed"}
                                 THEN "accepted" ELSE ledger[j]]
    /\ purging' = Resting
    /\ UNCHANGED <<meeting, media, marks, deletions, purged, meetings>> /\ UNCHANGED InA

RetentionNext ==
    \/ \E j \in Jobs : CreateDryRun(j) \/ Claim(j)
    \/ \E a \in Approvals :
        \/ \E j \in Jobs : Approve(a, j)
        \/ Send(a)
        \/ SendFails(a)
        \/ Executed(a)
    \/ RestartA
    \/ StartMeeting
    \/ WriteSegment
    \/ EndMeeting
    \/ StopFirst
    \/ StopFails
    \/ Purge
    \/ Complete
    \/ RestartB

RetentionSpec == RetentionInit /\ [][RetentionNext]_retentionVars

\* An accepted purge is carried out: the task of the command, or the
\* reconciliation after a restart, takes its steps.
RetentionFairness == WF_retentionVars(\E j \in Jobs : Claim(j))
                     /\ WF_retentionVars(StopFirst) /\ WF_retentionVars(Purge)
                     /\ WF_retentionVars(Complete)

-----------------------------------------------------------------------------
\* Type correctness.
RetentionTypeOK ==
    /\ \A j \in Jobs : /\ jobs[j] \in {"none", "dry_run", "executed"}
                       /\ ledger[j] \in {"new", "accepted", "processing", "failed", "completed"}
    /\ marks \subseteq Jobs
    /\ purging.at \in {"idle", "stop", "purge", "complete"}
    /\ \A a \in Approvals : approving[a].at \in {"idle", "send", "store"}

\* The command of a job deletes at most once, whatever is approved twice, sent
\* again or carried out again after a restart: media of a meeting held after
\* the purge is not part of the manifest that was approved.
PurgedOnce == \A j \in Jobs : deletions[j] <= 1

\* Nothing of a meeting that began before the purge is written after it: the
\* pipeline is stopped before the rows are deleted.
NothingWrittenLate == \A row \in media : row[2] > purged

\* A tombstone in A means that B has the command of the job in its ledger: no
\* restart of either side and no lost answer leaves a tombstone without one.
TombstoneHasCommand == \A j \in Jobs : tombs[j] > 0 => ledger[j] # "new"

\* What B reports as done, it has done: a completed command left its tombstone.
CompletedIsPurged == \A j \in Jobs : ledger[j] = "completed" => j \in marks

\* A purge that is not refused half-way is carried out in the end: a command
\* does not stay accepted, although meetings go on and the service restarts.
PurgeIsCarriedOut ==
    \A j \in Jobs : []<>(ledger[j] \notin {"accepted", "processing"})

\* A purge deletes what was approved, and leaves its traces in order: once,
\* with nothing of an earlier meeting written after it, never a tombstone
\* without its command nor a completed command without its tombstone.
PurgeIsExact ==
    RetentionTypeOK /\ PurgedOnce /\ NothingWrittenLate /\ TombstoneHasCommand /\ CompletedIsPurged
=============================================================================
