----------------------------- MODULE Delegation -----------------------------
(***************************************************************************)
(* What the Proxy may know: the configuration by which P authorizes          *)
(* materials, its revisions by researchers, and the START_PROXY_MEETING      *)
(* command of A that carries the authorized context to B.  A request reads   *)
(* the Session and the configurations, records the command and then sends    *)
(* it; nothing holds the Session between these steps.                        *)
(***************************************************************************)
EXTENDS Naturals, Sequences

CONSTANTS
    Own,            \* materials of P
    Foreign,        \* materials of the others
    CommandIds,     \* command ids
    Calls,          \* requests that may be in flight
    MaxConfigs,     \* bound: configurations and their revisions
    MaxVersions,    \* bound: phase versions
    MaxIssues       \* bound: requests

ASSUME DelegationAssumption ==
    /\ Own \cap Foreign = {}
    /\ MaxConfigs \in Nat /\ MaxVersions \in Nat /\ MaxIssues \in Nat

VARIABLES
    phases,         \* the phase of each phase version so far; the last one is current
    configs,        \* proxy_config submissions of P, by timestamp
    calls,          \* what each request does next
    logged,         \* media_command events of A: envelopes
    held,           \* rows of the commands that B accepted: envelopes
    issues

delegationVars == <<phases, configs, calls, logged, held, issues>>

NoCall == [at |-> "free"]
Pending(step, envelope, seen) == [at |-> step, envelope |-> envelope, seen |-> seen]

Version == Len(phases)
Current == phases[Version]

DelegationInit ==
    /\ phases = <<"configuration">> /\ configs = <<>>
    /\ calls = [r \in Calls |-> NoCall]
    /\ logged = {} /\ held = {} /\ issues = 0

\* The researcher moves the Session, forward or back.
MoveSession(phase) ==
    /\ Version < MaxVersions /\ phase # Current
    /\ phases' = Append(phases, phase)
    /\ UNCHANGED <<configs, calls, logged, held, issues>>

\* submit, with _validate_proxy_config_authorization: P confirms, and names
\* materials of P.
SubmitConfig(ids) ==
    /\ configs = <<>> /\ Current = "configuration"
    /\ ids \subseteq Own
    /\ configs' = <<[confirmed |-> TRUE, ids |-> ids]>>
    /\ UNCHANGED <<phases, calls, logged, held, issues>>

\* _revision_from: the payload is not looked at.
RevisionOf(confirmed, ids) == [confirmed |-> confirmed, ids |-> ids]

\* revise_submission, at any time.
ReviseConfig(confirmed, ids) ==
    /\ configs # <<>> /\ Len(configs) < MaxConfigs
    /\ configs' = Append(configs, RevisionOf(confirmed, ids))
    /\ UNCHANGED <<phases, calls, logged, held, issues>>

(* Mutant: the last configuration that was confirmed, though revised since.  *)
Authorized_AnyConfig ==
    {n \in 1..Len(configs) : configs[n].confirmed /\ configs[n].ids \subseteq Own}

(* Mutant: the materials are not looked up again. *)
Authorized_AsRevised == {n \in 1..Len(configs) : n = Len(configs) /\ configs[n].confirmed}

\* _proxy_authorized_context: the last configuration, if it is confirmed and its
\* materials are materials of P.
AuthorizedConfigs ==
    {n \in 1..Len(configs) : n = Len(configs) /\ configs[n].confirmed /\ configs[n].ids \subseteq Own}

Envelope(id, n) ==
    [id |-> id, version |-> Version, config |-> n, materials |-> configs[n].ids]

\* issue_media_command: the Session and the context are read.  "seen" is not in
\* the envelope: the configurations there were.
IssueCommand(r, id) ==
    /\ calls[r] = NoCall /\ issues < MaxIssues
    /\ issues' = issues + 1
    /\ Current = "proxy_meeting"
    /\ \E n \in AuthorizedConfigs :
        calls' = [calls EXCEPT ![r] = Pending("record", Envelope(id, n), Len(configs))]
    /\ UNCHANGED <<phases, configs, logged, held>>

(* Mutant: a retry is recorded again. *)
RecordCommand_Again(r) ==
    /\ calls[r].at = "record"
    /\ logged' = logged \cup {calls[r].envelope}
    /\ calls' = [calls EXCEPT ![r] = Pending("send", calls[r].envelope, calls[r].seen)]
    /\ UNCHANGED <<phases, configs, held, issues>>

\* record_media_command: a command id is recorded once, whatever the envelope.
RecordCommand(r) ==
    /\ calls[r].at = "record"
    /\ logged' = IF \E e \in logged : e.id = calls[r].envelope.id
                 THEN logged ELSE logged \cup {calls[r].envelope}
    /\ calls' = [calls EXCEPT ![r] = Pending("send", calls[r].envelope, calls[r].seen)]
    /\ UNCHANGED <<phases, configs, held, issues>>

\* accept_command of B: a known id, or a START_PROXY_MEETING of that version, is
\* a duplicate.
Accept(envelope) ==
    held' = IF \E e \in held : e.id = envelope.id \/ e.version = envelope.version
            THEN held ELSE held \cup {envelope}

(* Mutant: the command goes out before it is recorded. *)
SendCommand_First(r) ==
    /\ calls[r].at \in {"record", "send"}
    /\ Accept(calls[r].envelope)
    /\ calls' = [calls EXCEPT ![r] = NoCall]
    /\ UNCHANGED <<phases, configs, logged, issues>>

\* send_command; the answer may be lost.
SendCommand(r) ==
    /\ calls[r].at = "send"
    /\ Accept(calls[r].envelope)
    /\ calls' = [calls EXCEPT ![r] = NoCall]
    /\ UNCHANGED <<phases, configs, logged, issues>>

\* B is not reached, or A dies: the researcher may try again with the same id.
DropCall(r) ==
    /\ calls[r] # NoCall
    /\ calls' = [calls EXCEPT ![r] = NoCall]
    /\ UNCHANGED <<phases, configs, logged, held, issues>>

DelegationNext ==
    \/ \E phase \in {"configuration", "proxy_meeting", "handoff"} : MoveSession(phase)
    \/ \E ids \in SUBSET (Own \cup Foreign) :
        SubmitConfig(ids) \/ \E confirmed \in BOOLEAN : ReviseConfig(confirmed, ids)
    \/ \E r \in Calls :
        \/ \E id \in CommandIds : IssueCommand(r, id)
        \/ RecordCommand(r) \/ SendCommand(r) \/ DropCall(r)

DelegationSpec == DelegationInit /\ [][DelegationNext]_delegationVars

-----------------------------------------------------------------------------
\* What B was told is a configuration of P as it stands in A, confirmed, with
\* materials of P only, however requests, revisions and retries interleave.
HeldIsAuthorized ==
    \A e \in held :
        /\ e.config \in 1..Len(configs)
        /\ configs[e.config].confirmed
        /\ e.materials = configs[e.config].ids /\ e.materials \subseteq Own

\* It carries a version of the Session that was the Proxy meeting.
HeldIsOfProxyMeeting == \A e \in held \cup logged : phases[e.version] = "proxy_meeting"

\* A has one record of every command id, before B has the command.  The context
\* on record is the one B has, unless the configuration was revised or the
\* Session moved between the attempts.
SentIsOnRecord ==
    /\ \A e, f \in logged : e.id = f.id => e = f
    /\ \A e \in held : \E f \in logged :
        e.id = f.id /\ (e = f \/ e.config # f.config \/ e.version # f.version)

\* Whoever is about to send has the newest configuration there was when it
\* looked: a revision that was there before is never overlooked.
NewestIsUsed == \A r \in Calls : calls[r] # NoCall => calls[r].envelope.config = calls[r].seen

\* The Proxy knows what P authorized.
ProxyIsAuthorized == HeldIsAuthorized /\ HeldIsOfProxyMeeting /\ SentIsOnRecord /\ NewestIsUsed
=============================================================================
