--------------------------- MODULE ProtocolFreeze ---------------------------
(***************************************************************************)
(* The protocol of a formal Session in platform A: the task definition it is *)
(* built from, the configuration snapshot with its checksum, the materials,  *)
(* and the start that freezes them.                                          *)
(*                                                                           *)
(* Every handler reads in transactions of its own and writes in a last one;  *)
(* a request is at the step it will take next.  A task is a function from    *)
(* its facts to the roles that see them, a configuration a function from its *)
(* fields to values, and a checksum is the record of what was hashed.        *)
(***************************************************************************)
EXTENDS Naturals

CONSTANTS
    StudyRoles,     \* participant roles
    Facts,          \* fact ids
    Tasks,          \* contents a researcher sends for the task definition
    Fields,         \* fields of the configuration
    Values,         \* their values
    Uploads,        \* materials a researcher may add
    Editors         \* researcher requests that may be in flight

ASSUME ProtocolAssumption ==
    /\ StudyRoles # {} /\ Values # {} /\ Uploads \cap Facts = {}
    /\ Tasks \subseteq [Facts -> SUBSET StudyRoles]

VARIABLES
    definition,     \* the task definition: [content, status]
    reviewed,       \* history: contents a researcher was told are validated
    session,        \* status of the Session, "none" before it is created
    snapshot,       \* the protocol snapshot row: [config, checksum, frozen]
    payload,        \* the copy of it in the payload of the Session
    materials,      \* material rows: [role, shows]
    editors,        \* the requests
    overlapped      \* history: two requests on the protocol were in flight at once

protocolVars ==
    <<definition, reviewed, session, snapshot, payload, materials, editors, overlapped>>

Configs == [Fields -> Values]

\* validate_registered_task: every fact has an audience, every role a fact.
ValidTask(t) == /\ \A f \in Facts : t[f] # {}
                /\ UNION {t[f] : f \in Facts} = StudyRoles

(* Mutant: facts for one role are shown to both. *)
TaskMaterials_Shared(t) == {[role |-> r, shows |-> {f \in Facts : t[f] # {}}] : r \in StudyRoles}

\* _registered_task_materials: one material per role with the facts it may see.
TaskMaterials(t) == {[role |-> r, shows |-> {f \in Facts : r \in t[f]}] : r \in StudyRoles}

Checksum(config, task, assignments, rows) ==
    [config |-> config, task |-> task, assignments |-> assignments, rows |-> rows]

Unfrozen(config, sum) == [config |-> config, checksum |-> sum, frozen |-> FALSE]
Frozen(config, sum) == [config |-> config, checksum |-> sum, frozen |-> TRUE]
NoRow == [frozen |-> FALSE]
Idle == [at |-> "idle", row |-> NoRow]

ProtocolInit ==
    /\ definition = [status |-> "absent"]
    /\ reviewed = {}
    /\ session = "none"
    /\ snapshot = NoRow /\ payload = NoRow
    /\ materials = {}
    /\ editors = [e \in Editors |-> Idle]
    /\ overlapped = FALSE

OnTask == UNCHANGED <<session, snapshot, payload, materials, overlapped>>
OnProtocol == UNCHANGED <<definition, reviewed>>
Become(e, at, row) == editors' = [editors EXCEPT ![e] = [at |-> at, row |-> row]]
Busy(e) == editors[e].at \in {"update", "update_write", "add", "freeze", "freeze_write", "control"}
\* A request on the protocol begins: it overlaps when another one is in flight.
Overlap(e) == overlapped' = (overlapped \/ \E o \in Editors \ {e} : Busy(o))
Done(e) == editors' = [editors EXCEPT ![e] = Idle]
At(e, at) == editors[e].at = at

(* create_task_definition: unknown versions only, in one transaction. *)
CreateDefinition(t) ==
    /\ definition.status = "absent" /\ ValidTask(t)
    /\ definition' = [content |-> t, status |-> "draft"]
    /\ UNCHANGED <<reviewed, editors>> /\ OnTask

(* replace_task_definition: the draft is read, then replaced under its lock. *)
BeginReplace(e, t) ==
    /\ At(e, "idle") /\ definition.status = "draft" /\ ValidTask(t)
    /\ Become(e, "replace", [content |-> t])
    /\ UNCHANGED <<definition, reviewed>> /\ OnTask

(* Mutant: the status is not checked again under the lock. *)
FinishReplace_NoLock(e) ==
    /\ At(e, "replace")
    /\ definition' = [definition EXCEPT !.content = editors[e].row.content]
    /\ Done(e) /\ UNCHANGED reviewed /\ OnTask

FinishReplace(e) ==
    /\ At(e, "replace")
    /\ definition' = IF definition.status = "draft"
                     THEN [definition EXCEPT !.content = editors[e].row.content]
                     ELSE definition
    /\ Done(e) /\ UNCHANGED reviewed /\ OnTask

(* validate_task_definition: the draft is read and checked; the status is set *)
(* under the lock if the row still has the checksum that was checked.         *)
BeginValidate(e) ==
    /\ At(e, "idle") /\ definition.status = "draft"
    /\ ValidTask(definition.content)
    /\ Become(e, "validate", [content |-> definition.content])
    /\ UNCHANGED <<definition, reviewed>> /\ OnTask

(* Mutant: the status is set whatever the row now holds. *)
FinishValidate_AnyContent(e) ==
    /\ At(e, "validate")
    /\ IF TRUE
       THEN /\ definition' = [definition EXCEPT !.status = "validated"]
            /\ reviewed' = reviewed \cup {editors[e].row.content}
       ELSE UNCHANGED <<definition, reviewed>>
    /\ Done(e) /\ OnTask

FinishValidate(e) ==
    /\ At(e, "validate")
    /\ IF definition.content = editors[e].row.content
       THEN /\ definition' = [definition EXCEPT !.status = "validated"]
            /\ reviewed' = reviewed \cup {editors[e].row.content}
       ELSE UNCHANGED <<definition, reviewed>>
    /\ Done(e) /\ OnTask

(* create_session with a registered task, and clone_session, which calls it    *)
(* with the configuration of another Session and a new seed.                   *)
CreateSession(config) ==
    /\ session = "none" /\ definition.status = "validated"
    /\ session' = "waiting"
    /\ materials' = TaskMaterials(definition.content)
    /\ snapshot' = Unfrozen(config, Checksum(config, definition.content,
                                             {"roles", "facts"}, materials'))
    /\ payload' = snapshot'
    /\ UNCHANGED <<editors, overlapped>> /\ OnProtocol

(* Mutant: a frozen snapshot may be patched. *)
BeginUpdate_Frozen(e, field, value) ==
    /\ At(e, "idle") /\ session = "waiting"
    /\ Become(e, "update", [snapshot EXCEPT !.config[field] = value])
    /\ Overlap(e) /\ UNCHANGED <<session, snapshot, payload, materials>> /\ OnProtocol

(* update_protocol_config: the patch is applied to the snapshot that was read, *)
(* the materials are read for the checksum, and the row is written.            *)
BeginUpdate(e, field, value) ==
    /\ At(e, "idle") /\ session = "waiting" /\ ~snapshot.frozen
    /\ Become(e, "update", [snapshot EXCEPT !.config[field] = value])
    /\ Overlap(e) /\ UNCHANGED <<session, snapshot, payload, materials>> /\ OnProtocol

UpdateChecksum(e) ==
    /\ At(e, "update")
    /\ LET row == editors[e].row
       IN  Become(e, "update_write",
                  [row EXCEPT !.checksum =
                      Checksum(row.config, definition.content, {"roles"}, materials)])
    /\ UNCHANGED <<session, snapshot, payload, materials, overlapped>> /\ OnProtocol

(* update_protocol_snapshot: row and payload in one transaction, as they were  *)
(* handed in, "frozen" included.                                               *)
WriteSnapshot(row) == snapshot' = row /\ payload' = row

FinishUpdate(e) ==
    /\ At(e, "update_write")
    /\ WriteSnapshot(editors[e].row)
    /\ Done(e) /\ UNCHANGED <<session, materials, overlapped>> /\ OnProtocol

(* Mutant: the role of a material is not checked. *)
BeginAdd_NoRole(e, role, upload) ==
    /\ At(e, "idle") /\ session = "waiting" /\ ~snapshot.frozen
    /\ Become(e, "add", [role |-> "anyone", shows |-> {upload}])
    /\ Overlap(e) /\ UNCHANGED <<session, snapshot, payload, materials>> /\ OnProtocol

(* add_materials and add_uploaded_materials: allowed while waiting in SETUP    *)
(* and not frozen, inserted in a transaction of their own.                     *)
BeginAdd(e, role, upload) ==
    /\ At(e, "idle") /\ session = "waiting" /\ ~snapshot.frozen
    /\ Become(e, "add", [role |-> role, shows |-> {upload}])
    /\ Overlap(e) /\ UNCHANGED <<session, snapshot, payload, materials>> /\ OnProtocol

FinishAdd(e) ==
    /\ At(e, "add")
    /\ materials' = materials \cup {editors[e].row}
    /\ Done(e) /\ UNCHANGED <<session, snapshot, payload, overlapped>> /\ OnProtocol

(* control "start": an unfrozen snapshot is frozen first, with a checksum over *)
(* everything, and only then control_session looks at the status.              *)
BeginStart(e) ==
    /\ At(e, "idle") /\ session # "none"
    /\ IF snapshot.frozen THEN Become(e, "control", NoRow) ELSE Become(e, "freeze", snapshot)
    /\ Overlap(e) /\ UNCHANGED <<session, snapshot, payload, materials>> /\ OnProtocol

(* Mutant: the checksum of the unfrozen snapshot is kept. *)
FreezeChecksum_AsCreated(e) ==
    /\ At(e, "freeze")
    /\ LET row == editors[e].row
       IN  Become(e, "freeze_write",
                  Frozen(row.config, row.checksum))
    /\ UNCHANGED <<session, snapshot, payload, materials, overlapped>> /\ OnProtocol

FreezeChecksum(e) ==
    /\ At(e, "freeze")
    /\ LET row == editors[e].row
       IN  Become(e, "freeze_write",
                  Frozen(row.config, Checksum(row.config, definition.content,
                                              {"roles", "facts"}, materials)))
    /\ UNCHANGED <<session, snapshot, payload, materials, overlapped>> /\ OnProtocol

WriteFrozen(e) ==
    /\ At(e, "freeze_write")
    /\ WriteSnapshot(editors[e].row)
    /\ Become(e, "control", NoRow)
    /\ UNCHANGED <<session, materials, overlapped>> /\ OnProtocol

Control(e) ==
    /\ At(e, "control")
    /\ session' = IF session = "waiting" THEN "running" ELSE session
    /\ Done(e) /\ UNCHANGED <<snapshot, payload, materials, overlapped>> /\ OnProtocol

Terminate ==
    /\ session \in {"waiting", "running"}
    /\ session' = "terminated"
    /\ UNCHANGED <<snapshot, payload, materials, editors, overlapped>> /\ OnProtocol

(* The process dies with a request between two of its transactions. *)
LoseRequest(e) ==
    /\ ~At(e, "idle")
    /\ Done(e) /\ UNCHANGED <<definition, reviewed>> /\ OnTask

ProtocolNext ==
    \/ \E t \in Tasks : CreateDefinition(t)
    \/ \E c \in Configs : CreateSession(c)
    \/ Terminate
    \/ \E e \in Editors :
        \/ \E t \in Tasks : BeginReplace(e, t)
        \/ FinishReplace(e)
        \/ BeginValidate(e)
        \/ FinishValidate(e)
        \/ \E f \in Fields, v \in Values : BeginUpdate(e, f, v)
        \/ UpdateChecksum(e)
        \/ FinishUpdate(e)
        \/ \E r \in StudyRoles, u \in Uploads : BeginAdd(e, r, u)
        \/ FinishAdd(e)
        \/ BeginStart(e)
        \/ FreezeChecksum(e)
        \/ WriteFrozen(e)
        \/ Control(e)
        \/ LoseRequest(e)

ProtocolSpec == ProtocolInit /\ [][ProtocolNext]_protocolVars

-----------------------------------------------------------------------------
\* Type correctness of the rows.
ProtocolTypeOK ==
    /\ definition.status \in {"absent", "draft", "validated"}
    /\ definition.status # "absent" => definition.content \in Tasks
    /\ session \in {"none", "waiting", "running", "terminated"}
    /\ session # "none" => snapshot.config \in Configs /\ snapshot.frozen \in BOOLEAN
    /\ \A m \in materials : m.role \in StudyRoles
    /\ \A e \in Editors : editors[e].at \in {"idle", "replace", "validate"} \/ Busy(e)

\* A validated task never changes again, whatever replacements were on their
\* way when it was validated (the re-check of replace_task_definition under
\* the lock): Sessions and their checksums refer to it by name and version.
ValidatedIsFinal == [][definition.status = "validated" => UNCHANGED definition]_protocolVars

\* What is validated is what a researcher's request had read and checked: a
\* replacement between the read and the write is noticed by the checksum.
ValidatedAsRead == definition.status = "validated" => definition.content \in reviewed

\* Each role's material from the task shows exactly the facts the validated
\* definition lets that role see: nothing of the hidden profile is lost or
\* shown to another role by edits that raced with the creation of the Session.
MaterialsOfTheTask ==
    session # "none" =>
        \A r \in StudyRoles, f \in Facts :
            r \in definition.content[f] <=> \E m \in materials : m.role = r /\ f \in m.shows

\* The checksum of a started Session covers configuration, task, assignments
\* and every material, when no two requests on the protocol overlapped.
WholeWithoutOverlap ==
    session = "running" /\ ~overlapped =>
        /\ snapshot.frozen
        /\ snapshot.checksum = Checksum(snapshot.config, definition.content,
                                        {"roles", "facts"}, materials)

\* The window of the race, exactly: what changes a frozen snapshot is a request
\* that had read it before it was frozen; a request that begins later is refused.
OnlyStaleRequestsThaw ==
    [][snapshot.frozen /\ snapshot' # snapshot =>
        \E e \in Editors : At(e, "freeze_write")
                             \/ (At(e, "update_write") /\ ~editors[e].row.frozen)]_protocolVars

\* Audio completion design, line 99: "The snapshot becomes immutable when the
\* Session starts."  A running Session whose snapshot is not frozen can be
\* patched by any later update of the row.
RunningIsFrozen == session = "running" => snapshot.frozen

\* The protocol a Session is run with fits together: the task is the one that
\* was read and checked, the materials show its facts and the checksum covers
\* them.
ProtocolIsWhole ==
    ProtocolTypeOK /\ ValidatedAsRead /\ MaterialsOfTheTask /\ WholeWithoutOverlap

\* What was fixed stays fixed: a validated task for good, a frozen snapshot but
\* for the requests that had read it before.
FixedStaysFixed == ValidatedIsFinal /\ OnlyStaleRequestsThaw
=============================================================================
