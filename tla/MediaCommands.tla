---------------------------- MODULE MediaCommands ---------------------------
(***************************************************************************)
(* The command ledger of the media service B: CommandService, the command    *)
(* rows of MediaRepository, the POST /internal/commands endpoint and the     *)
(* recovery of pending commands at startup.                                  *)
(*                                                                           *)
(* An endpoint thread accepts a command by select and insert; a background   *)
(* task then waits for the lock of the command's session, claims the row,    *)
(* dispatches the command to the runtime and records the outcome.  A crash   *)
(* loses the handlers, the tasks and the locks, and keeps the rows.          *)
(***************************************************************************)
EXTENDS Naturals

CONSTANTS
    Ids,                \* command ids
    Keys,               \* semantic keys
    Sessions,           \* sessions
    KeyOf,              \* commands.semantic_key of the envelope of an id
    SessionOf,          \* the session a key belongs to
    Workers,            \* slots for background tasks
    MaxPosts,           \* bound: POSTs answered
    MaxFailures,        \* bound: dispatches that raise
    MaxCrashes          \* bound: times the process dies

ASSUME MediaCommandsAssumption ==
    /\ KeyOf \in [Ids -> Keys]
    /\ SessionOf \in [Keys -> Sessions]
    /\ MaxPosts \in Nat /\ MaxFailures \in Nat /\ MaxCrashes \in Nat

VARIABLES
    row,                \* status of the row of each id, "none" without a row
    received_at,        \* when each row was inserted, by the clock
    clock,              \* rows inserted so far
    handlers,           \* POSTs that have looked: [id, found a row]
    tasks,              \* the background tasks
    todo,               \* ids that reconcile_pending has left to execute
    mode,               \* "down", "recovering" or "serving"
    reported,           \* ids with a MEDIA_ERROR in the outbox
    effects,            \* history: dispatches of each id that ran to their end
    posts, failures, crashes    \* history, bounded

vars == <<row, received_at, clock, handlers, tasks, todo, mode, reported, effects,
          posts, failures, crashes>>

rows_order == <<received_at, clock>>
counters == <<posts, failures, crashes>>

Statuses == {"none", "accepted", "processing", "completed", "failed"}
Stages == {"queued", "waiting", "dispatching", "done", "raised", "reporting"}
Idle == [stage |-> "idle"]
Task(id, stage) == [id |-> id, stage |-> stage]
TaskSet == [id : Ids, stage : Stages]

SessionOfId(id) == SessionOf[KeyOf[id]]
Existing(id) == {other \in Ids : row[other] # "none" /\ KeyOf[other] = KeyOf[id]}

Init ==
    /\ row = [id \in Ids |-> "none"]
    /\ received_at = [id \in Ids |-> 0]
    /\ clock = 0
    /\ handlers = {}
    /\ tasks = [w \in Workers |-> Idle]
    /\ todo = {}
    /\ mode = "serving"
    /\ reported = {}
    /\ effects = [id \in Ids |-> 0]
    /\ posts = 0 /\ failures = 0 /\ crashes = 0

-----------------------------------------------------------------------------
(* POST /internal/commands: the select of accept_command.  A command whose   *)
(* id is known has the key of its row, so the key alone finds the row.       *)
PostLook(id) ==
    /\ mode = "serving"
    /\ posts < MaxPosts
    /\ posts' = posts + 1
    /\ handlers' = handlers \cup {[id |-> id, found |-> Existing(id) # {}]}
    /\ UNCHANGED <<row, rows_order, tasks, todo, mode, reported, effects, failures, crashes>>

Queue(w, id) ==
    /\ tasks[w] = Idle
    /\ tasks' = [tasks EXCEPT ![w] = Task(id, "queued")]

Insert(h, w) ==
    /\ row' = [row EXCEPT ![h.id] = "accepted"]
    /\ clock' = clock + 1
    /\ received_at' = [received_at EXCEPT ![h.id] = clock']
    /\ Queue(w, h.id)

(* The duplicate answer, which schedules a row it finds failed.              *)
Duplicate(existing, w) ==
    /\ IF row[existing] = "failed" THEN Queue(w, existing) ELSE UNCHANGED tasks
    /\ UNCHANGED <<row, rows_order>>

(* An insert that trusts the select, as without the unique constraint.       *)
PostAnswer_TrustsSelect(h, w) ==
    /\ handlers' = handlers \ {h}
    /\ \/ ~h.found /\ row[h.id] = "none" /\ Insert(h, w)
       \/ h.found /\ \E existing \in Existing(h.id) : Duplicate(existing, w)
    /\ UNCHANGED <<todo, mode, reported, effects, counters>>

(* The insert, whose IntegrityError on the unique key becomes a duplicate,   *)
(* and the background task of a new or failed command.                       *)
PostAnswer(h, w) ==
    /\ handlers' = handlers \ {h}
    /\ \/ ~h.found /\ Existing(h.id) = {} /\ Insert(h, w)
       \/ \E existing \in Existing(h.id) : Duplicate(existing, w)
    /\ UNCHANGED <<todo, mode, reported, effects, counters>>

-----------------------------------------------------------------------------
(* CommandService.execute: the first read, before the lock.                  *)
Begin(w) ==
    /\ tasks[w].stage = "queued"
    /\ tasks' = [tasks EXCEPT ![w] =
                    IF row[@.id] = "completed" THEN Idle ELSE Task(@.id, "waiting")]
    /\ UNCHANGED <<row, rows_order, handlers, todo, mode, reported, effects, counters>>

Holds(w, session) ==
    /\ tasks[w].stage \in {"dispatching", "done", "raised"}
    /\ SessionOfId(tasks[w].id) = session

lock_free_PerCommand(session) == TRUE
lock_free(session) == \A w \in Workers : ~Holds(w, session)

claimable_Always(id) == TRUE
claimable(id) == row[id] \in {"accepted", "failed"}

(* Under the session lock: read again and claim.  There is no await between  *)
(* them.                                                                     *)
Acquire(w) ==
    LET id == tasks[w].id
    IN  /\ tasks[w].stage = "waiting"
        /\ lock_free(SessionOfId(id))
        /\ IF claimable(id)
           THEN /\ row' = [row EXCEPT ![id] = "processing"]
                /\ tasks' = [tasks EXCEPT ![w] = Task(id, "dispatching")]
           ELSE /\ tasks' = [tasks EXCEPT ![w] = Idle]
                /\ UNCHANGED row
        /\ UNCHANGED <<rows_order, handlers, todo, mode, reported, effects, counters>>

(* dispatch returns, or raises.                                              *)
DispatchReturns(w) ==
    LET id == tasks[w].id
    IN  /\ tasks[w].stage = "dispatching"
        /\ tasks' = [tasks EXCEPT ![w] = Task(id, "done")]
        /\ effects' = [effects EXCEPT ![id] = @ + 1]
        /\ UNCHANGED <<row, rows_order, handlers, todo, mode, reported, counters>>

DispatchRaises(w) ==
    /\ tasks[w].stage = "dispatching"
    /\ failures < MaxFailures
    /\ failures' = failures + 1
    /\ tasks' = [tasks EXCEPT ![w] = Task(@.id, "raised")]
    /\ UNCHANGED <<row, rows_order, handlers, todo, mode, reported, effects, posts, crashes>>

(* A claim that records the outcome before it dispatches.                    *)
Mark_BeforeDispatch(w) ==
    /\ tasks[w].stage \in {"dispatching", "done", "raised"}
    /\ row' = [row EXCEPT ![tasks[w].id] = "completed"]
    /\ tasks' = [tasks EXCEPT ![w] = Idle]
    /\ UNCHANGED <<rows_order, handlers, todo, mode, reported, effects, counters>>

(* mark_command_status, and the release of the lock.  The background task    *)
(* goes on to report a failure; reconcile_pending swallows it.               *)
Mark(w) ==
    LET id == tasks[w].id
        failed == tasks[w].stage = "raised"
    IN  /\ tasks[w].stage \in {"done", "raised"}
        /\ row' = [row EXCEPT ![id] = IF failed THEN "failed" ELSE "completed"]
        /\ tasks' = [tasks EXCEPT ![w] =
                        IF failed /\ mode = "serving" THEN Task(id, "reporting") ELSE Idle]
        /\ UNCHANGED <<rows_order, handlers, todo, mode, reported, effects, counters>>

(* dispatch_with_error_event.                                                *)
Report_Dropped(w) ==
    /\ tasks[w].stage = "reporting"
    /\ tasks' = [tasks EXCEPT ![w] = Idle]
    /\ UNCHANGED <<row, rows_order, handlers, todo, mode, reported, effects, counters>>

Report(w) ==
    /\ tasks[w].stage = "reporting"
    /\ reported' = reported \cup {tasks[w].id}
    /\ tasks' = [tasks EXCEPT ![w] = Idle]
    /\ UNCHANGED <<row, rows_order, handlers, todo, mode, effects, counters>>

-----------------------------------------------------------------------------
Crash ==
    /\ mode # "down"
    /\ crashes < MaxCrashes
    /\ crashes' = crashes + 1
    /\ mode' = "down"
    /\ handlers' = {}
    /\ tasks' = [w \in Workers |-> Idle]
    /\ todo' = {}
    /\ UNCHANGED <<row, rows_order, reported, effects, posts, failures>>

requeued == [id \in Ids |-> IF row[id] = "processing" THEN "accepted" ELSE row[id]]

(* reconcile_pending without requeue_interrupted_commands.                   *)
Restart_KeepsProcessing ==
    /\ mode = "down"
    /\ mode' = "recovering"
    /\ todo' = {id \in Ids : row[id] \in {"accepted", "failed"}}
    /\ UNCHANGED <<row, rows_order, handlers, tasks, reported, effects, counters>>

(* The lifespan of the application, before it serves: requeue, then list.    *)
Restart ==
    /\ mode = "down"
    /\ mode' = "recovering"
    /\ row' = requeued
    /\ todo' = {id \in Ids : requeued[id] \in {"accepted", "failed"}}
    /\ UNCHANGED <<rows_order, handlers, tasks, reported, effects, counters>>

(* reconcile_pending executes the pending commands one by one, the oldest    *)
(* row first.                                                                *)
Recover(w) ==
    /\ mode = "recovering"
    /\ \A v \in Workers : tasks[v] = Idle
    /\ \E id \in todo :
          /\ \A other \in todo : received_at[id] \leq received_at[other]
          /\ Queue(w, id)
          /\ todo' = todo \ {id}
    /\ UNCHANGED <<row, rows_order, handlers, mode, reported, effects, counters>>

Serve ==
    /\ mode = "recovering"
    /\ todo = {}
    /\ \A v \in Workers : tasks[v] = Idle
    /\ mode' = "serving"
    /\ UNCHANGED <<row, rows_order, handlers, tasks, todo, reported, effects, counters>>

-----------------------------------------------------------------------------
Execute(w) ==
    \/ Begin(w)
    \/ Acquire(w)
    \/ DispatchReturns(w)
    \/ DispatchRaises(w)
    \/ Mark(w)
    \/ Report(w)

Next ==
    \/ \E id \in Ids : PostLook(id)
    \/ \E h \in handlers, w \in Workers : PostAnswer(h, w)
    \/ \E w \in Workers : Execute(w) \/ Recover(w)
    \/ Serve
    \/ Restart
    \/ Crash

Spec == Init /\ [][Next]_vars

(* The event loop runs every task that can run, a dispatch ends, and the     *)
(* supervisor restarts the process.  asyncio.Lock is first come, first       *)
(* served, which strong fairness of Acquire abstracts.                       *)
Fairness ==
    /\ \A w \in Workers :
          /\ WF_vars(Begin(w))
          /\ SF_vars(Acquire(w))
          /\ WF_vars(DispatchReturns(w) \/ DispatchRaises(w))
          /\ WF_vars(Mark(w))
          /\ WF_vars(Report(w))
          /\ WF_vars(Recover(w))
    /\ WF_vars(Serve)
    /\ WF_vars(Restart)

FairSpec == Spec /\ Fairness
-----------------------------------------------------------------------------
(* Type invariant of the rows, the handlers and the tasks.                   *)
TypeOK ==
    /\ row \in [Ids -> Statuses]
    /\ received_at \in [Ids -> Nat] /\ clock \in Nat
    /\ handlers \in SUBSET [id : Ids, found : BOOLEAN]
    /\ tasks \in [Workers -> {Idle} \cup TaskSet]
    /\ todo \in SUBSET Ids
    /\ mode \in {"down", "recovering", "serving"}
    /\ reported \in SUBSET Ids
    /\ effects \in [Ids -> Nat]
    /\ posts \in Nat /\ failures \in Nat /\ crashes \in Nat

(* Commands with the same semantic key, posted at the same time under        *)
(* different ids, become one row.                                            *)
OneRowPerKey ==
    \A i, j \in Ids :
        row[i] # "none" /\ row[j] # "none" /\ KeyOf[i] = KeyOf[j] => i = j

(* The runtime of a session never carries out two commands at once.          *)
OneDispatchPerSession ==
    \A v, w \in Workers :
        /\ tasks[v].stage \in {"dispatching", "done", "raised"}
        /\ Holds(w, SessionOfId(tasks[v].id))
        => v = w

(* A row is processing exactly while one task dispatches it, or until the    *)
(* restart that follows a crash.                                             *)
ProcessingIsOwned ==
    mode # "down" =>
        \A id \in Ids : row[id] = "processing" <=>
            \E w \in Workers : /\ tasks[w].stage \in {"dispatching", "done", "raised"}
                               /\ tasks[w].id = id

(* A repetition, a retry or a second task never starts or stops anything     *)
(* twice: only a crash between the end of a dispatch and its mark does.      *)
RepeatedOnlyByCrash == \A id \in Ids : effects[id] \leq 1 + crashes

(* A failure of the background task reaches A, unless B died meanwhile.      *)
FailureIsReported ==
    crashes = 0 => \A id \in Ids : row[id] = "failed" =>
        id \in reported \/ \E w \in Workers : tasks[w] = Task(id, "reporting")

(* An accepted command is carried out or fails, whatever crashes between.    *)
CommandSettles ==
    \A id \in Ids : row[id] \in {"accepted", "processing"}
                       ~> row[id] \in {"completed", "failed"}

(* The rows of one key together implement the ledger A was promised.         *)
RowsOf(key) == {id \in Ids : KeyOf[id] = key /\ row[id] # "none"}

ledger_status == [key \in Keys |->
    IF \E id \in RowsOf(key) : row[id] = "completed" THEN "completed"
    ELSE IF RowsOf(key) # {} THEN "accepted" ELSE "new"]

ledger_performed == [key \in Keys |-> \E id \in RowsOf(key) : effects[id] > 0]

Ledger == INSTANCE CommandLedger WITH status <- ledger_status, performed <- ledger_performed

ImplementsLedger == Ledger!Spec

(* The rows of B serve one command at a time: one row for a semantic key, one *)
(* dispatch for a session, and no row processing that nobody works on.       *)
OneAtATime == TypeOK /\ OneRowPerKey /\ OneDispatchPerSession /\ ProcessingIsOwned

(* What B did and what it told A agree: nothing is carried out again but by  *)
(* a crash, and no failure is kept from A but by a crash.                    *)
OutcomesAreTold == RepeatedOnlyByCrash /\ FailureIsReported
=============================================================================
