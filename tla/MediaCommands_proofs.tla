------------------------ MODULE MediaCommands_proofs ------------------------
(***************************************************************************)
(* Proofs about MediaCommands, for any sets of ids, keys, sessions and       *)
(* workers and any number of POSTs, failures and crashes.                    *)
(***************************************************************************)
EXTENDS MediaCommands, TLAPS

Owning == {"dispatching", "done", "raised"}

(* The parts of the inductive invariant.  A task always has a row, and an    *)
(* owning task has a processing row; a dead process has no tasks.            *)
TasksHaveRows == \A w \in Workers : tasks[w] # Idle => row[tasks[w].id] # "none"

OwnedIsProcessing == \A w \in Workers :
    tasks[w].stage \in Owning => row[tasks[w].id] = "processing"

ProcessingHasOwner ==
    mode # "down" => \A id \in Ids : row[id] = "processing" =>
        \E w \in Workers : tasks[w].stage \in Owning /\ tasks[w].id = id

DownIsEmpty ==
    /\ mode = "down" => \A w \in Workers : tasks[w] = Idle
    /\ mode # "serving" => handlers = {}
    /\ crashes = 0 => mode = "serving"

RecoveryHasRows == \A id \in todo : row[id] # "none"

(* A row is one dispatch ahead of the crashes only once it is dispatched.    *)
EffectsBound == \A id \in Ids :
    effects[id] \leq crashes \/
        /\ effects[id] \leq crashes + 1
        /\ row[id] = "completed" \/ \E w \in Workers : tasks[w] = Task(id, "done")

EffectsHappened == \A id \in Ids :
    /\ row[id] = "completed" => effects[id] > 0
    /\ (\E w \in Workers : tasks[w] = Task(id, "done")) => effects[id] > 0
    /\ effects[id] > 0 => row[id] # "none"

IInv ==
    /\ TypeOK
    /\ OneRowPerKey
    /\ OneDispatchPerSession
    /\ TasksHaveRows
    /\ OwnedIsProcessing
    /\ ProcessingHasOwner
    /\ DownIsEmpty
    /\ RecoveryHasRows
    /\ EffectsBound
    /\ EffectsHappened
    /\ FailureIsReported

-----------------------------------------------------------------------------
(* What the proofs use of tasks: a task is its id and its stage, and an idle *)
(* slot is not a task.                                                       *)
LEMMA TaskFacts ==
    /\ Idle.stage = "idle"
    /\ \A id \in Ids, stage \in Stages :
          /\ Task(id, stage) \in TaskSet
          /\ Task(id, stage).id = id
          /\ Task(id, stage).stage = stage
          /\ Task(id, stage) # Idle
    /\ \A t \in TaskSet :
          /\ t.id \in Ids
          /\ t.stage \in Stages
          /\ t # Idle
          /\ t = Task(t.id, t.stage)
<1>1. Idle.stage = "idle" /\ "idle" \notin Stages
  BY DEF Idle, Stages
<1>2. ASSUME NEW id \in Ids, NEW stage \in Stages
      PROVE  /\ Task(id, stage) \in TaskSet
             /\ Task(id, stage).id = id
             /\ Task(id, stage).stage = stage
             /\ Task(id, stage) # Idle
  BY <1>1, <1>2 DEF Task, TaskSet
<1>3. ASSUME NEW t \in TaskSet
      PROVE t.id \in Ids /\ t.stage \in Stages /\ t # Idle /\ t = Task(t.id, t.stage)
  BY <1>1, <1>3 DEF Task, TaskSet
<1>4. QED
  BY <1>1, <1>2, <1>3

(* A slot in a stage other than idle holds a task.                           *)
LEMMA BusyHasTask ==
    ASSUME TypeOK, NEW w \in Workers, tasks[w].stage \in Stages
    PROVE  tasks[w] \in TaskSet /\ tasks[w].id \in Ids /\ tasks[w] # Idle
<1>1. tasks[w] \in {Idle} \cup TaskSet
  BY DEF TypeOK
<1>2. tasks[w] # Idle
  BY TaskFacts DEF Stages
<1>3. QED
  BY <1>1, <1>2, TaskFacts

LEMMA InitInvariant == Init => IInv
<1> SUFFICES ASSUME Init PROVE IInv
  OBVIOUS
<1>1. TypeOK
  BY DEF Init, TypeOK, Statuses
<1>2. OneRowPerKey /\ OneDispatchPerSession /\ TasksHaveRows /\ OwnedIsProcessing
  BY TaskFacts DEF Init, OneRowPerKey, OneDispatchPerSession, TasksHaveRows,
         OwnedIsProcessing, Owning
<1>3. ProcessingHasOwner /\ DownIsEmpty /\ RecoveryHasRows
  BY DEF Init, ProcessingHasOwner, DownIsEmpty, RecoveryHasRows
<1>4. EffectsBound /\ EffectsHappened /\ FailureIsReported
  BY TaskFacts DEF Init, EffectsBound, EffectsHappened, FailureIsReported, Stages
<1>5. QED
  BY <1>1, <1>2, <1>3, <1>4 DEF IInv

-----------------------------------------------------------------------------
LEMMA TypeStep == TypeOK /\ [Next]_vars => TypeOK'
<1> SUFFICES ASSUME TypeOK, [Next]_vars PROVE TypeOK'
  OBVIOUS
<1> USE DEF counters, rows_order
<1>1. ASSUME NEW id \in Ids, PostLook(id) PROVE TypeOK'
  <2>1. [id |-> id, found |-> Existing(id) # {}] \in [id : Ids, found : BOOLEAN]
    OBVIOUS
  <2>2. handlers' \in SUBSET [id : Ids, found : BOOLEAN]
    BY <1>1, <2>1 DEF PostLook, TypeOK
  <2>3. QED
    BY <1>1, <2>2 DEF PostLook, TypeOK
<1>2. ASSUME NEW h \in handlers, NEW w \in Workers, PostAnswer(h, w) PROVE TypeOK'
  <2>1. h.id \in Ids /\ handlers' \in SUBSET [id : Ids, found : BOOLEAN]
    BY <1>2 DEF TypeOK, PostAnswer
  <2>2. CASE Insert(h, w)
    <3>1. Task(h.id, "queued") \in TaskSet
      BY <2>1, TaskFacts DEF Stages
    <3>2. QED
      BY <1>2, <2>1, <2>2, <3>1 DEF PostAnswer, Insert, Queue, Statuses, TypeOK
  <2>3. ASSUME NEW existing \in Existing(h.id), Duplicate(existing, w) PROVE TypeOK'
    <3>1. Task(existing, "queued") \in TaskSet
      BY TaskFacts DEF Stages, Existing
    <3>2. tasks' \in [Workers -> {Idle} \cup TaskSet]
      BY <2>3, <3>1 DEF Duplicate, Queue, TypeOK
    <3>3. QED
      BY <1>2, <2>1, <2>3, <3>2 DEF PostAnswer, Duplicate, TypeOK
  <2>4. QED
    BY <1>2, <2>2, <2>3 DEF PostAnswer
<1>3. ASSUME NEW w \in Workers, Begin(w) PROVE TypeOK'
  <2>1. tasks[w].id \in Ids
    BY <1>3, BusyHasTask DEF Begin, Stages
  <2>2. Task(tasks[w].id, "waiting") \in TaskSet
    BY <2>1, TaskFacts DEF Stages
  <2>3. tasks' \in [Workers -> {Idle} \cup TaskSet]
    BY <1>3, <2>2 DEF Begin, TypeOK
  <2>4. QED
    BY <1>3, <2>3 DEF Begin, TypeOK
<1>4. ASSUME NEW w \in Workers, Acquire(w) PROVE TypeOK'
  <2>1. tasks[w].id \in Ids
    BY <1>4, BusyHasTask DEF Acquire, Stages
  <2>2. Task(tasks[w].id, "dispatching") \in TaskSet
    BY <2>1, TaskFacts DEF Stages
  <2>3. CASE claimable(tasks[w].id)
    BY <1>4, <2>1, <2>2, <2>3 DEF Acquire, TypeOK, Statuses
  <2>4. CASE ~claimable(tasks[w].id)
    BY <1>4, <2>4 DEF Acquire, TypeOK
  <2>5. QED
    BY <2>3, <2>4
<1>5. ASSUME NEW w \in Workers, DispatchReturns(w) PROVE TypeOK'
  <2>1. tasks[w].id \in Ids
    BY <1>5, BusyHasTask DEF DispatchReturns, Stages
  <2>2. Task(tasks[w].id, "done") \in TaskSet
    BY <2>1, TaskFacts DEF Stages
  <2>3. QED
    BY <1>5, <2>1, <2>2 DEF DispatchReturns, TypeOK
<1>6. ASSUME NEW w \in Workers, DispatchRaises(w) PROVE TypeOK'
  <2>1. tasks[w].id \in Ids
    BY <1>6, BusyHasTask DEF DispatchRaises, Stages
  <2>2. Task(tasks[w].id, "raised") \in TaskSet
    BY <2>1, TaskFacts DEF Stages
  <2>3. QED
    BY <1>6, <2>2 DEF DispatchRaises, TypeOK
<1>7. ASSUME NEW w \in Workers, Mark(w) PROVE TypeOK'
  <2>1. tasks[w].id \in Ids
    BY <1>7, BusyHasTask DEF Mark, Stages
  <2>2. Task(tasks[w].id, "reporting") \in TaskSet
    BY <2>1, TaskFacts DEF Stages
  <2>3. row' \in [Ids -> Statuses] /\ tasks' \in [Workers -> {Idle} \cup TaskSet]
    BY <1>7, <2>1, <2>2 DEF Mark, TypeOK, Statuses
  <2>4. QED
    BY <1>7, <2>3 DEF Mark, TypeOK
<1>8. ASSUME NEW w \in Workers, Report(w) PROVE TypeOK'
  <2>1. tasks[w].id \in Ids
    BY <1>8, BusyHasTask DEF Report, Stages
  <2>2. QED
    BY <1>8, <2>1 DEF Report, TypeOK
<1>9. ASSUME NEW w \in Workers, Recover(w) PROVE TypeOK'
  <2>1. PICK id \in todo : Queue(w, id) /\ todo' = todo \ {id}
    BY <1>9 DEF Recover
  <2>2. Task(id, "queued") \in TaskSet
    BY TaskFacts DEF Stages, TypeOK
  <2>3. QED
    BY <1>9, <2>1, <2>2 DEF Recover, Queue, TypeOK
<1>10. ASSUME Restart PROVE TypeOK'
  <2>1. requeued \in [Ids -> Statuses]
    BY DEF requeued, Statuses, TypeOK
  <2>2. QED
    BY <1>10, <2>1 DEF Restart, TypeOK
<1>11. ASSUME Serve \/ Crash \/ UNCHANGED vars PROVE TypeOK'
  BY <1>11 DEF Serve, Crash, vars, TypeOK
<1>12. QED
  BY <1>1, <1>2, <1>3, <1>4, <1>5, <1>6, <1>7, <1>8, <1>9, <1>10, <1>11 DEF Next, Execute

-----------------------------------------------------------------------------
(* Every action preserves every part of the invariant.                       *)
LEMMA PostAnswerStep ==
    ASSUME IInv, TypeOK', NEW h \in handlers, NEW w \in Workers, PostAnswer(h, w)
    PROVE  IInv'
<1>1. DownIsEmpty'
  BY DEF IInv, PostAnswer, Insert, Duplicate, Queue, Existing, DownIsEmpty
<1>2. OneRowPerKey'
  BY DEF IInv, PostAnswer, Insert, Duplicate, Queue, Existing, TypeOK,
     OneRowPerKey
<1>3. OneDispatchPerSession'
  BY SMTT(30), TaskFacts DEF IInv, PostAnswer, Insert, Duplicate, Queue, Existing,
     TypeOK, OneDispatchPerSession, Stages, Holds
<1>4. TasksHaveRows'
  <2> SUFFICES ASSUME NEW v \in Workers, tasks'[v] # Idle PROVE row'[tasks'[v].id] # "none"
    BY DEF TasksHaveRows
  <2>1. tasks[v] # Idle => tasks[v].id \in Ids /\ row[tasks[v].id] # "none"
    BY TaskFacts DEF IInv, TypeOK, TasksHaveRows
  <2>2. CASE Insert(h, w)
    BY <2>1, <2>2, TaskFacts DEF Insert, Queue, IInv, TypeOK, Statuses, Stages
  <2>3. CASE \E existing \in Existing(h.id) : Duplicate(existing, w)
    BY <2>1, <2>3, TaskFacts DEF Duplicate, Queue, Existing, IInv, TypeOK, Stages
  <2>4. QED
    BY <2>2, <2>3 DEF PostAnswer
<1>5. OwnedIsProcessing'
  BY SMTT(30), TaskFacts DEF IInv, PostAnswer, Insert, Duplicate, Queue, Existing,
     TypeOK, OwnedIsProcessing, Owning, Stages
<1>6. ProcessingHasOwner'
  BY TaskFacts DEF IInv, PostAnswer, Insert, Duplicate, Queue, Existing,
     TypeOK, ProcessingHasOwner, Owning, Stages
<1>7. RecoveryHasRows'
  BY DEF IInv, PostAnswer, Insert, Duplicate, Queue, Existing, TypeOK,
     RecoveryHasRows
<1>8. EffectsBound'
  BY TaskFacts DEF IInv, PostAnswer, Insert, Duplicate, Queue, Existing,
     counters, TypeOK, EffectsBound, Stages
<1>9. EffectsHappened'
  BY TaskFacts DEF IInv, PostAnswer, Insert, Duplicate, Queue, Existing,
     TypeOK, EffectsHappened, Stages
<1>10. FailureIsReported'
  BY TaskFacts DEF IInv, PostAnswer, Insert, Duplicate, Queue, Existing,
     counters, TypeOK, FailureIsReported, Stages
<1>11. QED
  BY <1>1, <1>2, <1>3, <1>4, <1>5, <1>6, <1>7, <1>8, <1>9, <1>10 DEF IInv

LEMMA BeginStep ==
    ASSUME IInv, TypeOK', NEW w \in Workers, Begin(w)
    PROVE  IInv'
<1>1. OneRowPerKey' /\ RecoveryHasRows'
  BY DEF IInv, Begin, OneRowPerKey, RecoveryHasRows
<1>2. OneDispatchPerSession'
  BY TaskFacts DEF IInv, Begin, TypeOK, OneDispatchPerSession, Stages, Holds
<1>3. TasksHaveRows'
  BY TaskFacts DEF IInv, Begin, TypeOK, TasksHaveRows, Stages
<1>4. OwnedIsProcessing'
  BY TaskFacts DEF IInv, Begin, TypeOK, OwnedIsProcessing, Owning, Stages
<1>5. ProcessingHasOwner'
  BY DEF IInv, Begin, ProcessingHasOwner, Owning
<1>6. DownIsEmpty'
  BY TaskFacts DEF IInv, Begin, counters, DownIsEmpty
<1>7. EffectsBound'
  BY TaskFacts DEF IInv, Begin, counters, EffectsBound, Stages
<1>8. EffectsHappened'
  BY TaskFacts DEF IInv, Begin, TypeOK, EffectsHappened, Stages
<1>9. FailureIsReported'
  BY TaskFacts DEF IInv, Begin, counters, FailureIsReported, Stages
<1>10. QED
  BY <1>1, <1>2, <1>3, <1>4, <1>5, <1>6, <1>7, <1>8, <1>9 DEF IInv

LEMMA AcquireStep ==
    ASSUME IInv, TypeOK', NEW w \in Workers, Acquire(w)
    PROVE  IInv'
<1>1. OneRowPerKey'
  BY DEF IInv, Acquire, claimable, TypeOK, OneRowPerKey
<1>2. OneDispatchPerSession'
  BY TaskFacts DEF IInv, Acquire, claimable, TypeOK, OneDispatchPerSession,
     Stages, Holds, lock_free
<1>3. TasksHaveRows'
  BY SMTT(30), TaskFacts DEF IInv, Acquire, claimable, TypeOK, TasksHaveRows, Stages
<1>4. OwnedIsProcessing'
  BY TaskFacts DEF IInv, Acquire, claimable, TypeOK, OwnedIsProcessing,
     Owning, Stages
<1>5. ProcessingHasOwner'
  <2> SUFFICES ASSUME mode # "down", NEW id \in Ids, row'[id] = "processing"
               PROVE  \E v \in Workers : tasks'[v].stage \in Owning /\ tasks'[v].id = id
    BY DEF ProcessingHasOwner, Acquire
  <2>1. tasks[w].id \in Ids /\ tasks[w].stage \notin Owning
    BY BusyHasTask DEF IInv, Acquire, Stages, Owning
  <2>2. CASE claimable(tasks[w].id) /\ id = tasks[w].id
    <3>1. tasks'[w] = Task(id, "dispatching")
      BY <2>2 DEF Acquire, IInv, TypeOK
    <3>2. QED
      BY <3>1, TaskFacts DEF Owning, Stages
  <2>3. CASE ~(claimable(tasks[w].id) /\ id = tasks[w].id)
    <3>1. row[id] = "processing"
      BY <2>1, <2>3 DEF Acquire, IInv, TypeOK
    <3>2. PICK v \in Workers : tasks[v].stage \in Owning /\ tasks[v].id = id
      BY <3>1 DEF IInv, ProcessingHasOwner
    <3>3. tasks'[v] = tasks[v]
      BY <2>1, <3>2 DEF Acquire, IInv, TypeOK
    <3>4. QED
      BY <3>2, <3>3
  <2>4. QED
    BY <2>2, <2>3
<1>6. DownIsEmpty'
  BY TaskFacts DEF IInv, Acquire, claimable, counters, DownIsEmpty
<1>7. RecoveryHasRows'
  BY DEF IInv, Acquire, claimable, TypeOK, RecoveryHasRows
<1>8. EffectsBound'
  BY TaskFacts DEF IInv, Acquire, claimable, counters, TypeOK, EffectsBound,
     Stages
<1>9. EffectsHappened'
  BY TaskFacts DEF IInv, Acquire, claimable, TypeOK, EffectsHappened, Stages
<1>10. FailureIsReported'
  BY TaskFacts DEF IInv, Acquire, claimable, counters, TypeOK,
     FailureIsReported, Stages
<1>11. QED
  BY <1>1, <1>2, <1>3, <1>4, <1>5, <1>6, <1>7, <1>8, <1>9, <1>10 DEF IInv

LEMMA ReturnsStep ==
    ASSUME IInv, TypeOK', NEW w \in Workers, DispatchReturns(w)
    PROVE  IInv'
<1>1. OneRowPerKey' /\ RecoveryHasRows'
  BY DEF IInv, DispatchReturns, OneRowPerKey, RecoveryHasRows
<1>2. OneDispatchPerSession'
  BY TaskFacts DEF IInv, DispatchReturns, TypeOK, OneDispatchPerSession,
     Stages, Holds
<1>3. TasksHaveRows'
  BY TaskFacts DEF IInv, DispatchReturns, TypeOK, TasksHaveRows, Stages
<1>4. OwnedIsProcessing'
  BY TaskFacts DEF IInv, DispatchReturns, TypeOK, OwnedIsProcessing, Owning,
     Stages
<1>5. ProcessingHasOwner'
  BY TaskFacts DEF IInv, DispatchReturns, ProcessingHasOwner, Owning, Stages
<1>6. DownIsEmpty'
  BY TaskFacts DEF IInv, DispatchReturns, counters, DownIsEmpty
<1>7. EffectsBound'
  BY TaskFacts DEF IInv, DispatchReturns, counters, rows_order, TypeOK,
     EffectsBound, OwnedIsProcessing, Owning, Stages, OneDispatchPerSession,
     Holds
<1>8. EffectsHappened'
  BY TaskFacts DEF IInv, DispatchReturns, TypeOK, EffectsHappened,
     TasksHaveRows, Stages
<1>9. FailureIsReported'
  BY TaskFacts DEF IInv, DispatchReturns, counters, FailureIsReported, Stages
<1>10. QED
  BY <1>1, <1>2, <1>3, <1>4, <1>5, <1>6, <1>7, <1>8, <1>9 DEF IInv

LEMMA RaisesStep ==
    ASSUME IInv, TypeOK', NEW w \in Workers, DispatchRaises(w)
    PROVE  IInv'
<1>1. OneRowPerKey' /\ RecoveryHasRows'
  BY DEF IInv, DispatchRaises, OneRowPerKey, RecoveryHasRows
<1>2. OneDispatchPerSession'
  BY TaskFacts DEF IInv, DispatchRaises, TypeOK, OneDispatchPerSession,
     Stages, Holds
<1>3. TasksHaveRows'
  BY TaskFacts DEF IInv, DispatchRaises, TypeOK, TasksHaveRows, Stages
<1>4. OwnedIsProcessing'
  BY TaskFacts DEF IInv, DispatchRaises, TypeOK, OwnedIsProcessing, Owning,
     Stages
<1>5. ProcessingHasOwner'
  BY TaskFacts DEF IInv, DispatchRaises, ProcessingHasOwner, Owning, Stages
<1>6. DownIsEmpty'
  BY TaskFacts DEF IInv, DispatchRaises, DownIsEmpty
<1>7. EffectsBound'
  BY TaskFacts DEF IInv, DispatchRaises, EffectsBound, Stages
<1>8. EffectsHappened'
  BY TaskFacts DEF IInv, DispatchRaises, TypeOK, EffectsHappened, Stages
<1>9. FailureIsReported'
  BY TaskFacts DEF IInv, DispatchRaises, FailureIsReported, Stages
<1>10. QED
  BY <1>1, <1>2, <1>3, <1>4, <1>5, <1>6, <1>7, <1>8, <1>9 DEF IInv

LEMMA MarkStep ==
    ASSUME IInv, TypeOK', NEW w \in Workers, Mark(w)
    PROVE  IInv'
<1>1. DownIsEmpty' /\ RecoveryHasRows'
  BY DEF IInv, Mark, counters, DownIsEmpty, RecoveryHasRows
<1>2. OneRowPerKey'
  BY TaskFacts DEF IInv, Mark, OneRowPerKey, TasksHaveRows
<1>3. OneDispatchPerSession'
  BY TaskFacts DEF IInv, Mark, TypeOK, OneDispatchPerSession, Stages, Holds
<1>4. TasksHaveRows'
  BY TaskFacts DEF IInv, Mark, TypeOK, TasksHaveRows, Stages
<1>5. OwnedIsProcessing'
  BY TaskFacts DEF IInv, Mark, TypeOK, OwnedIsProcessing, Owning, Stages,
     OneDispatchPerSession, Holds
<1>6. ProcessingHasOwner'
  BY DEF IInv, Mark, TypeOK, ProcessingHasOwner
<1>7. EffectsBound'
  BY TaskFacts DEF IInv, Mark, counters, TypeOK, EffectsBound,
     OwnedIsProcessing, Owning, Stages
<1>8. EffectsHappened'
  BY TaskFacts DEF IInv, Mark, TypeOK, EffectsHappened, Stages
<1>9. FailureIsReported'
  BY TaskFacts DEF IInv, Mark, counters, rows_order, TypeOK,
     FailureIsReported, Stages, DownIsEmpty
<1>10. QED
  BY <1>1, <1>2, <1>3, <1>4, <1>5, <1>6, <1>7, <1>8, <1>9 DEF IInv

LEMMA ReportStep ==
    ASSUME IInv, TypeOK', NEW w \in Workers, Report(w)
    PROVE  IInv'
<1>1. OneRowPerKey' /\ TasksHaveRows' /\ DownIsEmpty'
  BY DEF IInv, Report, OneRowPerKey, TasksHaveRows, counters, DownIsEmpty
<1>2. RecoveryHasRows'
  BY DEF IInv, Report, RecoveryHasRows
<1>3. OneDispatchPerSession'
  BY TaskFacts DEF IInv, Report, OneDispatchPerSession, Holds
<1>4. OwnedIsProcessing'
  BY TaskFacts DEF IInv, Report, OwnedIsProcessing, Owning
<1>5. ProcessingHasOwner'
  BY DEF IInv, Report, ProcessingHasOwner, Owning
<1>6. EffectsBound'
  BY TaskFacts DEF IInv, Report, counters, EffectsBound, Stages
<1>7. EffectsHappened'
  BY TaskFacts DEF IInv, Report, EffectsHappened, Stages
<1>8. FailureIsReported'
  BY TaskFacts DEF IInv, Report, counters, TypeOK, FailureIsReported
<1>9. QED
  BY <1>1, <1>2, <1>3, <1>4, <1>5, <1>6, <1>7, <1>8 DEF IInv

LEMMA RecoverStep ==
    ASSUME IInv, TypeOK', NEW w \in Workers, Recover(w)
    PROVE  IInv'
<1>1. OneRowPerKey' /\ DownIsEmpty' /\ RecoveryHasRows'
  BY DEF IInv, Recover, Queue, OneRowPerKey, counters, DownIsEmpty,
     RecoveryHasRows
<1>2. OneDispatchPerSession'
  BY TaskFacts DEF IInv, Recover, Queue, TypeOK, OneDispatchPerSession, Stages
<1>3. TasksHaveRows'
  BY TaskFacts DEF IInv, Recover, Queue, TypeOK, TasksHaveRows, Stages,
     RecoveryHasRows
<1>4. OwnedIsProcessing'
  BY TaskFacts DEF IInv, Recover, Queue, TypeOK, OwnedIsProcessing, Owning,
     Stages
<1>5. ProcessingHasOwner'
  BY TaskFacts DEF IInv, Recover, Queue, ProcessingHasOwner, Owning
<1>6. EffectsBound'
  BY TaskFacts DEF IInv, Recover, Queue, counters, EffectsBound, Stages
<1>7. EffectsHappened'
  BY TaskFacts DEF IInv, Recover, Queue, TypeOK, EffectsHappened, Stages
<1>8. FailureIsReported'
  BY TaskFacts DEF IInv, Recover, Queue, counters, FailureIsReported, Stages
<1>9. QED
  BY <1>1, <1>2, <1>3, <1>4, <1>5, <1>6, <1>7, <1>8 DEF IInv

LEMMA CrashStep ==
    ASSUME IInv, TypeOK', Crash
    PROVE  IInv'
<1>1. OneRowPerKey' /\ TasksHaveRows' /\ ProcessingHasOwner'
  BY DEF IInv, Crash, OneRowPerKey, TasksHaveRows, ProcessingHasOwner
<1>2. RecoveryHasRows'
  BY DEF IInv, Crash, RecoveryHasRows
<1>3. OneDispatchPerSession'
  BY TaskFacts DEF IInv, Crash, OneDispatchPerSession
<1>4. OwnedIsProcessing'
  BY TaskFacts DEF IInv, Crash, OwnedIsProcessing, Owning
<1>5. DownIsEmpty'
  BY DEF IInv, Crash, TypeOK, DownIsEmpty
<1>6. EffectsBound'
  BY DEF IInv, Crash, TypeOK, EffectsBound
<1>7. EffectsHappened'
  BY TaskFacts DEF IInv, Crash, EffectsHappened, Stages
<1>8. FailureIsReported'
  BY DEF IInv, Crash, TypeOK, FailureIsReported
<1>9. QED
  BY <1>1, <1>2, <1>3, <1>4, <1>5, <1>6, <1>7, <1>8 DEF IInv

LEMMA RestartStep ==
    ASSUME IInv, TypeOK', Restart
    PROVE  IInv'
<1>1. OneRowPerKey' /\ ProcessingHasOwner' /\ DownIsEmpty'
  BY DEF IInv, Restart, requeued, OneRowPerKey, ProcessingHasOwner, counters,
     DownIsEmpty
<1>2. RecoveryHasRows' /\ EffectsBound' /\ EffectsHappened'
  BY DEF IInv, Restart, requeued, RecoveryHasRows, counters, EffectsBound,
     EffectsHappened
<1>3. FailureIsReported'
  BY DEF IInv, Restart, requeued, counters, FailureIsReported
<1>4. OneDispatchPerSession'
  BY DEF IInv, Restart, requeued, OneDispatchPerSession, Holds
<1>5. TasksHaveRows'
  BY TaskFacts DEF IInv, Restart, requeued, TypeOK, TasksHaveRows
<1>6. OwnedIsProcessing'
  BY TaskFacts DEF IInv, Restart, requeued, OwnedIsProcessing, Owning,
     DownIsEmpty
<1>7. QED
  BY <1>1, <1>2, <1>3, <1>4, <1>5, <1>6 DEF IInv

LEMMA StepInvariant == IInv /\ [Next]_vars => IInv'
<1> SUFFICES ASSUME IInv, [Next]_vars PROVE IInv'
  OBVIOUS
<1>1. TypeOK'
  BY TypeStep DEF IInv
<1>2. ASSUME NEW id \in Ids, PostLook(id) PROVE IInv'
  <2>1. UNCHANGED <<row, tasks, todo, mode, reported, effects, crashes>> /\ mode = "serving"
    BY <1>2 DEF PostLook
  <2>2. QED
    BY <1>1, <2>1 DEF IInv, OneRowPerKey, OneDispatchPerSession, Holds, TasksHaveRows,
         OwnedIsProcessing, ProcessingHasOwner, DownIsEmpty, RecoveryHasRows, EffectsBound,
         EffectsHappened, FailureIsReported
<1>3. ASSUME NEW w \in Workers, Execute(w) \/ Recover(w) PROVE IInv'
  BY <1>1, <1>3, BeginStep, AcquireStep, ReturnsStep, RaisesStep, MarkStep, ReportStep,
     RecoverStep DEF Execute
<1>4. CASE Serve \/ UNCHANGED vars
  <2>1. /\ UNCHANGED <<row, tasks, todo, reported, effects, crashes, handlers>>
        /\ mode' = mode \/ (mode = "recovering" /\ mode' = "serving")
    BY <1>4 DEF Serve, vars, counters
  <2>2. QED
    BY <1>1, <2>1 DEF IInv, OneRowPerKey, OneDispatchPerSession, Holds, TasksHaveRows,
         OwnedIsProcessing, ProcessingHasOwner, DownIsEmpty, RecoveryHasRows, EffectsBound,
         EffectsHappened, FailureIsReported
<1>5. QED
  BY <1>1, <1>2, <1>3, <1>4, PostAnswerStep, CrashStep, RestartStep DEF Next

(* The inductive invariant holds in every behaviour.                         *)
THEOREM Invariance == Spec => []IInv
  BY InitInvariant, StepInvariant, PTL DEF Spec

(* Commands of one semantic key share one row, under any race of POSTs.      *)
THEOREM OneRow == Spec => []OneRowPerKey
<1>1. IInv => OneRowPerKey
  BY DEF IInv
<1>2. QED
  BY <1>1, Invariance, PTL

(* The session lock and the claim leave one dispatch at a time to a session. *)
THEOREM OneDispatch == Spec => []OneDispatchPerSession
<1>1. IInv => OneDispatchPerSession
  BY DEF IInv
<1>2. QED
  BY <1>1, Invariance, PTL

(* A processing row has its task, except between a crash and the restart.    *)
THEOREM ProcessingOwned == Spec => []ProcessingIsOwned
<1>1. IInv => ProcessingIsOwned
  BY ZenonT(60), BusyHasTask DEF IInv, ProcessingIsOwned, ProcessingHasOwner, OwnedIsProcessing, Owning,
     Stages
<1>2. QED
  BY <1>1, Invariance, PTL

(* Only a crash repeats the effect of a command.                             *)
THEOREM Repetition == Spec => []RepeatedOnlyByCrash
<1>1. IInv => RepeatedOnlyByCrash
  <2> SUFFICES ASSUME IInv, NEW id \in Ids PROVE effects[id] \leq 1 + crashes
    BY DEF RepeatedOnlyByCrash
  <2>1. effects[id] \in Nat /\ crashes \in Nat
    BY DEF IInv, TypeOK
  <2>2. effects[id] \leq crashes \/ effects[id] \leq crashes + 1
    BY DEF IInv, EffectsBound
  <2>3. QED
    BY <2>1, <2>2
<1>2. QED
  BY <1>1, Invariance, PTL

(* A process that never dies reports every failure to A.                     *)
THEOREM FailuresReported == Spec => []FailureIsReported
<1>1. IInv => FailureIsReported
  BY DEF IInv
<1>2. QED
  BY <1>1, Invariance, PTL

-----------------------------------------------------------------------------
(* The rows of one key implement the abstract ledger: what a step does to    *)
(* the only row of a key is a step of the key, or none.                      *)
SameLedger == ledger_status' = ledger_status /\ ledger_performed' = ledger_performed

LEMMA LedgerStutters ==
    ASSUME IInv,
           \A id \in Ids : row'[id] = row[id]
              \/ {row[id], row'[id]} \subseteq {"accepted", "processing", "failed"},
           effects' = effects
    PROVE  SameLedger
<1>1. \A key \in Keys : RowsOf(key)' = RowsOf(key)
  BY DEF RowsOf
<1>2. ASSUME NEW key \in Keys
      PROVE (\E id \in RowsOf(key)' : row'[id] = "completed")
               <=> (\E id \in RowsOf(key) : row[id] = "completed")
  BY <1>1 DEF RowsOf
<1>3. ledger_status' = ledger_status
  BY <1>1, <1>2 DEF ledger_status
<1>4. ledger_performed' = ledger_performed
  BY <1>1 DEF ledger_performed
<1>5. QED
  BY <1>3, <1>4 DEF SameLedger

(* The insert of the first row of a key accepts the key.                     *)
LEMMA InsertAccepts ==
    ASSUME IInv, NEW h \in handlers, NEW w \in Workers, PostAnswer(h, w)
    PROVE  Ledger!Next \/ SameLedger
<1> DEFINE id == h.id
           key == KeyOf[h.id]
<1>1. id \in Ids /\ key \in Keys /\ effects' = effects
  BY MediaCommandsAssumption DEF IInv, TypeOK, PostAnswer
<1>2. CASE UNCHANGED row
  BY <1>1, <1>2, LedgerStutters
<1>3. CASE ~UNCHANGED row
  <2>1. Existing(id) = {} /\ row' = [row EXCEPT ![id] = "accepted"]
    BY <1>3 DEF PostAnswer, Insert, Duplicate
  <2>2. RowsOf(key) = {} /\ row[id] = "none" /\ effects[id] = 0
    BY <1>1, <2>1 DEF Existing, RowsOf, IInv, TypeOK, EffectsHappened
  <2>3. RowsOf(key)' = {id} /\ \A k \in Keys \ {key} : RowsOf(k)' = RowsOf(k)
    BY <1>1, <2>1, <2>2 DEF RowsOf, IInv, TypeOK
  <2>4. \A k \in Keys \ {key} : \A i \in RowsOf(k) : row'[i] = row[i]
    BY <1>1, <2>1 DEF RowsOf, IInv, TypeOK
  <2>5. ledger_status[key] = "new"
    BY <1>1, <2>2 DEF ledger_status
  <2>6. row'[id] = "accepted"
    BY <1>1, <2>1 DEF IInv, TypeOK
  <2>7. \A k \in Keys : ledger_status'[k] =
          IF k = key THEN "accepted" ELSE ledger_status[k]
    BY <2>3, <2>4, <2>6 DEF ledger_status
  <2>8. ledger_status' = [ledger_status EXCEPT ![key] = "accepted"]
    BY <2>7 DEF ledger_status
  <2>9. \A k \in Keys : ledger_performed'[k] = ledger_performed[k]
    BY <1>1, <2>2, <2>3 DEF ledger_performed
  <2>10. ledger_performed' = ledger_performed
    BY <2>9 DEF ledger_performed
  <2>11. QED
    BY <1>1, <2>5, <2>8, <2>10 DEF Ledger!Next, Ledger!Accept
<1>4. QED
  BY <1>2, <1>3

(* The row a task owns is the only row of its key.                           *)
LEMMA OwnedIsOnly ==
    ASSUME IInv, NEW w \in Workers, tasks[w].stage \in Owning
    PROVE  /\ tasks[w].id \in Ids /\ KeyOf[tasks[w].id] \in Keys
           /\ row[tasks[w].id] = "processing"
           /\ RowsOf(KeyOf[tasks[w].id]) = {tasks[w].id}
           /\ ledger_status[KeyOf[tasks[w].id]] = "accepted"
<1> DEFINE id == tasks[w].id
           key == KeyOf[tasks[w].id]
<1>1. id \in Ids /\ row[id] = "processing"
  BY BusyHasTask DEF IInv, OwnedIsProcessing, Owning, Stages
<1>2. key \in Keys /\ id \in RowsOf(key)
  BY <1>1, MediaCommandsAssumption DEF RowsOf
<1>3. RowsOf(key) = {id}
  BY <1>1, <1>2 DEF RowsOf, IInv, OneRowPerKey
<1>4. ledger_status[key] = "accepted"
  BY <1>1, <1>2, <1>3 DEF ledger_status
<1>5. QED
  BY <1>1, <1>2, <1>3, <1>4

(* The end of a dispatch performs the key.                                   *)
LEMMA ReturnPerforms ==
    ASSUME IInv, NEW w \in Workers, DispatchReturns(w)
    PROVE  Ledger!Next \/ SameLedger
<1> DEFINE id == tasks[w].id
           key == KeyOf[tasks[w].id]
<1>1. /\ id \in Ids /\ key \in Keys /\ RowsOf(key) = {id}
      /\ ledger_status[key] = "accepted"
  BY OwnedIsOnly DEF DispatchReturns, Owning
<1>2. row' = row /\ effects' = [effects EXCEPT ![id] = effects[id] + 1]
  BY DEF DispatchReturns
<1>3. \A k \in Keys : RowsOf(k)' = RowsOf(k)
  BY <1>2 DEF RowsOf
<1>4. ledger_status' = ledger_status
  BY <1>2, <1>3 DEF ledger_status
<1>5. effects'[id] > 0 /\ \A i \in Ids \ {id} : effects'[i] = effects[i]
  BY <1>1, <1>2 DEF IInv, TypeOK
<1>6. \A k \in Keys \ {key} : id \notin RowsOf(k) /\ RowsOf(k) \subseteq Ids
  BY <1>1 DEF RowsOf
<1>7. \A k \in Keys : ledger_performed'[k] = IF k = key THEN TRUE ELSE ledger_performed[k]
  <2>1. ledger_performed'[key] = TRUE
    BY <1>1, <1>3, <1>5 DEF ledger_performed
  <2>2. ASSUME NEW k \in Keys \ {key} PROVE ledger_performed'[k] = ledger_performed[k]
    BY <1>3, <1>5, <1>6 DEF ledger_performed
  <2>3. QED
    BY <2>1, <2>2
<1>8. ledger_performed' = [ledger_performed EXCEPT ![key] = TRUE]
  BY <1>7 DEF ledger_performed
<1>9. QED
  BY <1>1, <1>4, <1>8 DEF Ledger!Next, Ledger!Perform

(* The mark of a returned dispatch completes the key, that of a failed one   *)
(* leaves it accepted.                                                       *)
LEMMA MarkCompletes ==
    ASSUME IInv, NEW w \in Workers, Mark(w)
    PROVE  Ledger!Next \/ SameLedger
<1> DEFINE id == tasks[w].id
           key == KeyOf[tasks[w].id]
<1>1. /\ id \in Ids /\ key \in Keys /\ RowsOf(key) = {id}
      /\ row[id] = "processing" /\ ledger_status[key] = "accepted"
  BY OwnedIsOnly DEF Mark, Owning
<1>2. effects' = effects
  BY DEF Mark
<1>3. CASE tasks[w].stage = "raised"
  <2>1. row' = [row EXCEPT ![id] = "failed"]
    BY <1>3 DEF Mark
  <2>2. QED
    BY <1>1, <1>2, <2>1, LedgerStutters DEF IInv, TypeOK
<1>4. CASE tasks[w].stage = "done"
  <2>1. row' = [row EXCEPT ![id] = "completed"]
    BY <1>4 DEF Mark
  <2>2. tasks[w] = Task(id, "done")
    BY <1>4, TaskFacts, BusyHasTask DEF IInv, Stages
  <2>3. effects[id] > 0
    BY <1>1, <2>2 DEF IInv, EffectsHappened
  <2>4. ledger_performed[key]
    BY <1>1, <2>3 DEF ledger_performed
  <2>5. \A k \in Keys : RowsOf(k)' = RowsOf(k)
    BY <1>1, <2>1 DEF RowsOf, IInv, TypeOK
  <2>6. ledger_performed' = ledger_performed
    BY <1>2, <2>5 DEF ledger_performed
  <2>7. row'[id] = "completed" /\ \A i \in Ids \ {id} : row'[i] = row[i]
    BY <1>1, <2>1 DEF IInv, TypeOK
  <2>8. \A k \in Keys \ {key} : id \notin RowsOf(k) /\ RowsOf(k) \subseteq Ids
    BY <1>1 DEF RowsOf
  <2>9. ledger_status'[key] = "completed"
    BY <1>1, <2>5, <2>7 DEF ledger_status
  <2>10. ASSUME NEW k \in Keys \ {key} PROVE ledger_status'[k] = ledger_status[k]
    <3>1. \A i \in RowsOf(k) : row'[i] = row[i]
      BY <2>7, <2>8
    <3>2. QED
      BY <2>5, <3>1 DEF ledger_status
  <2>11. ledger_status' = [ledger_status EXCEPT ![key] = "completed"]
    BY ZenonT(60), <2>9, <2>10 DEF ledger_status
  <2>12. QED
    BY <1>1, <2>4, <2>6, <2>11 DEF Ledger!Next, Ledger!Complete
<1>5. QED
  BY <1>3, <1>4 DEF Mark

LEMMA LedgerStep == IInv /\ [Next]_vars => [Ledger!Next]_<<ledger_status, ledger_performed>>
<1> SUFFICES ASSUME IInv, [Next]_vars PROVE Ledger!Next \/ SameLedger
  BY DEF SameLedger
<1>1. ASSUME NEW id \in Ids, PostLook(id) PROVE SameLedger
  BY <1>1, LedgerStutters DEF PostLook
<1>2. ASSUME NEW w \in Workers, Begin(w) \/ Report(w) \/ DispatchRaises(w) \/ Recover(w)
      PROVE  SameLedger
  BY <1>2, LedgerStutters DEF Begin, Report, DispatchRaises, Recover
<1>3. ASSUME NEW w \in Workers, Acquire(w) PROVE SameLedger
  BY <1>3, LedgerStutters, BusyHasTask DEF Acquire, claimable, IInv, TypeOK, Stages
<1>4. CASE Serve \/ Crash \/ UNCHANGED vars
  BY <1>4, LedgerStutters DEF Serve, Crash, vars
<1>5. CASE Restart
  BY <1>5, LedgerStutters DEF Restart, requeued
<1>6. QED
  BY <1>1, <1>2, <1>3, <1>4, <1>5, InsertAccepts, ReturnPerforms, MarkCompletes
     DEF Next, Execute

(* Whatever is posted, repeated, retried, or lost in a crash, the command    *)
(* service implements the ledger that A was promised.                        *)
THEOREM Implementation == Spec => ImplementsLedger
<1>1. Init => Ledger!Init
  BY DEF Init, Ledger!Init, ledger_status, ledger_performed, RowsOf
<1>2. QED
  BY <1>1, LedgerStep, Invariance, PTL
     DEF Spec, ImplementsLedger, Ledger!Spec, Ledger!vars

(* Type correctness.                                                         *)
THEOREM TypeCorrect == Spec => []TypeOK
<1>1. IInv => TypeOK
  BY DEF IInv
<1>2. QED
  BY <1>1, Invariance, PTL

(* The rows of B serve one command at a time.                                *)
THEOREM ServedInTurn == Spec => []OneAtATime
  BY TypeCorrect, OneRow, OneDispatch, ProcessingOwned, PTL DEF OneAtATime

(* What B did and what it told A agree.                                      *)
THEOREM Told == Spec => []OutcomesAreTold
  BY Repetition, FailuresReported, PTL DEF OutcomesAreTold
=============================================================================
