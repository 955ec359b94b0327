------------------------- MODULE MediaRuntime_proofs -------------------------
(***************************************************************************)
(* Proofs about MediaRuntime, for any set of people and of tasks and any     *)
(* number of faults, crashes and changes.                                    *)
(***************************************************************************)
EXTENDS MediaRuntime, TLAPS

Running == {"PREPARING", "ACTIVE", "ENDING"}
Over == {"STOPPED", "ERROR"}
Mid == runs["op"]
InQueue(c) == \E i \in DOMAIN queue : queue[i] = c
Later(seq) == \A i, j \in DOMAIN seq : i < j /\ seq[i] = "START_SYNC" => seq[j] # "START_PROXY"

(* The phase bounds what A has sent.                                         *)
PhaseSound ==
    /\ status["START_SYNC"] # "none" => phase \in {"SYNC_MEETING", "TERMINATED"}
    /\ status["BEGIN_HANDOFF"] # "none" => phase # "PROXY_MEETING"
    /\ status["STOP"] # "none" => phase = "TERMINATED"
    /\ phase \in {"PROXY_MEETING", "HANDOFF"} => runtime["sync"].state = "none"
    /\ marked => phase # "PROXY_MEETING"

(* A command that is not done waits, or is the one that runs; the start of   *)
(* the proxy meeting never waits behind the start of the synchronous one.    *)
CommandsSound ==
    /\ \A c \in Commands : status[c] # "none" <=> \E i \in DOMAIN received : received[i] = c
    /\ Later(received) /\ Later(queue)
    /\ \A i \in DOMAIN queue : status[queue[i]] # "none"
    /\ \A c \in replay : status[c] # "none"
    /\ op.cmd = "START_SYNC" => ~InQueue("START_PROXY") /\ "START_PROXY" \notin replay
    /\ queue # <<>> => mode = "serving"
    /\ replay # {} => mode = "replaying"
    /\ starting # {} => mode = "reconciling"
    /\ op.cmd = "reconcile" <=> mode = "reconciling"
    /\ op.cmd \in Commands => status[op.cmd] = "processing"
    /\ mode # "reconciling" =>
          \A c \in Commands : /\ status[c] = "processing" => op.cmd = c
                              /\ status[c] = "accepted" => InQueue(c) \/ c \in replay
    /\ crashes = 0 => mode = "serving"

StepsSound ==
    /\ op = NoOp \/ op.cmd \in Commands \cup {"reconcile"}
    /\ op.cmd = "START_PROXY" => op.at \in {"begin", "recorder", "connect"}
    /\ op.cmd = "START_SYNC" =>
          op.at \in {"begin", "previous", "retire", "create", "recorder", "policy"}
    /\ op.cmd \in {"END_PROXY", "END_SYNC"} => op.at \in {"begin", "finalize", "leave"}
    /\ op.cmd = "BEGIN_HANDOFF" => op.at \in {"begin", "leave", "room", "policy"}
    /\ op.cmd = "STOP" => op.at \in {"begin", "leave"}
    /\ op.cmd = "reconcile" => op.at \in {"begin", "policy"}
    /\ Mid = Idle <=> op.at # "policy"
    /\ \A x \in Runners : runs[x].at # "idle" /\ runs[x].policy = "sync" =>
          x = "op" /\ (op.cmd = "START_SYNC" \/ (op.cmd = "reconcile" /\ starting = {"sync"}))
    /\ op.at = "policy" /\ op.cmd = "START_SYNC" => Mid.policy = "sync"
    /\ op.cmd = "START_PROXY" /\ op.at # "begin" => runtime["proxy"].state # "none"
    /\ "sync" \in starting \/ (op.cmd = "START_SYNC" /\ op.at \in {"recorder", "policy"})
          => runtime["sync"].state # "none"
    /\ "MEDIA_READY sync" \in events => runtime["sync"].state # "none"

(* Before the handoff nobody is muted, and in it nobody gets the word back.  *)
WordSound ==
    /\ phase = "PROXY_MEETING" => barrier = "none" /\ \A x \in Runners : runs[x] = Idle
    /\ phase = "HANDOFF" => \A x \in Runners : runs[x].at # "idle" =>
          runs[x].policy = "handoff" /\ runs[x].heard \cap may_speak = {}

(* Rows.                                                                     *)
StartSound ==
    /\ status["START_PROXY"] \in {"failed", "completed"} => runtime["proxy"].state # "none"
    /\ runtime["sync"].state # "none" /\ runtime["proxy"].state = "none" =>
          status["START_PROXY"] = "none"
    /\ runtime["sync"].state # "HANDING_OFF"

MeetingsSound ==
    /\ \A k \in Kinds : runtime[k].ended <=> runtime[k].state \in Over
    /\ runtime["sync"].state # "none" =>
          runtime["proxy"].state = "none" \/ runtime["proxy"].ended
    /\ marked \/ barrier = "proxy" \/ (\E x \in Runners : runs[x].at # "idle" /\ runs[x].runtime = "proxy")
          => runtime["proxy"].state \in {"HANDING_OFF", "STOPPED"}
    /\ proxy_in => runtime["proxy"].state \in {"ACTIVE", "ENDING"}
    /\ "sync" \in starting => "proxy" \notin starting
    /\ life = "proxy" => runtime["proxy"].state \in Running
    /\ life = "sync" => runtime["sync"].state # "none"

OpSound ==
    /\ At({"START_PROXY"}, "recorder") \/ At({"START_PROXY"}, "connect") =>
          runtime["proxy"].state = "PREPARING"
    /\ At({"START_SYNC"}, "recorder") \/ At({"START_SYNC"}, "policy") =>
          runtime["sync"].state = "PREPARING"
    /\ At({"START_SYNC"}, "previous") => runtime["proxy"].state \in Running
    /\ At({"START_SYNC"}, "retire") => 
          runtime["proxy"].state \in Running \cup {"HANDING_OFF", "STOPPED"} /\ life = "none"
    /\ op.cmd = "START_SYNC" /\ op.at \in {"create", "recorder", "policy"} =>
          runtime["proxy"].state = "none" \/ runtime["proxy"].ended
    /\ op.cmd \in {"END_PROXY", "END_SYNC"} /\ op.at \in {"finalize", "leave"} =>
          runtime[Ending].state = "ENDING"
    /\ At({"BEGIN_HANDOFF"}, "leave") =>
          active_runtime = "proxy" /\ runtime["proxy"].state \in Running /\ cancelled
    /\ At({"BEGIN_HANDOFF"}, "room") =>
          (active_runtime = "proxy" => runtime["proxy"].state = "HANDING_OFF")
    /\ op.at = "leave" => life = "none"

StopSound ==
    status["STOP"] = "completed" =>
        /\ ~proxy_in /\ ~recorder_in /\ life = "none" /\ starting = {}
        /\ \A k \in Kinds : ~Nonterminal(k)
        /\ op.at = "begin" \/ At({"START_SYNC"}, "create")
              \/ At({"BEGIN_HANDOFF"}, "room") \/ At({"BEGIN_HANDOFF"}, "policy")

WrittenSound ==
    crashes = 0 =>
        /\ runtime["proxy"].state \in Running => life = "proxy" \/ op.at \in {"leave", "retire"}
        /\ runtime["sync"].state \in Running => life = "sync" \/ op.at = "leave"
        /\ runtime["proxy"].state = "HANDING_OFF" => "proxy" \in transcripts \/ cancelled
        /\ At({"START_SYNC"}, "retire") => "proxy" \in transcripts \/ cancelled
        /\ op.cmd \in {"END_PROXY", "END_SYNC"} /\ op.at = "leave" => Ending \in transcripts
        /\ EndedIsWritten

ReportedSound ==
    phase # "TERMINATED" =>
        /\ \A k \in Kinds : runtime[k].state = "STOPPED" => Ended(k) \in events \/ CutOff(k)
        /\ runtime["proxy"].state = "HANDING_OFF" => Ended("proxy") \in events \/ cancelled

IInv ==
    /\ TypeOK /\ PhaseSound /\ CommandsSound /\ StepsSound /\ WordSound /\ StartSound
    /\ ~resumed => MeetingsSound /\ OpSound /\ StopSound /\ WrittenSound /\ ReportedSound
-----------------------------------------------------------------------------
LEMMA Elements ==
    ASSUME NEW S, NEW q \in Seq(S), NEW i \in DOMAIN q PROVE q[i] \in S
OBVIOUS

(* What the writes of an operation leave in the rows.                        *)
LEMMA SetStateWrites ==
    ASSUME TypeOK, NEW k \in Kinds, NEW s \in RuntimeState, NEW b \in BOOLEAN, SetState(k, s, b)
    PROVE  /\ runtime' \in [Kinds -> [state : RuntimeState, ended : BOOLEAN]]
           /\ runtime'[k].state = s /\ (runtime'[k].ended <=> runtime[k].ended \/ b)
           /\ \A o \in Kinds \ {k} : runtime'[o] = runtime[o]
<1>1. runtime \in [Kinds -> [state : RuntimeState, ended : BOOLEAN]]
  BY DEF TypeOK
<1>2. runtime[k].ended \/ b \in BOOLEAN
  BY <1>1
<1> DEFINE row == [state |-> s, ended |-> runtime[k].ended \/ b]
<1>3. runtime' = [runtime EXCEPT ![k] = row]
  BY <1>1 DEF SetState
<1>4. row \in [state : RuntimeState, ended : BOOLEAN]
  BY <1>2
<1>5. row.state = s /\ (row.ended <=> runtime[k].ended \/ b)
  OBVIOUS
<1> HIDE DEF row
<1>6. QED
  BY <1>1, <1>3, <1>4, <1>5

(* A command goes on, completes or fails.                                    *)
Goes ==
    /\ op.cmd \in Commands
    /\ \/ \E at \in Steps : op' = Op(op.cmd, at) /\ status' = status
       \/ op' = NoOp /\ \E r \in {"completed", "failed"} : status' = [status EXCEPT ![op.cmd] = r]

LEMMA OpIs ==
    ASSUME NEW c, NEW at PROVE Op(c, at).cmd = c /\ Op(c, at).at = at
BY DEF Op

Went ==
    /\ op' \in {NoOp} \cup [cmd : Commands \cup {"reconcile"}, at : Steps]
    /\ status' \in [Commands -> Statuses]
    /\ \A c \in Commands : c # op.cmd => status'[c] = status[c]
    /\ status[op.cmd] = "processing" /\ status'[op.cmd] # "none"

LEMMA GoesOn ==
    ASSUME IInv, Goes, UNCHANGED <<received, queue, mode, replay, starting, crashes>>
    PROVE  CommandsSound' /\ Went
<1>1. /\ status \in [Commands -> Statuses] /\ status[op.cmd] = "processing"
      /\ op.cmd # "reconcile" /\ "none" \notin Commands /\ NoOp.cmd = "none" /\ op.cmd \in Commands
  BY DEF IInv, TypeOK, CommandsSound, Goes, Commands, NoOp
<1>2. \A c \in Commands : c # op.cmd => status'[c] = status[c]
  BY <1>1 DEF Goes
<1>3. op'.cmd = op.cmd \/ op'.cmd = "none"
  BY <1>1, OpIs DEF Goes
<1>4. /\ op' \in {NoOp} \cup [cmd : Commands \cup {"reconcile"}, at : Steps]
      /\ status' \in [Commands -> Statuses] /\ status'[op.cmd] # "none"
  BY <1>1 DEF Goes, Statuses, Op
<1>5. \/ op'.cmd = op.cmd /\ status' = status
      \/ op'.cmd = "none" /\ status'[op.cmd] \in {"completed", "failed"}
  BY <1>1, OpIs DEF Goes
<1>6. \A c \in Commands : status'[c] = "none" <=> status[c] = "none"
  BY <1>1, <1>2, <1>4
<1>7. CommandsSound'
  <2>1. \A c \in Commands : status'[c] # "none" <=> \E i \in DOMAIN received' : received'[i] = c
    BY <1>6 DEF IInv, CommandsSound
  <2>2. Later(received') /\ Later(queue')
    BY DEF IInv, CommandsSound, Later
  <2>3. \A i \in DOMAIN queue' : status'[queue'[i]] # "none"
    <3>1. \A i \in DOMAIN queue : queue[i] \in Commands
      BY Elements DEF IInv, TypeOK
    <3>2. QED
      BY <1>6, <3>1 DEF IInv, CommandsSound
  <2>4. op'.cmd = "START_SYNC" => ~InQueue("START_PROXY")' /\ "START_PROXY" \notin replay'
    BY <1>3 DEF IInv, CommandsSound, InQueue
  <2>5. /\ queue' # <<>> => mode' = "serving"
        /\ replay' # {} => mode' = "replaying"
        /\ starting' # {} => mode' = "reconciling"
        /\ crashes' = 0 => mode' = "serving"
    BY DEF IInv, CommandsSound
  <2>6. op'.cmd = "reconcile" <=> mode' = "reconciling"
    BY <1>1, <1>3 DEF IInv, CommandsSound
  <2>7. op'.cmd \in Commands => status'[op'.cmd] = "processing"
    BY <1>1, <1>5
  <2>8. mode' # "reconciling" =>
          \A c \in Commands : /\ status'[c] = "processing" => op'.cmd = c
                              /\ status'[c] = "accepted" => InQueue(c)' \/ c \in replay'
    BY <1>1, <1>2, <1>5 DEF IInv, CommandsSound, InQueue
  <2>9. \A c \in replay' : status'[c] # "none"
    BY <1>6 DEF IInv, TypeOK, CommandsSound
  <2>10. QED
    BY <2>1, <2>2, <2>3, <2>4, <2>5, <2>6, <2>7, <2>8, <2>9 DEF CommandsSound, Later, InQueue
<1>8. QED
  BY <1>1, <1>2, <1>4, <1>7 DEF Went

(* It goes to its next step.                                                 *)
LEMMA Continues ==
    ASSUME IInv, op.cmd \in Commands, NEW at \in Steps, op' = Op(op.cmd, at), UNCHANGED status,
           UNCHANGED <<received, queue, mode, replay, starting, crashes>>
    PROVE  CommandsSound' /\ Went /\ op'.cmd = op.cmd /\ op'.at = at
<1>1. Goes /\ op'.cmd = op.cmd /\ op'.at = at
  BY OpIs DEF Goes
<1>2. QED
  BY <1>1, GoesOn

LEMMA Finishes ==
    ASSUME IInv, op.cmd \in Commands, Completes,
           UNCHANGED <<received, queue, mode, replay, starting, crashes>>
    PROVE  /\ CommandsSound' /\ Went /\ op' = NoOp /\ op'.cmd = "none" /\ op'.at = "begin"
           /\ status'[op.cmd] = "completed"
<1>1. Goes /\ op' = NoOp /\ op'.cmd = "none" /\ op'.at = "begin"
  BY DEF Goes, Completes, NoOp
<1>2. CommandsSound' /\ Went
  BY <1>1, GoesOn
<1>3. status'[op.cmd] = "completed"
  BY DEF IInv, TypeOK, Completes
<1>4. QED
  BY <1>1, <1>2, <1>3

LEMMA GivesUp ==
    ASSUME IInv, op.cmd \in Commands, Fails,
           UNCHANGED <<received, queue, mode, replay, starting, crashes>>
    PROVE  /\ CommandsSound' /\ Went /\ op' = NoOp /\ op'.cmd = "none" /\ op'.at = "begin"
           /\ status'[op.cmd] = "failed"
           /\ events' \in {events, events \cup {"MEDIA_ERROR"}}
<1>1. Goes /\ op' = NoOp /\ op'.cmd = "none" /\ op'.at = "begin"
  BY DEF Goes, Fails, NoOp
<1>2. CommandsSound' /\ Went
  BY <1>1, GoesOn
<1>3. status'[op.cmd] = "failed"
  BY DEF IInv, TypeOK, Fails
<1>4. events' \in {events, events \cup {"MEDIA_ERROR"}}
  BY DEF Fails
<1>5. QED
  BY <1>1, <1>2, <1>3, <1>4

(* The policy is about to be applied.                                        *)
LEMMA RunStarts ==
    ASSUME IInv, NEW x \in Runners, NEW policy \in {"handoff", "sync"},
           NEW r \in Kinds \cup {"no runtime"},
           runs' = [runs EXCEPT ![x] = Run("list", policy, {}, {}, r)]
    PROVE  /\ runs' \in [Runners -> {Idle} \cup RunSet] /\ runs'[x] # Idle
           /\ runs'[x].at = "list" /\ runs'[x].policy = policy /\ runs'[x].todo = {}
           /\ runs'[x].heard = {} /\ runs'[x].runtime = r
           /\ \A o \in Runners \ {x} : runs'[o] = runs[o]
<1>1. runs \in [Runners -> {Idle} \cup RunSet]
  BY DEF IInv, TypeOK
<1> DEFINE new == Run("list", policy, {}, {}, r)
<1>2. new \in RunSet
  BY DEF Run, RunSet
<1>3. /\ new.at = "list" /\ new.policy = policy /\ new.todo = {} /\ new.heard = {}
      /\ new.runtime = r
  BY DEF Run
<1>4. Idle.at = "idle"
  BY DEF Idle
<1> HIDE DEF new
<1>5. runs' = [runs EXCEPT ![x] = new]
  BY DEF new
<1>6. QED
  BY <1>1, <1>2, <1>3, <1>4, <1>5

(* A run that ends.                                                          *)
LEMMA RunEnds ==
    ASSUME IInv, NEW x \in Runners, runs' = [runs EXCEPT ![x] = Idle]
    PROVE  /\ runs' \in [Runners -> {Idle} \cup RunSet] /\ runs'[x] = Idle /\ runs'[x].at = "idle"
           /\ \A o \in Runners \ {x} : runs'[o] = runs[o]
BY DEF IInv, TypeOK, Idle

(* What the lock says of the operation under way.                            *)
LEMMA Holds ==
    ASSUME IInv, op.cmd \in Commands
    PROVE  /\ status[op.cmd] = "processing" /\ status \in [Commands -> Statuses]
           /\ runtime \in [Kinds -> [state : RuntimeState, ended : BOOLEAN]]
           /\ "proxy" \in Kinds /\ "sync" \in Kinds /\ "proxy" # "sync"
           /\ mode # "reconciling"
           /\ op.cmd = "START_SYNC" => phase \in {"SYNC_MEETING", "TERMINATED"}
           /\ op.cmd = "BEGIN_HANDOFF" => phase # "PROXY_MEETING"
           /\ op.cmd = "STOP" => phase = "TERMINATED"
<1>1. op.cmd # "reconcile"
  BY DEF Commands
<1>2. QED
  BY <1>1 DEF IInv, TypeOK, CommandsSound, PhaseSound, Kinds, Commands

LEMMA Counted ==
    ASSUME IInv, UNCHANGED counters \/ Fault PROVE faults' \in 0 .. MaxFaults
<1>1. faults \in 0 .. MaxFaults /\ MaxFaults \in Nat
  BY MediaRuntimeAssumption DEF IInv, TypeOK
<1>2. faults' = faults \/ (faults < MaxFaults /\ faults' = faults + 1)
  BY DEF counters, Fault
<1>3. QED
  BY <1>1, <1>2

(* A start of B goes on.                                                     *)
LEMMA Rebuilds ==
    ASSUME IInv, op.cmd = "reconcile", NEW at \in Steps, op' = Op("reconcile", at),
           starting' \in SUBSET starting, UNCHANGED <<received, status, queue, mode, replay, crashes>>
    PROVE  /\ CommandsSound' /\ op' \in [cmd : Commands \cup {"reconcile"}, at : Steps]
           /\ op'.cmd = "reconcile" /\ op'.at = at /\ mode = "reconciling" /\ crashes # 0
           /\ starting' \subseteq Kinds
<1>1. mode = "reconciling" /\ "reconcile" \notin Commands
  BY DEF IInv, CommandsSound, Commands
<1>2. op'.cmd = "reconcile" /\ op'.at = at /\ op' \in [cmd : Commands \cup {"reconcile"}, at : Steps]
  BY DEF Op
<1>3. queue = <<>> /\ queue' = <<>> /\ replay' = {} /\ replay = {} /\ crashes # 0
  BY <1>1 DEF IInv, CommandsSound
<1>4. CommandsSound'
  BY <1>1, <1>2, <1>3 DEF IInv, CommandsSound, Later
<1>5. QED
  BY <1>1, <1>2, <1>3, <1>4 DEF IInv, TypeOK

(* Only an operation that waits for it applies the policy of the meeting.     *)
LEMMA NoSyncRun ==
    ASSUME IInv, op.at # "policy"
    PROVE  /\ Mid = Idle /\ runs["op"].at = "idle"
           /\ \A x \in Runners : runs[x].at # "idle" => runs[x].policy # "sync"
<1>1. Mid = Idle /\ Idle.at = "idle"
  BY DEF IInv, StepsSound, Idle
<1>2. runs["op"].at = "idle"
  BY <1>1 DEF Mid
<1>3. QED
  BY <1>1, <1>2 DEF IInv, StepsSound

Longer(q, r, c) ==
    /\ r # <<>> /\ r \in Seq(Commands)
    /\ \A i \in DOMAIN r : (i \in DOMAIN q /\ r[i] = q[i])
                           \/ (r[i] = c /\ \A j \in DOMAIN r : ~(i < j))
    /\ \A i \in DOMAIN q : i \in DOMAIN r /\ r[i] = q[i]
    /\ \E i \in DOMAIN r : r[i] = c

LEMMA Appended ==
    ASSUME NEW q \in Seq(Commands), NEW c \in Commands PROVE Longer(q, Append(q, c), c)
<1> DEFINE a == Append(q, c)
<1>1. /\ a \in Seq(Commands) /\ Len(q) \in Nat /\ Len(a) = Len(q) + 1 /\ a[Len(q) + 1] = c
      /\ \A i \in 1 .. Len(q) : a[i] = q[i]
  OBVIOUS
<1>2. DOMAIN q = 1 .. Len(q) /\ DOMAIN a = 1 .. Len(a)
  BY <1>1
<1> HIDE DEF a
<1>3. Len(q) + 1 \in DOMAIN a /\ \A i \in DOMAIN a : i \in Nat /\ (i \in DOMAIN q \/ i = Len(q) + 1)
  BY <1>1, <1>2
<1>4. \A j \in DOMAIN a : ~(Len(q) + 1 < j)
  BY <1>1, <1>2
<1>5. a # <<>>
  BY <1>1
<1>6. \A i \in DOMAIN q : i \in DOMAIN a /\ a[i] = q[i]
  BY <1>1, <1>2
<1>7. \A i \in DOMAIN a : (i \in DOMAIN q /\ a[i] = q[i]) \/ (a[i] = c /\ \A j \in DOMAIN a : ~(i < j))
  BY <1>1, <1>3, <1>4, <1>6
<1>8. Longer(q, a, c)
  <2>1. \E i \in DOMAIN a : a[i] = c
    BY <1>1, <1>3
  <2>2. QED
    BY <1>1, <1>5, <1>6, <1>7, <2>1 DEF Longer
<1>9. QED
  BY <1>8 DEF a

LEMMA Unheld ==
    ASSUME IInv, UNCHANGED <<received, status, queue, mode, replay, starting, op, crashes>>
    PROVE  CommandsSound'
BY DEF IInv, CommandsSound, InQueue, Later

(* A report of somebody who joins or leaves.                                 *)
LEMMA ReportWrites ==
    ASSUME IInv, Report
    PROVE  /\ barrier' = barrier /\ runs' \in [Runners -> {Idle} \cup RunSet]
           /\ \A o \in Runners :
                 runs'[o] = runs[o]
                 \/ (/\ o # "op" /\ runs'[o].policy = "handoff" /\ runs'[o].heard = {}
                     /\ runs'[o].runtime = barrier /\ barrier # "none")
           /\ runs'["op"] = runs["op"]
<1>1. runs \in [Runners -> {Idle} \cup RunSet] /\ "op" \in Runners
  BY DEF IInv, TypeOK, Runners
<1>2. ASSUME barrier # "none", NEW x \in Tasks, UNCHANGED barrier, Refresh(x) PROVE
           /\ barrier' = barrier /\ runs' \in [Runners -> {Idle} \cup RunSet]
           /\ \A o \in Runners :
                 runs'[o] = runs[o]
                 \/ (/\ o # "op" /\ runs'[o].policy = "handoff" /\ runs'[o].heard = {}
                     /\ runs'[o].runtime = barrier /\ barrier # "none")
           /\ runs'["op"] = runs["op"]
  <2>1. x \in Runners /\ x # "op"
    BY MediaRuntimeAssumption DEF Runners
  <2>2. barrier \in Kinds \cup {"no runtime"}
    BY <1>2 DEF IInv, TypeOK
  <2>3. runs' = [runs EXCEPT ![x] = Run("list", "handoff", {}, {}, barrier)]
    BY <1>2 DEF Refresh
  <2>4. /\ runs' \in [Runners -> {Idle} \cup RunSet] 
        /\ runs'[x].policy = "handoff" /\ runs'[x].heard = {} /\ runs'[x].runtime = barrier
        /\ \A o \in Runners \ {x} : runs'[o] = runs[o]
    BY <2>1, <2>2, <2>3, RunStarts
  <2>5. QED
    BY <1>1, <1>2, <2>1, <2>4
<1>3. CASE UNCHANGED <<runs, barrier>>
  BY <1>1, <1>3
<1>4. QED
  BY <1>2, <1>3 DEF Report

LEMMA Changed ==
    ASSUME IInv, Change PROVE changes' \in 0 .. MaxChanges
<1>1. changes \in 0 .. MaxChanges /\ MaxChanges \in Nat
  BY MediaRuntimeAssumption DEF IInv, TypeOK
<1>2. changes < MaxChanges /\ changes' = changes + 1
  BY DEF Change
<1>3. QED
  BY <1>1, <1>2

(* A run lists the people, or sets the permission of one.                     *)
LEMMA RunGoesOn ==
    ASSUME IInv, NEW x \in Runners, runs[x].at # "idle"
    PROVE  /\ runs \in [Runners -> {Idle} \cup RunSet] /\ runs[x] \in RunSet /\ runs[x] # Idle
           /\ phase # "PROXY_MEETING"
           /\ phase = "HANDOFF" => runs[x].policy = "handoff" /\ runs[x].heard \cap may_speak = {}
<1>1. runs \in [Runners -> {Idle} \cup RunSet] /\ Idle.at = "idle"
  BY DEF IInv, TypeOK, Idle
<1>2. runs[x] # Idle
  BY <1>1
<1>3. QED
  BY <1>1, <1>2 DEF IInv, WordSound

(* The operations that wait for a policy.                                     *)
LEMMA Waits ==
    ASSUME IInv, op.at = "policy" PROVE op.cmd \in {"START_SYNC", "BEGIN_HANDOFF", "reconcile"}
<1>1. op # NoOp
  BY DEF NoOp
<1>2. op.cmd \in Commands \cup {"reconcile"}
  BY <1>1 DEF IInv, StepsSound
<1>3. QED
  BY <1>2 DEF IInv, StepsSound, Commands

LEMMA StartProxyStep == ASSUME IInv, StartProxy PROVE IInv'
<1>1. /\ op.cmd = "START_PROXY" /\ op.at = "begin" /\ "START_PROXY" \in Commands
      /\ "proxy" \in Kinds /\ "sync" \in Kinds /\ "proxy" # "sync"
  BY DEF StartProxy, At, Commands, Kinds
<1>2. UNCHANGED <<phase, received, marked, transcripts, preflight, queue, mode, replay, starting, barrier,
                   runs, present, may_speak, recorder_in, proxy_in, cancelled, changes, faults, crashes>>
  BY DEF StartProxy, startup, room
<1>3. runtime \in [Kinds -> [state : RuntimeState, ended : BOOLEAN]] /\ status["START_PROXY"] = "processing"
  BY <1>1 DEF IInv, TypeOK, CommandsSound
<1>4. CASE runtime["proxy"].state = "ACTIVE"
  <2>1. /\ SetState("proxy", "ACTIVE", FALSE) /\ events' = events \cup {"MEDIA_READY proxy"}
        /\ Completes /\ UNCHANGED <<life, resumed>>
    BY <1>4 DEF StartProxy, write_runtime_event, Ready
  <2>2. runtime' = runtime
    BY <1>3, <1>4, <2>1 DEF SetState
  <2>3. /\ CommandsSound' /\ Went /\ op' = NoOp /\ op'.cmd = "none" /\ op'.at = "begin"
        /\ status'[op.cmd] = "completed"
    BY <1>1, <1>2, <2>1, Finishes
  <2>4. WordSound'
    BY <1>2 DEF IInv, WordSound
  <2>5. ~resumed' => MeetingsSound' /\ ReportedSound'
    BY <1>2, <2>1, <2>2 DEF IInv, MeetingsSound, ReportedSound, CutOff
  <2>6. TypeOK'
    BY ZenonT(60), <1>1, <1>2, <1>3, <1>4, <2>1, <2>2, <2>3 DEF IInv, TypeOK, Went, EventSet
  <2>7. PhaseSound'
    BY <1>1, <1>2, <1>3, <1>4, <2>2, <2>3 DEF IInv, PhaseSound, Commands, Went
  <2>8. StepsSound'
    BY <1>1, <1>2, <1>3, <1>4, <2>1, <2>2, <2>3 DEF IInv, StepsSound, Mid, Went
  <2>9. StartSound'
    BY <1>1, <1>3, <1>4, <2>2, <2>3 DEF IInv, StartSound, Commands, Went
  <2>10. ~resumed' => OpSound'
    BY <1>1, <1>2, <1>3, <1>4, <2>1, <2>2, <2>3 DEF IInv, OpSound, At, Running, Over, Kinds,
       Ending, active_runtime, Nonterminal, Went
  <2>11. ~resumed' => StopSound'
    BY <1>1, <1>2, <1>3, <1>4, <2>1, <2>2, <2>3 DEF IInv, StopSound, Nonterminal, Commands, At,
       Kinds, Went
  <2>12. ~resumed' => WrittenSound'
    BY <1>1, <1>2, <1>3, <1>4, <2>1, <2>2, <2>3 DEF IInv, WrittenSound, EndedIsWritten, Ended,
       CutOff, At, Kinds, Running, Ending, Went
  <2>13. QED
    BY <2>3, <2>4, <2>5, <2>6, <2>7, <2>8, <2>9, <2>10, <2>11, <2>12 DEF IInv

<1>5. CASE runtime["proxy"].state # "ACTIVE"
  <2>1. /\ get_or_create_runtime("proxy") /\ op' = Op(op.cmd, "recorder") /\ UNCHANGED <<status, events>>
        /\ resumed' = (resumed \/ runtime["proxy"].state \notin {"none", "PREPARING"}
                          \/ status["STOP"] = "completed")
        /\ life' = IF life = "none" THEN "proxy" ELSE life
    BY <1>5 DEF StartProxy, Resumes, start_session, GoesTo
  <2>2. CommandsSound' /\ Went /\ op'.cmd = op.cmd /\ op'.at = "recorder"
    BY <1>1, <1>2, <2>1, Continues DEF Steps
  <2>3. /\ runtime' \in [Kinds -> [state : RuntimeState, ended : BOOLEAN]]
        /\ runtime'["sync"] = runtime["sync"]
        /\ IF runtime["proxy"].state = "none"
           THEN runtime'["proxy"].state = "PREPARING" /\ runtime'["proxy"].ended = runtime["proxy"].ended
           ELSE runtime'["proxy"] = runtime["proxy"]
    <3>1. CASE runtime["proxy"].state = "none"
      <4>1. SetState("proxy", "PREPARING", FALSE)
        BY <2>1, <3>1 DEF get_or_create_runtime
      <4>2. QED
        BY ZenonT(60), <1>1, <1>3, <3>1, <4>1, SetStateWrites DEF IInv, RuntimeState
    <3>2. CASE runtime["proxy"].state # "none"
      BY <1>1, <1>3, <2>1, <3>2 DEF get_or_create_runtime
    <3>3. QED
      BY <3>1, <3>2
  <2>4. resumed' \in BOOLEAN /\ (~resumed' => ~resumed /\ runtime["proxy"].state \in {"none", "PREPARING"}
                                            /\ status["STOP"] # "completed")
    BY <2>1 DEF IInv, TypeOK
  <2>5. runtime["sync"].state # "none" => runtime["proxy"].state # "none"
    BY <1>3 DEF IInv, StartSound
  <2>6. ~resumed' => runtime["sync"].state = "none"
    BY <1>1, <2>4, <2>5 DEF IInv, MeetingsSound, Over
  <2>7. ~resumed' => life' = "proxy"
    BY <2>1, <2>4, <2>6 DEF IInv, TypeOK, MeetingsSound, Kinds
  <2>8. WordSound'
    BY <1>2 DEF IInv, WordSound
  <2>9. TypeOK'
    BY <1>1, <1>2, <1>3, <1>5, <2>1, <2>2, <2>3, <2>4, <2>5, <2>6, <2>7 DEF IInv, TypeOK, Went
  <2>10. PhaseSound'
    BY <1>1, <1>2, <1>3, <1>5, <2>1, <2>2, <2>3, <2>4, <2>5, <2>6 DEF IInv, PhaseSound,
       Commands, Went
  <2>11. StepsSound'
    BY <1>1, <1>2, <1>3, <1>5, <2>1, <2>2, <2>3, <2>4, <2>5, <2>6 DEF IInv, StepsSound, Mid, Went
  <2>12. StartSound'
    BY <1>1, <1>3, <1>5, <2>1, <2>2, <2>3, <2>4, <2>5, <2>6 DEF IInv, StartSound, Commands, Went
  <2>13. ~resumed' => MeetingsSound'
    BY <1>2, <1>3, <1>5, <2>1, <2>3, <2>4, <2>5, <2>6, <2>7 DEF IInv, MeetingsSound, Over,
       Running, Kinds
  <2>14. ~resumed' => OpSound'
    BY <1>1, <1>2, <1>3, <1>5, <2>1, <2>2, <2>3, <2>4, <2>5, <2>6, <2>7 DEF IInv, OpSound, At,
       Running, Over, Kinds, Ending, active_runtime, Nonterminal, Went
  <2>15. ~resumed' => StopSound'
    BY <1>1, <1>2, <1>3, <1>5, <2>1, <2>2, <2>3, <2>4, <2>5, <2>6, <2>7 DEF IInv, StopSound,
       Nonterminal, Commands, At, Kinds, Went
  <2>16. ~resumed' => WrittenSound'
    BY <1>1, <1>2, <1>3, <1>5, <2>1, <2>2, <2>3, <2>4, <2>5, <2>6, <2>7 DEF IInv, WrittenSound,
       EndedIsWritten, Ended, CutOff, At, Kinds, Running, Ending, Went
  <2>17. ~resumed' => ReportedSound'
    BY <1>2, <1>3, <1>5, <2>1, <2>3, <2>4, <2>5, <2>6, <2>7 DEF IInv, ReportedSound, CutOff,
       Kinds, Ended
  <2>18. QED
    BY <2>2, <2>8, <2>9, <2>10, <2>11, <2>12, <2>13, <2>14, <2>15, <2>16, <2>17 DEF IInv

<1>6. QED
  BY <1>4, <1>5

LEMMA ConnectRecorderStep == ASSUME IInv, ConnectRecorder PROVE IInv'
<1>1. op.cmd \in {"START_PROXY", "START_SYNC"} /\ op.at = "recorder" /\ op.cmd \in Commands
  BY DEF ConnectRecorder, At, Commands
<1>2. UNCHANGED <<phase, received, runtime, marked, transcripts, preflight, queue, mode, replay, starting,
                  life, barrier, present, may_speak, proxy_in, resumed, cancelled, changes, crashes>>
  BY DEF ConnectRecorder, startup, counters, Fault
<1>3. /\ status[op.cmd] = "processing" /\ status \in [Commands -> Statuses]
      /\ runtime \in [Kinds -> [state : RuntimeState, ended : BOOLEAN]]
      /\ "proxy" \in Kinds /\ "sync" \in Kinds /\ "proxy" # "sync"
      /\ (op.cmd = "START_SYNC" => phase \in {"SYNC_MEETING", "TERMINATED"})
  BY <1>1, Holds
<1>4. status["STOP"] = "completed" /\ ~resumed => FALSE
  BY <1>1 DEF IInv, StopSound, At
<1>5. /\ recorder_in' \in BOOLEAN /\ faults' \in 0 .. MaxFaults
  <2>1. faults' \in 0 .. MaxFaults
    BY Counted DEF ConnectRecorder
  <2>2. recorder_in' \in BOOLEAN
    BY DEF ConnectRecorder, IInv, TypeOK
  <2>3. QED
    BY <2>1, <2>2
<1>6. CASE op.cmd = "START_PROXY" /\ GoesTo("connect") /\ UNCHANGED runs
  <2>1. op' = Op(op.cmd, "connect") /\ UNCHANGED <<status, events, runs>>
    BY <1>6 DEF GoesTo
  <2>2. CommandsSound' /\ Went /\ op'.cmd = op.cmd /\ op'.at = "connect"
    BY <1>1, <1>2, <2>1, Continues DEF Steps
  <2>3. PhaseSound' /\ WordSound' /\ StartSound'
    BY <1>2, <1>6, <2>1 DEF IInv, PhaseSound, WordSound, StartSound
  <2>4. ~resumed' => MeetingsSound' /\ ReportedSound'
    BY <1>2, <1>6, <2>1 DEF IInv, MeetingsSound, ReportedSound, CutOff
  <2>5. TypeOK'
    BY <1>1, <1>2, <1>3, <1>4, <1>5, <1>6, <2>1, <2>2 DEF IInv, TypeOK, Went
  <2>6. StepsSound'
    BY <1>1, <1>2, <1>3, <1>6, <2>1, <2>2 DEF IInv, StepsSound, Mid, Went
  <2>7. ~resumed' => OpSound'
    BY <1>1, <1>2, <1>3, <1>4, <1>6, <2>1, <2>2 DEF IInv, OpSound, At, Running, Over, Kinds,
       Ending, active_runtime, Nonterminal, Went
  <2>8. ~resumed' => StopSound'
    BY <1>1, <1>2, <1>3, <1>4, <1>5, <1>6, <2>1, <2>2 DEF IInv, StopSound, Nonterminal,
       Commands, At, Kinds, Went
  <2>9. ~resumed' => WrittenSound'
    BY <1>1, <1>2, <1>3, <1>4, <1>6, <2>1, <2>2 DEF IInv, WrittenSound, EndedIsWritten, Ended,
       CutOff, At, Kinds, Running, Ending, Went
  <2>10. QED
    BY <2>2, <2>3, <2>4, <2>5, <2>6, <2>7, <2>8, <2>9 DEF IInv

<1>7. CASE op.cmd = "START_SYNC" /\ GoesTo("policy")
           /\ runs' = [runs EXCEPT !["op"] = Run("list", "sync", {}, {}, "no runtime")]
  <2>1. op' = Op(op.cmd, "policy") /\ UNCHANGED <<status, events>>
    BY <1>7 DEF GoesTo
  <2>2. CommandsSound' /\ Went /\ op'.cmd = op.cmd /\ op'.at = "policy"
    BY <1>1, <1>2, <2>1, Continues DEF Steps
  <2>3. /\ runs' \in [Runners -> {Idle} \cup RunSet] /\ runs'["op"] # Idle
        /\ runs'["op"].policy = "sync" /\ runs'["op"].runtime = "no runtime"
        /\ \A o \in Runners \ {"op"} : runs'[o] = runs[o]
    BY <1>7, RunStarts DEF Runners
  <2>4. PhaseSound' /\ StartSound'
    BY <1>2, <2>1 DEF IInv, PhaseSound, StartSound
  <2>5. ~resumed' => ReportedSound'
    BY <1>2, <2>1 DEF IInv, ReportedSound, CutOff
  <2>6. TypeOK'
    BY <1>1, <1>2, <1>3, <1>4, <1>5, <1>7, <2>1, <2>2, <2>3 DEF IInv, TypeOK, Went
  <2>7. StepsSound'
    BY <1>1, <1>2, <1>3, <1>7, <2>1, <2>2, <2>3 DEF IInv, StepsSound, Mid, Went
  <2>8. WordSound'
    BY <1>2, <1>3, <1>7, <2>3 DEF IInv, WordSound
  <2>9. ~resumed' => MeetingsSound'
    BY <1>2, <1>3, <1>4, <1>7, <2>3 DEF IInv, MeetingsSound, Over, Running, Kinds
  <2>10. ~resumed' => OpSound'
    BY <1>1, <1>2, <1>3, <1>4, <1>7, <2>1, <2>2, <2>3 DEF IInv, OpSound, At, Running, Over,
       Kinds, Ending, active_runtime, Nonterminal, Went
  <2>11. ~resumed' => StopSound'
    BY <1>1, <1>2, <1>3, <1>4, <1>5, <1>7, <2>1, <2>2, <2>3 DEF IInv, StopSound, Nonterminal,
       Commands, At, Kinds, Went
  <2>12. ~resumed' => WrittenSound'
    BY <1>1, <1>2, <1>3, <1>4, <1>7, <2>1, <2>2, <2>3 DEF IInv, WrittenSound, EndedIsWritten,
       Ended, CutOff, At, Kinds, Running, Ending, Went
  <2>13. QED
    BY <2>2, <2>4, <2>5, <2>6, <2>7, <2>8, <2>9, <2>10, <2>11, <2>12 DEF IInv

<1>8. CASE Fails /\ UNCHANGED runs
  <2>1. /\ CommandsSound' /\ Went /\ op' = NoOp /\ op'.cmd = "none" /\ op'.at = "begin"
        /\ status'[op.cmd] = "failed"
        /\ events' \in {events, events \cup {"MEDIA_ERROR"}}
    BY <1>1, <1>2, <1>8, GivesUp
  <2>2. Mid = Idle /\ \A x \in Runners : runs[x].at # "idle" => runs[x].policy # "sync"
    BY <1>1, NoSyncRun
  <2>3. WordSound'
    BY <1>2, <1>8 DEF IInv, WordSound
  <2>4. ~resumed' => MeetingsSound'
    BY <1>2, <1>8 DEF IInv, MeetingsSound
  <2>5. TypeOK'
    BY ZenonT(60), <1>1, <1>2, <1>3, <1>4, <1>5, <1>8, <2>1, <2>2 DEF IInv, TypeOK, Went, EventSet
  <2>6. PhaseSound'
    BY <1>1, <1>2, <1>3, <1>4, <1>8, <2>1 DEF IInv, PhaseSound, Commands, Went
  <2>7. StepsSound'
    BY <1>1, <1>2, <1>3, <1>8, <2>1, <2>2 DEF IInv, StepsSound, Mid, Went
  <2>8. StartSound'
    BY <1>1, <1>2, <1>3, <1>4, <1>8, <2>1 DEF IInv, StartSound, Commands, Went, StepsSound
  <2>9. ~resumed' => OpSound'
    BY <1>1, <1>2, <1>3, <1>4, <1>8, <2>1 DEF IInv, OpSound, At, Running, Over, Kinds, Ending,
       active_runtime, Nonterminal, Went
  <2>10. ~resumed' => StopSound'
    BY <1>1, <1>2, <1>3, <1>4, <1>5, <1>8, <2>1 DEF IInv, StopSound, Nonterminal, Commands, At,
       Kinds, Went
  <2>11. ~resumed' => WrittenSound'
    BY <1>1, <1>2, <1>3, <1>4, <1>8, <2>1 DEF IInv, WrittenSound, EndedIsWritten, Ended,
       CutOff, At, Kinds, Running, Ending, Went
  <2>12. ~resumed' => ReportedSound'
    BY <1>2, <1>3, <1>4, <1>8, <2>1 DEF IInv, ReportedSound, CutOff, Kinds, Ended, Went
  <2>13. QED
    BY <2>1, <2>3, <2>4, <2>5, <2>6, <2>7, <2>8, <2>9, <2>10, <2>11, <2>12 DEF IInv
<1>9. QED
  BY <1>1, <1>6, <1>7, <1>8 DEF ConnectRecorder

LEMMA ConnectProxyStep == ASSUME IInv, ConnectProxy PROVE IInv'
<1>1. op.cmd = "START_PROXY" /\ op.at = "connect" /\ op.cmd \in Commands
  BY DEF ConnectProxy, At, Commands
<1>2. UNCHANGED <<phase, received, marked, transcripts, preflight, queue, mode, replay, starting,
                  life, barrier, runs, present, may_speak, recorder_in, resumed, cancelled, changes, crashes>>
  BY DEF ConnectProxy, startup, counters, Fault
<1>3. /\ status[op.cmd] = "processing" /\ status \in [Commands -> Statuses]
      /\ runtime \in [Kinds -> [state : RuntimeState, ended : BOOLEAN]]
      /\ "proxy" \in Kinds /\ "sync" \in Kinds /\ "proxy" # "sync"
  BY <1>1, Holds
<1>4. ~resumed => runtime["proxy"].state = "PREPARING" /\ status["STOP"] # "completed" /\ ~proxy_in
                  /\ runtime["sync"].state = "none"
  <2>1. ~resumed => runtime["proxy"].state = "PREPARING"
    BY <1>1 DEF IInv, OpSound, At
  <2>2. ~resumed => status["STOP"] # "completed"
    BY <1>1 DEF IInv, StopSound, At
  <2>3. QED
    BY <1>3, <2>1, <2>2 DEF IInv, MeetingsSound, Over
<1>5. faults' \in 0 .. MaxFaults
  BY Counted DEF ConnectProxy
<1>6. CASE proxy_in' = TRUE /\ write_runtime_event("proxy", "ACTIVE", FALSE, Ready("proxy")) /\ Completes
  <2>1. SetState("proxy", "ACTIVE", FALSE) /\ events' = events \cup {"MEDIA_READY proxy"}
    BY <1>6 DEF write_runtime_event, Ready
  <2>2. /\ runtime' \in [Kinds -> [state : RuntimeState, ended : BOOLEAN]]
        /\ runtime'["proxy"].state = "ACTIVE" /\ (runtime'["proxy"].ended <=> runtime["proxy"].ended)
        /\ runtime'["sync"] = runtime["sync"]
    BY <1>3, <2>1, SetStateWrites DEF IInv, RuntimeState
  <2>3. /\ CommandsSound' /\ Went /\ op' = NoOp /\ op'.cmd = "none" /\ op'.at = "begin"
        /\ status'[op.cmd] = "completed"
    BY <1>1, <1>2, <1>6, Finishes
  <2>4. WordSound'
    BY <1>2 DEF IInv, WordSound
  <2>5. TypeOK'
    BY ZenonT(60), <1>1, <1>2, <1>3, <1>4, <1>5, <1>6, <2>1, <2>2, <2>3 DEF IInv, TypeOK, Went, EventSet
  <2>6. PhaseSound'
    BY <1>1, <1>2, <1>3, <1>4, <1>6, <2>2, <2>3 DEF IInv, PhaseSound, Commands, Went
  <2>7. StepsSound'
    BY <1>1, <1>2, <1>3, <1>4, <1>6, <2>1, <2>2, <2>3 DEF IInv, StepsSound, Mid, Went
  <2>8. StartSound'
    BY <1>1, <1>3, <1>4, <1>6, <2>2, <2>3 DEF IInv, StartSound, Commands, Went
  <2>9. ~resumed' => MeetingsSound'
    BY <1>2, <1>3, <1>4, <1>6, <2>2 DEF IInv, MeetingsSound, Over, Running, Kinds
  <2>10. ~resumed' => OpSound'
    BY <1>1, <1>2, <1>3, <1>4, <1>6, <2>2, <2>3 DEF IInv, OpSound, At, Running, Over, Kinds,
       Ending, active_runtime, Nonterminal, Went
  <2>11. ~resumed' => StopSound'
    BY <1>1, <1>2, <1>3, <1>4, <1>6, <2>2, <2>3 DEF IInv, StopSound, Nonterminal, Commands, At,
       Kinds, Went
  <2>12. ~resumed' => WrittenSound'
    BY <1>1, <1>2, <1>3, <1>4, <1>6, <2>1, <2>2, <2>3 DEF IInv, WrittenSound, EndedIsWritten,
       Ended, CutOff, At, Kinds, Running, Ending, Went
  <2>13. ~resumed' => ReportedSound'
    BY <1>2, <1>3, <1>4, <1>6, <2>1, <2>2 DEF IInv, ReportedSound, CutOff, Kinds, Ended
  <2>14. QED
    BY <2>3, <2>4, <2>5, <2>6, <2>7, <2>8, <2>9, <2>10, <2>11, <2>12, <2>13 DEF IInv
<1>7. CASE Fails /\ UNCHANGED <<runtime, proxy_in>>
  <2>1. /\ CommandsSound' /\ Went /\ op' = NoOp /\ op'.cmd = "none" /\ op'.at = "begin"
        /\ status'[op.cmd] = "failed"
        /\ events' \in {events, events \cup {"MEDIA_ERROR"}}
    BY <1>1, <1>2, <1>7, GivesUp
  <2>2. WordSound'
    BY <1>2 DEF IInv, WordSound
  <2>3. ~resumed' => MeetingsSound'
    BY <1>2, <1>7 DEF IInv, MeetingsSound
  <2>4. TypeOK'
    BY ZenonT(60), <1>1, <1>2, <1>3, <1>4, <1>5, <1>7, <2>1 DEF IInv, TypeOK, Went, EventSet
  <2>5. PhaseSound'
    BY <1>1, <1>2, <1>3, <1>4, <1>7, <2>1 DEF IInv, PhaseSound, Commands, Went
  <2>6. StepsSound'
    BY <1>1, <1>2, <1>3, <1>4, <1>7, <2>1 DEF IInv, StepsSound, Mid, Went
  <2>7. StartSound'
    BY <1>1, <1>3, <1>4, <1>7, <2>1 DEF IInv, StartSound, Commands, Went, StepsSound
  <2>8. ~resumed' => OpSound'
    BY <1>1, <1>2, <1>3, <1>4, <1>7, <2>1 DEF IInv, OpSound, At, Running, Over, Kinds, Ending,
       active_runtime, Nonterminal, Went
  <2>9. ~resumed' => StopSound'
    BY <1>1, <1>2, <1>3, <1>4, <1>7, <2>1 DEF IInv, StopSound, Nonterminal, Commands, At,
       Kinds, Went
  <2>10. ~resumed' => WrittenSound'
    BY <1>1, <1>2, <1>3, <1>4, <1>7, <2>1 DEF IInv, WrittenSound, EndedIsWritten, Ended,
       CutOff, At, Kinds, Running, Ending, Went
  <2>11. ~resumed' => ReportedSound'
    BY <1>2, <1>3, <1>4, <1>7, <2>1 DEF IInv, ReportedSound, CutOff, Kinds, Ended, Went
  <2>12. QED
    BY <2>1, <2>2, <2>3, <2>4, <2>5, <2>6, <2>7, <2>8, <2>9, <2>10, <2>11 DEF IInv
<1>8. QED
  BY <1>6, <1>7 DEF ConnectProxy

LEMMA StartSyncStep == ASSUME IInv, StartSync PROVE IInv'
<1>1. op.cmd = "START_SYNC" /\ op.at = "begin" /\ op.cmd \in Commands
  BY DEF StartSync, At, Commands
<1>2. UNCHANGED <<phase, received, runtime, marked, transcripts, preflight, queue, mode, replay, starting,
                  status, events, life, barrier, runs, present, may_speak, recorder_in, proxy_in, resumed,
                  cancelled, changes, faults, crashes>>
  BY DEF StartSync, startup, room, counters, GoesTo
<1>3. /\ status[op.cmd] = "processing" /\ status \in [Commands -> Statuses]
      /\ runtime \in [Kinds -> [state : RuntimeState, ended : BOOLEAN]]
      /\ "proxy" \in Kinds /\ "sync" \in Kinds /\ "proxy" # "sync"
  BY <1>1, Holds
<1>4. op' = Op(op.cmd, op'.at) /\ op'.at \in {"create", "retire", "previous"}
      /\ (op'.at = "create" <=> runtime["proxy"].state = "none" \/ runtime["proxy"].ended)
      /\ (op'.at = "retire" => runtime["proxy"].state = "HANDING_OFF")
      /\ (op'.at = "previous" => runtime["proxy"].state # "HANDING_OFF")
  <2>1. op' = Op(op.cmd, IF runtime["proxy"].state = "none" \/ runtime["proxy"].ended THEN "create"
              ELSE IF runtime["proxy"].state = "HANDING_OFF" THEN "retire" ELSE "previous")
    BY DEF StartSync, GoesTo
  <2>2. QED
    BY <2>1 DEF Op
<1>5. CommandsSound' /\ Went /\ op'.cmd = op.cmd
  BY <1>1, <1>2, <1>4, Continues DEF Steps
<1>6. ~resumed =>
         /\ op'.at = "previous" => runtime["proxy"].state \in Running
         /\ op'.at = "retire" => life = "none"
  <2>1. /\ runtime["proxy"].state \in RuntimeState /\ life \in {"proxy", "sync", "none"}
        /\ "none" # "HANDING_OFF"
    BY <1>3 DEF IInv, TypeOK, Kinds
  <2>2. ~resumed /\ op'.at = "previous" => runtime["proxy"].state \in Running
    BY <1>3, <1>4, <2>1 DEF IInv, RuntimeState, MeetingsSound, Over, Running
  <2>3. ~resumed /\ op'.at = "retire" => life = "none"
    BY <1>3, <1>4, <2>1 DEF IInv, MeetingsSound, Running, Over
  <2>4. QED
    BY <2>2, <2>3
<1>7. ~resumed /\ status["STOP"] = "completed" => op'.at = "create"
  BY <1>3, <1>4 DEF IInv, TypeOK, RuntimeState, MeetingsSound, StopSound, Over, Nonterminal
<1>8. PhaseSound' /\ WordSound' /\ StartSound'
  BY <1>2 DEF IInv, PhaseSound, WordSound, StartSound
<1>9. ~resumed' => MeetingsSound' /\ ReportedSound'
  BY <1>2 DEF IInv, MeetingsSound, ReportedSound, CutOff
<1>10. TypeOK'
  BY ZenonT(60), <1>1, <1>2, <1>3, <1>4, <1>5, <1>6, <1>7 DEF IInv, TypeOK, Went
<1>11. StepsSound'
  BY <1>1, <1>2, <1>3, <1>4, <1>5, <1>6, <1>7 DEF IInv, StepsSound, Mid, Went
<1>12. ~resumed' => OpSound'
  BY <1>1, <1>2, <1>3, <1>4, <1>5, <1>6, <1>7 DEF IInv, OpSound, At, Running, Over, Kinds,
     Ending, active_runtime, Nonterminal, Went
<1>13. ~resumed' => StopSound'
  BY <1>1, <1>2, <1>3, <1>4, <1>5, <1>6, <1>7 DEF IInv, StopSound, Nonterminal, Commands, At,
     Kinds, Went
<1>14. ~resumed' => WrittenSound'
  BY <1>1, <1>2, <1>3, <1>4, <1>5, <1>6, <1>7 DEF IInv, WrittenSound, EndedIsWritten, Ended,
     CutOff, At, Kinds, Running, Ending, Went
<1>15. QED
  BY <1>5, <1>8, <1>9, <1>10, <1>11, <1>12, <1>13, <1>14 DEF IInv

LEMMA FinalizePreviousStep == ASSUME IInv, FinalizePrevious PROVE IInv'
<1>1. op.cmd = "START_SYNC" /\ op.at = "previous" /\ op.cmd \in Commands
  BY DEF FinalizePrevious, At, Commands
<1>2. /\ UNCHANGED <<phase, received, marked, preflight, queue, mode, replay, starting, barrier, runs>>
      /\ UNCHANGED <<present, may_speak, resumed, cancelled, changes, crashes>>
      /\ life' = "none"
  BY DEF FinalizePrevious, startup, room, counters, Finalized, FinalizeFails, Fault, Disconnect
<1>3. /\ status[op.cmd] = "processing" /\ status \in [Commands -> Statuses]
      /\ runtime \in [Kinds -> [state : RuntimeState, ended : BOOLEAN]]
      /\ "proxy" \in Kinds /\ "sync" \in Kinds /\ "proxy" # "sync"
      /\ phase \in {"SYNC_MEETING", "TERMINATED"}
  BY <1>1, Holds
<1>4. ~resumed => runtime["proxy"].state \in Running /\ status["STOP"] # "completed"
                  /\ runtime["sync"].state = "none"
  <2>1. ~resumed => runtime["proxy"].state \in Running
    BY <1>1 DEF IInv, OpSound, At
  <2>2. ~resumed => status["STOP"] # "completed"
    BY <1>1 DEF IInv, StopSound, At
  <2>3. QED
    BY <1>3, <2>1, <2>2 DEF IInv, MeetingsSound, Over, Running
<1>5. faults' \in 0 .. MaxFaults
  BY Counted DEF FinalizePrevious, FinalizeFails
<1>6. CASE Finalized /\ GoesTo("retire") /\ UNCHANGED <<runtime, room, counters>>
  <2>1. /\ transcripts' = transcripts \cup ({life} \ {"none"}) /\ op' = Op(op.cmd, "retire")
        /\ UNCHANGED <<status, events, runtime, recorder_in, proxy_in>>
    BY <1>6 DEF Finalized, GoesTo, room
  <2>2. CommandsSound' /\ Went /\ op'.cmd = op.cmd /\ op'.at = "retire"
    BY <1>1, <1>2, <2>1, Continues DEF Steps
  <2>3. transcripts' \subseteq Kinds
    BY <2>1 DEF IInv, TypeOK
  <2>4. PhaseSound' /\ WordSound' /\ StartSound'
    BY <1>2, <1>6, <2>1 DEF IInv, PhaseSound, WordSound, StartSound
  <2>5. ~resumed' => ReportedSound'
    BY <1>2, <1>6, <2>1 DEF IInv, ReportedSound, CutOff
  <2>6. TypeOK'
    BY <1>1, <1>2, <1>3, <1>4, <1>5, <1>6, <2>1, <2>2, <2>3 DEF IInv, TypeOK, Went
  <2>7. StepsSound'
    BY <1>1, <1>2, <1>3, <1>4, <1>6, <2>1, <2>2 DEF IInv, StepsSound, Mid, Went
  <2>8. ~resumed' => MeetingsSound'
    BY <1>2, <1>3, <1>4, <1>6, <2>1 DEF IInv, MeetingsSound, Over, Running, Kinds
  <2>9. ~resumed' => OpSound'
    BY <1>1, <1>2, <1>3, <1>4, <1>6, <2>1, <2>2 DEF IInv, OpSound, At, Running, Over, Kinds,
       Ending, active_runtime, Nonterminal, Went
  <2>10. ~resumed' => StopSound'
    BY <1>1, <1>2, <1>3, <1>4, <1>6, <2>1, <2>2 DEF IInv, StopSound, Nonterminal, Commands, At,
       Kinds, Went
  <2>11. ~resumed' => WrittenSound'
    BY <1>1, <1>2, <1>3, <1>4, <1>6, <2>1, <2>2, <2>3 DEF IInv, WrittenSound, EndedIsWritten,
       Ended, CutOff, At, Kinds, Running, Ending, Went
  <2>12. QED
    BY <2>2, <2>4, <2>5, <2>6, <2>7, <2>8, <2>9, <2>10, <2>11 DEF IInv
<1>7. CASE FinalizeFails /\ SetState("proxy", "ERROR", TRUE) /\ Disconnect /\ Fails
  <2>1. /\ transcripts' \in {transcripts, transcripts \cup {life}} /\ life # "none"
        /\ recorder_in' = FALSE /\ proxy_in' = FALSE
    BY <1>7 DEF FinalizeFails, Disconnect
  <2>2. /\ CommandsSound' /\ Went /\ op' = NoOp /\ op'.cmd = "none" /\ op'.at = "begin"
        /\ status'[op.cmd] = "failed"
        /\ events' \in {events, events \cup {"MEDIA_ERROR"}}
    BY <1>1, <1>2, <1>7, GivesUp
  <2>3. /\ runtime' \in [Kinds -> [state : RuntimeState, ended : BOOLEAN]]
        /\ runtime'["proxy"].state = "ERROR" /\ runtime'["proxy"].ended
        /\ runtime'["sync"] = runtime["sync"]
    <3>1. SetState("proxy", "ERROR", TRUE)
      BY <1>7
    <3>2. TypeOK /\ "ERROR" \in RuntimeState /\ TRUE \in BOOLEAN
      BY DEF IInv, RuntimeState
    <3>3. "sync" \in Kinds \ {"proxy"} /\ "proxy" \in Kinds
      BY <1>3
    <3>4. QED
      BY <3>1, <3>2, <3>3, SetStateWrites
  <2>4. transcripts' \subseteq Kinds
    BY <2>1 DEF IInv, TypeOK
  <2>5. Mid = Idle /\ \A x \in Runners : runs[x].at # "idle" => runs[x].policy # "sync"
    BY <1>1, NoSyncRun
  <2>6. ~resumed => ~marked /\ barrier # "proxy"
                    /\ \A x \in Runners : runs[x].at # "idle" => runs[x].runtime # "proxy"
    BY <1>4 DEF IInv, MeetingsSound, Running
  <2>7. WordSound'
    BY <1>2 DEF IInv, WordSound
  <2>8. TypeOK'
    BY <1>1, <1>2, <1>3, <1>4, <1>5, <1>7, <2>1, <2>2, <2>3, <2>4, <2>5, <2>6 DEF IInv, TypeOK,
       Went, EventSet
  <2>9. PhaseSound'
    BY <1>1, <1>2, <1>3, <1>4, <1>7, <2>2, <2>3, <2>6 DEF IInv, PhaseSound, Commands, Went
  <2>10. StepsSound'
    BY <1>1, <1>2, <1>3, <1>4, <1>7, <2>2, <2>3, <2>5, <2>6 DEF IInv, StepsSound, Mid, Went
  <2>11. StartSound'
    BY <1>1, <1>3, <1>4, <1>7, <2>2, <2>3, <2>6 DEF IInv, StartSound, Commands, Went
  <2>12. ~resumed' => MeetingsSound'
    BY <1>2, <1>3, <1>4, <1>7, <2>1, <2>3, <2>5, <2>6 DEF IInv, MeetingsSound, Over, Running,
       Kinds
  <2>13. ~resumed' => OpSound'
    BY <1>1, <1>2, <1>3, <1>4, <1>7, <2>1, <2>2, <2>3, <2>6 DEF IInv, OpSound, At, Running,
       Over, Kinds, Ending, active_runtime, Nonterminal, Went
  <2>14. ~resumed' => StopSound'
    BY <1>1, <1>2, <1>3, <1>4, <1>7, <2>1, <2>2, <2>3, <2>6 DEF IInv, StopSound, Nonterminal,
       Commands, At, Kinds, Went
  <2>15. ~resumed' => WrittenSound'
    BY <1>1, <1>2, <1>3, <1>4, <1>7, <2>1, <2>2, <2>3, <2>4, <2>6 DEF IInv, WrittenSound,
       EndedIsWritten, Ended, CutOff, At, Kinds, Running, Ending, Went
  <2>16. ~resumed' => ReportedSound'
    BY <1>2, <1>3, <1>4, <1>7, <2>2, <2>3, <2>6 DEF IInv, ReportedSound, CutOff, Kinds, Ended,
       Went
  <2>17. QED
    BY <2>2, <2>7, <2>8, <2>9, <2>10, <2>11, <2>12, <2>13, <2>14, <2>15, <2>16 DEF IInv
<1>8. QED
  BY <1>6, <1>7 DEF FinalizePrevious

LEMMA RetirePreviousStep == ASSUME IInv, RetirePrevious PROVE IInv'
<1>1. op.cmd = "START_SYNC" /\ op.at = "retire" /\ op.cmd \in Commands
  BY DEF RetirePrevious, At, Commands
<1>2. /\ UNCHANGED <<phase, status, received, marked, transcripts, preflight, queue, mode, replay, starting,
                     life, barrier, runs, present, may_speak, recorder_in>>
      /\ UNCHANGED <<resumed, cancelled, changes, faults, crashes>>
      /\ proxy_in' = FALSE /\ op' = Op(op.cmd, "create") /\ events' = events \cup {"MEETING_ENDED proxy"}
  BY DEF RetirePrevious, startup, counters, DisconnectProxy, write_runtime_event, Ended
<1>3. /\ status[op.cmd] = "processing" /\ status \in [Commands -> Statuses]
      /\ runtime \in [Kinds -> [state : RuntimeState, ended : BOOLEAN]]
      /\ "proxy" \in Kinds /\ "sync" \in Kinds /\ "proxy" # "sync"
      /\ phase \in {"SYNC_MEETING", "TERMINATED"}
  BY <1>1, Holds
<1>4. CommandsSound' /\ Went /\ op'.cmd = op.cmd /\ op'.at = "create"
  BY <1>1, <1>2, Continues DEF Steps
<1>5. /\ runtime' \in [Kinds -> [state : RuntimeState, ended : BOOLEAN]]
      /\ runtime'["proxy"].state = "STOPPED" /\ runtime'["proxy"].ended
      /\ runtime'["sync"] = runtime["sync"]
  BY <1>3, SetStateWrites DEF IInv, RuntimeState, RetirePrevious, write_runtime_event
<1>6. ~resumed => status["STOP"] # "completed"
  BY <1>1 DEF IInv, StopSound, At
<1>7. ~resumed => life = "none"
  BY <1>1 DEF IInv, OpSound, At
<1>8. ~resumed /\ crashes = 0 => "proxy" \in transcripts \/ cancelled
  BY <1>1 DEF IInv, WrittenSound, At
<1>9. WordSound'
  BY <1>2 DEF IInv, WordSound
<1>10. TypeOK'
  BY <1>1, <1>2, <1>3, <1>4, <1>5, <1>6, <1>7, <1>8 DEF IInv, TypeOK, Went, EventSet
<1>11. PhaseSound'
  BY <1>1, <1>2, <1>3, <1>4, <1>5, <1>6 DEF IInv, PhaseSound, Commands, Went
<1>12. StepsSound'
  BY <1>1, <1>2, <1>3, <1>4, <1>5 DEF IInv, StepsSound, Mid, Went
<1>13. StartSound'
  BY <1>1, <1>2, <1>3, <1>4, <1>5, <1>6 DEF IInv, StartSound, Commands, Went
<1>14. ~resumed' => MeetingsSound'
  BY <1>2, <1>3, <1>5, <1>6, <1>7, <1>8 DEF IInv, MeetingsSound, Over, Running, Kinds
<1>15. ~resumed' => OpSound'
  BY <1>1, <1>2, <1>3, <1>4, <1>5, <1>6, <1>7, <1>8 DEF IInv, OpSound, At, Running, Over,
     Kinds, Ending, active_runtime, Nonterminal, Went
<1>16. ~resumed' => StopSound'
  BY <1>1, <1>2, <1>3, <1>4, <1>5, <1>6, <1>7, <1>8 DEF IInv, StopSound, Nonterminal, Commands,
     At, Kinds, Went
<1>17. ~resumed' => WrittenSound'
  BY <1>1, <1>2, <1>3, <1>4, <1>5, <1>6, <1>7, <1>8 DEF IInv, WrittenSound, EndedIsWritten,
     Ended, CutOff, At, Kinds, Running, Ending, Went
<1>18. ~resumed' => ReportedSound'
  BY <1>2, <1>3, <1>5, <1>6, <1>7, <1>8 DEF IInv, ReportedSound, CutOff, Kinds, Ended
<1>19. QED
  BY <1>4, <1>9, <1>10, <1>11, <1>12, <1>13, <1>14, <1>15, <1>16, <1>17, <1>18 DEF IInv

LEMMA CreateSyncStep == ASSUME IInv, CreateSync PROVE IInv'
<1>1. op.cmd = "START_SYNC" /\ op.at = "create" /\ op.cmd \in Commands
  BY DEF CreateSync, At, Commands
<1>2. /\ UNCHANGED <<phase, received, marked, transcripts, preflight, queue, mode, replay, starting, runs>>
      /\ UNCHANGED <<present, may_speak, recorder_in, proxy_in, cancelled, changes, faults, crashes>>
      /\ barrier' = "none"
  BY DEF CreateSync, startup, room
<1>3. /\ status[op.cmd] = "processing" /\ status \in [Commands -> Statuses]
      /\ runtime \in [Kinds -> [state : RuntimeState, ended : BOOLEAN]]
      /\ "proxy" \in Kinds /\ "sync" \in Kinds /\ "proxy" # "sync"
      /\ phase \in {"SYNC_MEETING", "TERMINATED"} /\ mode # "reconciling"
  BY <1>1, Holds
<1>4. ~resumed => runtime["proxy"].state = "none" \/ runtime["proxy"].ended
  BY <1>1 DEF IInv, OpSound, At
<1>5. CASE runtime["sync"].state = "ACTIVE"
  <2>1. /\ SetState("sync", "ACTIVE", FALSE) /\ events' = events \cup {"MEDIA_READY sync"}
        /\ Completes /\ UNCHANGED <<life, resumed>>
    BY <1>5 DEF CreateSync, write_runtime_event, Ready
  <2>2. runtime' = runtime
    BY <1>3, <1>5, <2>1 DEF SetState
  <2>3. /\ CommandsSound' /\ Went /\ op' = NoOp /\ op'.cmd = "none" /\ op'.at = "begin"
        /\ status'[op.cmd] = "completed"
    BY <1>1, <1>2, <2>1, Finishes
  <2>4. Mid = Idle /\ \A x \in Runners : runs[x].at # "idle" => runs[x].policy # "sync"
    BY <1>1, NoSyncRun
  <2>5. ~resumed' => ReportedSound'
    BY <1>2, <2>1, <2>2 DEF IInv, ReportedSound, CutOff
  <2>6. TypeOK'
    BY <1>1, <1>2, <1>3, <1>4, <1>5, <2>1, <2>2, <2>3, <2>4 DEF IInv, TypeOK, Went, EventSet
  <2>7. PhaseSound'
    BY <1>1, <1>2, <1>3, <1>4, <1>5, <2>2, <2>3 DEF IInv, PhaseSound, Commands, Went
  <2>8. StepsSound'
    BY <1>1, <1>2, <1>3, <1>4, <1>5, <2>1, <2>2, <2>3, <2>4 DEF IInv, StepsSound, Mid, Went
  <2>9. WordSound'
    BY <1>2, <1>3, <1>5, <2>4 DEF IInv, WordSound
  <2>10. StartSound'
    BY <1>1, <1>3, <1>4, <1>5, <2>2, <2>3 DEF IInv, StartSound, Commands, Went
  <2>11. ~resumed' => MeetingsSound'
    BY <1>2, <1>3, <1>4, <1>5, <2>1, <2>2, <2>4 DEF IInv, MeetingsSound, Over, Running, Kinds
  <2>12. ~resumed' => OpSound'
    BY <1>1, <1>2, <1>3, <1>4, <1>5, <2>1, <2>2, <2>3 DEF IInv, OpSound, At, Running, Over,
       Kinds, Ending, active_runtime, Nonterminal, Went
  <2>13. ~resumed' => StopSound'
    BY <1>1, <1>2, <1>3, <1>4, <1>5, <2>1, <2>2, <2>3 DEF IInv, StopSound, Nonterminal,
       Commands, At, Kinds, Went
  <2>14. ~resumed' => WrittenSound'
    BY <1>1, <1>2, <1>3, <1>4, <1>5, <2>1, <2>2, <2>3 DEF IInv, WrittenSound, EndedIsWritten,
       Ended, CutOff, At, Kinds, Running, Ending, Went
  <2>15. QED
    BY <2>3, <2>5, <2>6, <2>7, <2>8, <2>9, <2>10, <2>11, <2>12, <2>13, <2>14 DEF IInv
<1>6. CASE runtime["sync"].state # "ACTIVE"
  <2>1. /\ get_or_create_runtime("sync") /\ op' = Op(op.cmd, "recorder") /\ UNCHANGED <<status, events>>
        /\ resumed' = (resumed \/ runtime["sync"].state \notin {"none", "PREPARING"}
                          \/ status["STOP"] = "completed")
        /\ life' = IF life = "none" THEN "sync" ELSE life
    BY <1>6 DEF CreateSync, Resumes, start_session, GoesTo
  <2>2. CommandsSound' /\ Went /\ op'.cmd = op.cmd /\ op'.at = "recorder"
    BY <1>1, <1>2, <2>1, Continues DEF Steps
  <2>3. /\ runtime' \in [Kinds -> [state : RuntimeState, ended : BOOLEAN]]
        /\ runtime'["proxy"] = runtime["proxy"]
        /\ IF runtime["sync"].state = "none"
           THEN runtime'["sync"].state = "PREPARING" /\ runtime'["sync"].ended = runtime["sync"].ended
           ELSE runtime'["sync"] = runtime["sync"]
    <3>1. CASE runtime["sync"].state = "none"
      <4>1. SetState("sync", "PREPARING", FALSE)
        BY <2>1, <3>1 DEF get_or_create_runtime
      <4>2. QED
        BY ZenonT(60), <1>1, <1>3, <3>1, <4>1, SetStateWrites DEF IInv, RuntimeState
    <3>2. CASE runtime["sync"].state # "none"
      BY <1>1, <1>3, <2>1, <3>2 DEF get_or_create_runtime
    <3>3. QED
      BY <3>1, <3>2
  <2>4. resumed' \in BOOLEAN /\ (~resumed' => ~resumed /\ runtime["sync"].state \in {"none", "PREPARING"}
                                            /\ status["STOP"] # "completed")
    BY <2>1 DEF IInv, TypeOK
  <2>5. ~resumed' => life' = "sync"
    BY <1>3, <1>4, <2>1, <2>4 DEF IInv, TypeOK, MeetingsSound, Kinds, Over, Running
  <2>6. runtime["proxy"].state = "none" => status["START_PROXY"] = "none"
    <3>1. status["START_PROXY"] \notin {"accepted", "processing"}
      BY <1>1, <1>3 DEF IInv, CommandsSound, Commands
    <3>2. status["START_PROXY"] \in Statuses
      BY <1>3 DEF Commands
    <3>3. QED
      BY <3>1, <3>2 DEF IInv, StartSound, Statuses
  <2>7. TypeOK'
    BY <1>1, <1>2, <1>3, <1>4, <1>6, <2>1, <2>2, <2>3, <2>4, <2>5, <2>6 DEF IInv, TypeOK, Went
  <2>8. PhaseSound'
    BY <1>1, <1>2, <1>3, <1>4, <1>6, <2>1, <2>2, <2>3, <2>4, <2>6 DEF IInv, PhaseSound,
       Commands, Went
  <2>9. StepsSound'
    BY <1>1, <1>2, <1>3, <1>4, <1>6, <2>1, <2>2, <2>3, <2>4, <2>6 DEF IInv, StepsSound, Mid, Went
  <2>10. WordSound'
    BY <1>2, <1>3, <1>6 DEF IInv, WordSound
  <2>11. StartSound'
    BY <1>1, <1>3, <1>4, <1>6, <2>1, <2>2, <2>3, <2>4, <2>6 DEF IInv, StartSound, Commands, Went
  <2>12. ~resumed' => MeetingsSound'
    BY <1>2, <1>3, <1>4, <1>6, <2>1, <2>3, <2>4, <2>5, <2>6 DEF IInv, MeetingsSound, Over,
       Running, Kinds
  <2>13. ~resumed' => OpSound'
    BY <1>1, <1>2, <1>3, <1>4, <1>6, <2>1, <2>2, <2>3, <2>4, <2>5, <2>6 DEF IInv, OpSound, At,
       Running, Over, Kinds, Ending, active_runtime, Nonterminal, Went
  <2>14. ~resumed' => StopSound'
    BY <1>1, <1>2, <1>3, <1>4, <1>6, <2>1, <2>2, <2>3, <2>4, <2>5, <2>6 DEF IInv, StopSound,
       Nonterminal, Commands, At, Kinds, Went
  <2>15. ~resumed' => WrittenSound'
    BY <1>1, <1>2, <1>3, <1>4, <1>6, <2>1, <2>2, <2>3, <2>4, <2>5, <2>6 DEF IInv, WrittenSound,
       EndedIsWritten, Ended, CutOff, At, Kinds, Running, Ending, Went
  <2>16. ~resumed' => ReportedSound'
    BY <1>2, <1>3, <1>4, <1>6, <2>1, <2>3, <2>4, <2>5, <2>6 DEF IInv, ReportedSound, CutOff,
       Kinds, Ended
  <2>17. QED
    BY <2>2, <2>7, <2>8, <2>9, <2>10, <2>11, <2>12, <2>13, <2>14, <2>15, <2>16 DEF IInv
<1>7. QED
  BY <1>5, <1>6

LEMMA SyncAppliedStep == ASSUME IInv, SyncApplied PROVE IInv'
<1>1. /\ runs["op"].at = "update" /\ runs["op"].policy = "sync" /\ "op" \in Runners
      /\ runs' = [runs EXCEPT !["op"] = Idle]
  BY DEF SyncApplied, Applied, Under, Runners
<1>2. /\ UNCHANGED <<phase, received, marked, transcripts, preflight, queue, mode, replay, life, barrier>>
      /\ UNCHANGED <<present, may_speak, recorder_in, proxy_in, resumed, cancelled, changes, faults, crashes>>
  BY DEF SyncApplied, room, counters
<1>3. op.at = "policy" /\ (op.cmd = "START_SYNC" \/ (op.cmd = "reconcile" /\ starting = {"sync"}))
  <2>1. op.at = "policy"
    BY <1>1, NoSyncRun
  <2>2. QED
    BY <1>1, <2>1 DEF IInv, StepsSound
<1>4. /\ runtime \in [Kinds -> [state : RuntimeState, ended : BOOLEAN]] /\ runtime["sync"].state # "none"
      /\ "proxy" \in Kinds /\ "sync" \in Kinds /\ "proxy" # "sync"
  BY <1>3 DEF IInv, TypeOK, StepsSound, Kinds
<1>5. /\ runs' \in [Runners -> {Idle} \cup RunSet] /\ runs'["op"] = Idle /\ runs'["op"].at = "idle"
      /\ \A o \in Runners \ {"op"} : runs'[o] = runs[o]
  BY <1>1, RunEnds
<1>6. ~resumed => status["STOP"] # "completed"
  BY <1>3 DEF IInv, StopSound, At
<1>7. CASE op.cmd = "START_SYNC"
  <2>1. /\ write_runtime_event("sync", "ACTIVE", FALSE, Ready("sync")) /\ Completes
        /\ UNCHANGED starting /\ op.cmd \in Commands
    BY <1>7 DEF SyncApplied, Commands
  <2>2. SetState("sync", "ACTIVE", FALSE) /\ events' = events \cup {"MEDIA_READY sync"}
    BY <2>1 DEF write_runtime_event, Ready
  <2>3. /\ CommandsSound' /\ Went /\ op' = NoOp /\ op'.cmd = "none" /\ op'.at = "begin"
        /\ status'[op.cmd] = "completed"
    BY <1>2, <2>1, Finishes
  <2>4. /\ runtime' \in [Kinds -> [state : RuntimeState, ended : BOOLEAN]]
        /\ runtime'["sync"].state = "ACTIVE" /\ (runtime'["sync"].ended <=> runtime["sync"].ended)
        /\ runtime'["proxy"] = runtime["proxy"]
    BY <1>4, <2>2, SetStateWrites DEF IInv, RuntimeState
  <2>5. phase \in {"SYNC_MEETING", "TERMINATED"}
    BY <1>7, <2>1, Holds
  <2>6. ~resumed => /\ runtime["sync"].state = "PREPARING"
                    /\ runtime["proxy"].state = "none" \/ runtime["proxy"].ended
    BY <1>3, <1>7 DEF IInv, OpSound, At
  <2>7. starting = {}
    BY <1>7, <2>1, Holds DEF IInv, CommandsSound
  <2>8. TypeOK'
    BY ZenonT(60), <1>1, <1>2, <1>3, <1>4, <1>5, <1>6, <1>7, <2>1, <2>2, <2>3, <2>4, <2>5, <2>6,
       <2>7 DEF IInv, TypeOK, Went, EventSet
  <2>9. PhaseSound'
    BY <1>1, <1>2, <1>3, <1>4, <1>5, <1>6, <1>7, <2>1, <2>3, <2>4, <2>5, <2>6 DEF IInv,
       PhaseSound, Commands, Went
  <2>10. StepsSound'
    BY <1>1, <1>3, <1>4, <1>5, <1>7, <2>1, <2>2, <2>3, <2>4, <2>6, <2>7 DEF IInv, StepsSound,
       Mid, Went
  <2>11. WordSound'
    BY <1>1, <1>2, <1>5, <1>7, <2>5 DEF IInv, WordSound
  <2>12. StartSound'
    BY <1>1, <1>3, <1>4, <1>5, <1>6, <1>7, <2>1, <2>3, <2>4, <2>6 DEF IInv, StartSound,
       Commands, Went
  <2>13. ~resumed' => MeetingsSound'
    BY <1>1, <1>2, <1>3, <1>4, <1>5, <1>6, <1>7, <2>1, <2>4, <2>6, <2>7 DEF IInv,
       MeetingsSound, Over, Running, Kinds
  <2>14. ~resumed' => OpSound'
    BY <1>1, <1>2, <1>3, <1>4, <1>5, <1>6, <1>7, <2>1, <2>3, <2>4, <2>6 DEF IInv, OpSound, At,
       Running, Over, Kinds, Ending, active_runtime, Nonterminal, Went
  <2>15. ~resumed' => StopSound'
    BY <1>1, <1>2, <1>3, <1>4, <1>5, <1>6, <1>7, <2>1, <2>3, <2>4, <2>6, <2>7 DEF IInv,
       StopSound, Nonterminal, Commands, At, Kinds, Went
  <2>16. ~resumed' => WrittenSound'
    BY <1>1, <1>2, <1>3, <1>4, <1>5, <1>6, <1>7, <2>1, <2>2, <2>3, <2>4, <2>6 DEF IInv,
       WrittenSound, EndedIsWritten, Ended, CutOff, At, Kinds, Running, Ending, Went
  <2>17. ~resumed' => ReportedSound'
    BY <1>2, <1>4, <1>6, <1>7, <2>2, <2>4, <2>5, <2>6 DEF IInv, ReportedSound, CutOff, Kinds,
       Ended
  <2>18. QED
    BY <2>3, <2>8, <2>9, <2>10, <2>11, <2>12, <2>13, <2>14, <2>15, <2>16, <2>17 DEF IInv
<1>8. CASE op.cmd = "reconcile"
  <2>1. /\ op' = Op("reconcile", "begin") /\ starting' = starting \ {"sync"} /\ UNCHANGED status
    BY <1>8 DEF SyncApplied, Rebuilt
  <2>2. /\ CommandsSound' /\ op' \in [cmd : Commands \cup {"reconcile"}, at : Steps]
        /\ op'.cmd = "reconcile" /\ op'.at = "begin" /\ mode = "reconciling" /\ crashes # 0
        /\ starting' \subseteq Kinds
    BY <1>2, <1>8, <2>1, Rebuilds DEF Steps
  <2>3. starting' = {}
    BY <1>3, <1>8, <2>1 DEF Commands
  <2>4. CASE runtime["sync"].state \in {"PREPARING", "ACTIVE"}
    <3>1. SetState("sync", "ACTIVE", FALSE) /\ events' = events \cup {"MEDIA_READY sync"}
      BY <1>8, <2>4 DEF SyncApplied, write_runtime_event, Ready
    <3>2. /\ runtime' \in [Kinds -> [state : RuntimeState, ended : BOOLEAN]]
          /\ runtime'["sync"].state = "ACTIVE" /\ (runtime'["sync"].ended <=> runtime["sync"].ended)
          /\ runtime'["proxy"] = runtime["proxy"]
      BY <1>4, <3>1, SetStateWrites DEF IInv, RuntimeState
    <3>3. TypeOK'
      BY <1>1, <1>2, <1>3, <1>4, <1>5, <1>6, <1>8, <2>1, <2>2, <2>3, <2>4, <3>1, <3>2 DEF IInv,
         TypeOK, EventSet
    <3>4. PhaseSound'
      BY <1>1, <1>2, <1>3, <1>4, <1>5, <1>6, <1>8, <2>1, <2>2, <2>4, <3>2 DEF IInv, PhaseSound,
         Commands
    <3>5. StepsSound'
      BY <1>1, <1>3, <1>4, <1>5, <1>8, <2>1, <2>2, <2>3, <2>4, <3>1, <3>2 DEF IInv, StepsSound,
         Mid
    <3>6. WordSound'
      BY <1>1, <1>2, <1>5, <1>8, <2>4 DEF IInv, WordSound
    <3>7. StartSound'
      BY <1>1, <1>3, <1>4, <1>5, <1>6, <1>8, <2>1, <2>2, <2>4, <3>2 DEF IInv, StartSound, Commands
    <3>8. ~resumed' => MeetingsSound'
      BY <1>1, <1>2, <1>3, <1>4, <1>5, <1>6, <1>8, <2>1, <2>2, <2>3, <2>4, <3>2 DEF IInv,
         MeetingsSound, Over, Running, Kinds
    <3>9. ~resumed' => OpSound'
      BY <1>1, <1>2, <1>3, <1>4, <1>5, <1>6, <1>8, <2>1, <2>2, <2>4, <3>2 DEF IInv, OpSound,
         At, Running, Over, Kinds, Ending, active_runtime, Nonterminal
    <3>10. ~resumed' => StopSound'
      BY <1>1, <1>2, <1>3, <1>4, <1>5, <1>6, <1>8, <2>1, <2>2, <2>3, <2>4, <3>2 DEF IInv,
         StopSound, Nonterminal, Commands, At, Kinds
    <3>11. ~resumed' => WrittenSound'
      BY <1>1, <1>2, <1>3, <1>4, <1>5, <1>6, <1>8, <2>1, <2>2, <2>4, <3>1, <3>2 DEF IInv,
         WrittenSound, EndedIsWritten, Ended, CutOff, At, Kinds, Running, Ending
    <3>12. ~resumed' => ReportedSound'
      BY <1>2, <1>4, <1>6, <1>8, <2>4, <3>1, <3>2 DEF IInv, ReportedSound, CutOff, Kinds, Ended
    <3>13. QED
      BY <2>2, <3>3, <3>4, <3>5, <3>6, <3>7, <3>8, <3>9, <3>10, <3>11, <3>12 DEF IInv
  <2>5. CASE runtime["sync"].state \notin {"PREPARING", "ACTIVE"}
    <3>1. UNCHANGED <<runtime, events>>
      BY <1>8, <2>5 DEF SyncApplied, SameState
    <3>2. PhaseSound' /\ StartSound'
      BY <1>2, <2>1, <3>1 DEF IInv, PhaseSound, StartSound
    <3>3. ~resumed' => ReportedSound'
      BY <1>2, <3>1 DEF IInv, ReportedSound, CutOff
    <3>4. TypeOK'
      BY <1>1, <1>2, <1>3, <1>4, <1>5, <1>6, <1>8, <2>1, <2>2, <2>3, <2>5, <3>1 DEF IInv, TypeOK
    <3>5. StepsSound'
      BY <1>1, <1>3, <1>4, <1>5, <1>8, <2>1, <2>2, <2>3, <2>5, <3>1 DEF IInv, StepsSound, Mid
    <3>6. WordSound'
      BY <1>1, <1>2, <1>5, <1>8, <2>5 DEF IInv, WordSound
    <3>7. ~resumed' => MeetingsSound'
      BY <1>1, <1>2, <1>3, <1>4, <1>5, <1>6, <1>8, <2>1, <2>2, <2>3, <2>5, <3>1 DEF IInv,
         MeetingsSound, Over, Running, Kinds
    <3>8. ~resumed' => OpSound'
      BY <1>1, <1>2, <1>3, <1>4, <1>5, <1>6, <1>8, <2>1, <2>2, <2>5, <3>1 DEF IInv, OpSound,
         At, Running, Over, Kinds, Ending, active_runtime, Nonterminal
    <3>9. ~resumed' => StopSound'
      BY <1>1, <1>2, <1>3, <1>4, <1>5, <1>6, <1>8, <2>1, <2>2, <2>3, <2>5, <3>1 DEF IInv,
         StopSound, Nonterminal, Commands, At, Kinds
    <3>10. ~resumed' => WrittenSound'
      BY <1>1, <1>2, <1>3, <1>4, <1>5, <1>6, <1>8, <2>1, <2>2, <2>5, <3>1 DEF IInv,
         WrittenSound, EndedIsWritten, Ended, CutOff, At, Kinds, Running, Ending
    <3>11. QED
      BY <2>2, <3>2, <3>3, <3>4, <3>5, <3>6, <3>7, <3>8, <3>9, <3>10 DEF IInv
  <2>6. QED
    BY <2>4, <2>5
<1>9. QED
  BY <1>3, <1>7, <1>8

LEMMA EndCurrentStep == ASSUME IInv, EndCurrent PROVE IInv'
<1>1. op.cmd \in {"END_PROXY", "END_SYNC"} /\ op.at = "begin" /\ op.cmd \in Commands
  BY DEF EndCurrent, At, Commands
<1>2. /\ UNCHANGED <<phase, received, marked, transcripts, preflight, queue, mode, replay, starting>>
      /\ UNCHANGED <<life, barrier, runs, present, may_speak, recorder_in, proxy_in>>
      /\ UNCHANGED <<resumed, cancelled, changes, faults, crashes>>
  BY DEF EndCurrent, startup, room, counters
<1>3. /\ status[op.cmd] = "processing" /\ status \in [Commands -> Statuses]
      /\ runtime \in [Kinds -> [state : RuntimeState, ended : BOOLEAN]]
      /\ "proxy" \in Kinds /\ "sync" \in Kinds /\ "proxy" # "sync"
  BY <1>1, Holds
<1>4. CASE Completes /\ SameState
  <2>1. UNCHANGED <<runtime, events>>
    BY <1>4 DEF SameState
  <2>2. /\ CommandsSound' /\ Went /\ op' = NoOp /\ op'.cmd = "none" /\ op'.at = "begin"
        /\ status'[op.cmd] = "completed"
    BY <1>1, <1>2, <1>4, Finishes
  <2>3. WordSound'
    BY <1>2 DEF IInv, WordSound
  <2>4. ~resumed' => MeetingsSound' /\ ReportedSound'
    BY <1>2, <2>1 DEF IInv, MeetingsSound, ReportedSound, CutOff
  <2>5. TypeOK'
    BY ZenonT(60), <1>1, <1>2, <1>3, <1>4, <2>1, <2>2 DEF IInv, TypeOK, Went
  <2>6. PhaseSound'
    BY <1>1, <1>2, <1>3, <1>4, <2>1, <2>2 DEF IInv, PhaseSound, Commands, Went
  <2>7. StepsSound'
    BY <1>1, <1>2, <1>3, <1>4, <2>1, <2>2 DEF IInv, StepsSound, Mid, Went
  <2>8. StartSound'
    BY <1>1, <1>3, <1>4, <2>1, <2>2 DEF IInv, StartSound, Commands, Went
  <2>9. ~resumed' => OpSound'
    BY <1>1, <1>2, <1>3, <1>4, <2>1, <2>2 DEF IInv, OpSound, At, Running, Over, Kinds, Ending,
       active_runtime, Nonterminal, Went
  <2>10. ~resumed' => StopSound'
    BY <1>1, <1>2, <1>3, <1>4, <2>1, <2>2 DEF IInv, StopSound, Nonterminal, Commands, At,
       Kinds, Went
  <2>11. ~resumed' => WrittenSound'
    BY <1>1, <1>2, <1>3, <1>4, <2>1, <2>2 DEF IInv, WrittenSound, EndedIsWritten, Ended,
       CutOff, At, Kinds, Running, Ending, Went
  <2>12. QED
    BY <2>2, <2>3, <2>4, <2>5, <2>6, <2>7, <2>8, <2>9, <2>10, <2>11 DEF IInv
<1>5. CASE Fails /\ UNCHANGED runtime
  <2>1. /\ CommandsSound' /\ Went /\ op' = NoOp /\ op'.cmd = "none" /\ op'.at = "begin"
        /\ status'[op.cmd] = "failed"
        /\ events' \in {events, events \cup {"MEDIA_ERROR"}}
    BY <1>1, <1>2, <1>5, GivesUp
  <2>2. WordSound'
    BY <1>2 DEF IInv, WordSound
  <2>3. ~resumed' => MeetingsSound'
    BY <1>2, <1>5 DEF IInv, MeetingsSound
  <2>4. TypeOK'
    BY ZenonT(60), <1>1, <1>2, <1>3, <1>5, <2>1 DEF IInv, TypeOK, Went, EventSet
  <2>5. PhaseSound'
    BY <1>1, <1>2, <1>3, <1>5, <2>1 DEF IInv, PhaseSound, Commands, Went
  <2>6. StepsSound'
    BY <1>1, <1>2, <1>3, <1>5, <2>1 DEF IInv, StepsSound, Mid, Went
  <2>7. StartSound'
    BY <1>1, <1>3, <1>5, <2>1 DEF IInv, StartSound, Commands, Went
  <2>8. ~resumed' => OpSound'
    BY <1>1, <1>2, <1>3, <1>5, <2>1 DEF IInv, OpSound, At, Running, Over, Kinds, Ending,
       active_runtime, Nonterminal, Went
  <2>9. ~resumed' => StopSound'
    BY <1>1, <1>2, <1>3, <1>5, <2>1 DEF IInv, StopSound, Nonterminal, Commands, At, Kinds, Went
  <2>10. ~resumed' => WrittenSound'
    BY <1>1, <1>2, <1>3, <1>5, <2>1 DEF IInv, WrittenSound, EndedIsWritten, Ended, CutOff, At,
       Kinds, Running, Ending, Went
  <2>11. ~resumed' => ReportedSound'
    BY <1>2, <1>3, <1>5, <2>1 DEF IInv, ReportedSound, CutOff, Kinds, Ended, Went
  <2>12. QED
    BY <2>1, <2>2, <2>3, <2>4, <2>5, <2>6, <2>7, <2>8, <2>9, <2>10, <2>11 DEF IInv
<1>6. ASSUME NEW k \in Kinds, k = active_runtime, ~runtime[k].ended,
             ~(k = "proxy" /\ runtime[k].state = "HANDING_OFF"),
             SetState(k, "ENDING", FALSE), GoesTo("finalize")
      PROVE  IInv'
  <2>1. op' = Op(op.cmd, "finalize") /\ UNCHANGED <<status, events>>
    BY <1>6 DEF GoesTo
  <2>2. CommandsSound' /\ Went /\ op'.cmd = op.cmd /\ op'.at = "finalize"
    BY <1>1, <1>2, <2>1, Continues DEF Steps
  <2>3. /\ runtime' \in [Kinds -> [state : RuntimeState, ended : BOOLEAN]]
        /\ runtime'[k].state = "ENDING" /\ (runtime'[k].ended <=> runtime[k].ended)
        /\ \A o \in Kinds \ {k} : runtime'[o] = runtime[o]
    BY <1>6, SetStateWrites DEF IInv, RuntimeState
  <2>4. Nonterminal(k) /\ (k = "proxy" => ~Nonterminal("sync"))
    BY <1>6 DEF active_runtime, Kinds
  <2>5. runtime[k].state \in Running /\ ~runtime[k].ended
    BY <1>3, <1>6, <2>4 DEF IInv, StartSound, Nonterminal, RuntimeState, Running, Kinds
  <2>6. runtime'[Ending'].state = "ENDING"
    BY <1>3, <2>3, <2>4 DEF Ending, Nonterminal, Kinds
  <2>7. ~resumed => status["STOP"] # "completed"
    BY <2>4 DEF IInv, StopSound
  <2>8. \A o \in Kinds : runtime'[o].state = runtime[o].state
                          \/ (runtime'[o].state = "ENDING" /\ runtime[o].state # "none")
    BY <2>3, <2>5 DEF Running
  <2>9. WordSound'
    BY <1>2 DEF IInv, WordSound
  <2>10. TypeOK'
    BY ZenonT(60), <1>1, <1>2, <1>3, <1>6, <2>1, <2>2, <2>3, <2>5, <2>6, <2>7, <2>8 DEF IInv, TypeOK, Went
  <2>11. PhaseSound'
    BY <1>1, <1>2, <1>3, <1>6, <2>1, <2>2, <2>3, <2>5, <2>6, <2>7, <2>8 DEF IInv, PhaseSound,
       Commands, Went
  <2>12. StepsSound'
    BY <1>1, <1>2, <1>3, <1>6, <2>1, <2>2, <2>3, <2>5, <2>6, <2>8 DEF IInv, StepsSound, Mid, Went
  <2>13. StartSound'
    BY <1>1, <1>3, <1>6, <2>1, <2>2, <2>3, <2>5, <2>6, <2>7, <2>8 DEF IInv, StartSound,
       Commands, Went
  <2>14. ~resumed' => MeetingsSound'
    BY <1>2, <1>3, <1>6, <2>3, <2>5, <2>6, <2>7, <2>8 DEF IInv, MeetingsSound, Over, Running,
       Kinds
  <2>15. ~resumed' => OpSound'
    BY <1>1, <1>2, <1>3, <1>6, <2>1, <2>2, <2>3, <2>5, <2>6, <2>7, <2>8 DEF IInv, OpSound, At,
       Running, Over, Kinds, Ending, active_runtime, Nonterminal, Went
  <2>16. ~resumed' => StopSound'
    BY <1>1, <1>2, <1>3, <1>6, <2>1, <2>2, <2>3, <2>5, <2>6, <2>7, <2>8 DEF IInv, StopSound,
       Nonterminal, Commands, At, Kinds, Went
  <2>17. ~resumed' => WrittenSound'
    BY <1>1, <1>2, <1>3, <1>6, <2>1, <2>2, <2>3, <2>5, <2>6, <2>7, <2>8 DEF IInv, WrittenSound,
       EndedIsWritten, Ended, CutOff, At, Kinds, Running, Ending, Went
  <2>18. ~resumed' => ReportedSound'
    BY <1>2, <1>3, <1>6, <2>1, <2>3, <2>5, <2>6, <2>7, <2>8 DEF IInv, ReportedSound, CutOff,
       Kinds, Ended
  <2>19. QED
    BY <2>2, <2>9, <2>10, <2>11, <2>12, <2>13, <2>14, <2>15, <2>16, <2>17, <2>18 DEF IInv
<1>7. QED
  BY <1>4, <1>5, <1>6 DEF EndCurrent, active_runtime, Kinds

LEMMA FinalizeMeetingStep == ASSUME IInv, FinalizeMeeting PROVE IInv'
<1>1. op.cmd \in {"END_PROXY", "END_SYNC"} /\ op.at = "finalize" /\ op.cmd \in Commands
  BY DEF FinalizeMeeting, At, Commands
<1>2. /\ UNCHANGED <<phase, received, marked, preflight, queue, mode, replay, starting, runs>>
      /\ UNCHANGED <<present, may_speak, resumed, cancelled, changes, crashes>>
      /\ life' = "none"
  BY DEF FinalizeMeeting, startup, room, counters, Finalized, FinalizeFails, Fault, Disconnect
<1>3. /\ status[op.cmd] = "processing" /\ status \in [Commands -> Statuses]
      /\ runtime \in [Kinds -> [state : RuntimeState, ended : BOOLEAN]]
      /\ "proxy" \in Kinds /\ "sync" \in Kinds /\ "proxy" # "sync" /\ Ending \in Kinds
  BY <1>1, Holds DEF Ending
<1>4. ~resumed => runtime[Ending].state = "ENDING" /\ status["STOP"] # "completed"
  BY <1>1 DEF IInv, OpSound, StopSound, At
<1>5. faults' \in 0 .. MaxFaults
  BY Counted DEF FinalizeMeeting, FinalizeFails
<1>6. CASE Finalized /\ GoesTo("leave") /\ UNCHANGED <<runtime, barrier, room, counters>>
  <2>1. /\ transcripts' = transcripts \cup ({life} \ {"none"}) /\ op' = Op(op.cmd, "leave")
        /\ UNCHANGED <<status, events, runtime, barrier, recorder_in, proxy_in>>
    BY <1>6 DEF Finalized, GoesTo, room
  <2>2. CommandsSound' /\ Went /\ op'.cmd = op.cmd /\ op'.at = "leave"
    BY <1>1, <1>2, <2>1, Continues DEF Steps
  <2>3. transcripts' \subseteq Kinds /\ Ending' = Ending
    BY <2>1 DEF IInv, TypeOK, Ending
  <2>4. ~resumed /\ crashes = 0 => life = Ending
    BY <1>1, <1>3, <1>4 DEF IInv, WrittenSound, Running, Ending
  <2>5. PhaseSound' /\ WordSound' /\ StartSound'
    BY <1>2, <1>6, <2>1 DEF IInv, PhaseSound, WordSound, StartSound
  <2>6. ~resumed' => ReportedSound'
    BY <1>2, <1>6, <2>1 DEF IInv, ReportedSound, CutOff
  <2>7. TypeOK'
    BY <1>1, <1>2, <1>3, <1>4, <1>5, <1>6, <2>1, <2>2, <2>3, <2>4 DEF IInv, TypeOK, Went
  <2>8. StepsSound'
    BY <1>1, <1>2, <1>3, <1>4, <1>6, <2>1, <2>2 DEF IInv, StepsSound, Mid, Went
  <2>9. ~resumed' => MeetingsSound'
    BY <1>2, <1>3, <1>4, <1>6, <2>1, <2>4 DEF IInv, MeetingsSound, Over, Running, Kinds
  <2>10. ~resumed' => OpSound'
    BY <1>1, <1>2, <1>3, <1>4, <1>6, <2>1, <2>2, <2>4 DEF IInv, OpSound, At, Running, Over,
       Kinds, Ending, active_runtime, Nonterminal, Went
  <2>11. ~resumed' => StopSound'
    BY <1>1, <1>2, <1>3, <1>4, <1>6, <2>1, <2>2, <2>4 DEF IInv, StopSound, Nonterminal,
       Commands, At, Kinds, Went
  <2>12. ~resumed' => WrittenSound'
    BY <1>1, <1>2, <1>3, <1>4, <1>6, <2>1, <2>2, <2>3, <2>4 DEF IInv, WrittenSound,
       EndedIsWritten, Ended, CutOff, At, Kinds, Running, Ending, Went
  <2>13. QED
    BY <2>2, <2>5, <2>6, <2>7, <2>8, <2>9, <2>10, <2>11, <2>12 DEF IInv
<1>7. CASE FinalizeFails /\ SetState(Ending, "ERROR", TRUE) /\ barrier' = "none" /\ Disconnect /\ Fails
  <2>1. /\ transcripts' \in {transcripts, transcripts \cup {life}} /\ life # "none"
        /\ barrier' = "none" /\ recorder_in' = FALSE /\ proxy_in' = FALSE
    BY <1>7 DEF FinalizeFails, Disconnect
  <2>2. /\ CommandsSound' /\ Went /\ op' = NoOp /\ op'.cmd = "none" /\ op'.at = "begin"
        /\ status'[op.cmd] = "failed"
        /\ events' \in {events, events \cup {"MEDIA_ERROR"}}
    BY <1>1, <1>2, <1>7, GivesUp
  <2>3. /\ runtime' \in [Kinds -> [state : RuntimeState, ended : BOOLEAN]]
        /\ runtime'[Ending].state = "ERROR" /\ runtime'[Ending].ended
        /\ \A o \in Kinds \ {Ending} : runtime'[o] = runtime[o]
    <3>1. SetState(Ending, "ERROR", TRUE)
      BY <1>7
    <3>2. TypeOK /\ "ERROR" \in RuntimeState /\ TRUE \in BOOLEAN
      BY DEF IInv, RuntimeState
    <3>3. QED
      BY <1>3, <3>1, <3>2, SetStateWrites
  <2>4. transcripts' \subseteq Kinds
    BY <2>1 DEF IInv, TypeOK
  <2>5. Ending = "proxy" \/ (Ending = "sync" /\ runtime["sync"].state = "ENDING")
    BY DEF Ending
  <2>6. ~resumed /\ crashes = 0 => \A o \in Kinds \ {Ending} : runtime[o].state \notin Running
    BY <1>1, <1>3, <1>4, <2>5 DEF IInv, WrittenSound, Running, Kinds
  <2>7. \A o \in Kinds : runtime'[o].state \in {"STOPPED", "HANDING_OFF"} =>
                            runtime'[o].state = runtime[o].state
    BY <2>3
  <2>8. \A e \in events : e \in events'
    BY <2>2
  <2>9. TypeOK'
    BY <1>1, <1>2, <1>3, <1>4, <1>5, <1>7, <2>1, <2>2, <2>3, <2>4, <2>5, <2>6, <2>7,
       <2>8 DEF IInv, TypeOK, Went, EventSet
  <2>10. PhaseSound'
    BY <1>1, <1>2, <1>3, <1>4, <1>7, <2>2, <2>3, <2>5, <2>6, <2>7 DEF IInv, PhaseSound,
       Commands, Went
  <2>11. StepsSound'
    BY ZenonT(60), <1>1, <1>2, <1>3, <1>4, <1>7, <2>2, <2>3, <2>5, <2>6, <2>7, <2>8 DEF IInv, StepsSound,
       Mid, Went
  <2>12. WordSound'
    BY <1>2, <1>7, <2>1 DEF IInv, WordSound
  <2>13. StartSound'
    BY <1>1, <1>3, <1>4, <1>7, <2>2, <2>3, <2>5, <2>6, <2>7 DEF IInv, StartSound, Commands, Went
  <2>14. ~resumed' => MeetingsSound'
    BY <1>2, <1>3, <1>4, <1>7, <2>1, <2>3, <2>5, <2>6, <2>7 DEF IInv, MeetingsSound, Over,
       Running, Kinds
  <2>15. ~resumed' => OpSound'
    BY <1>1, <1>2, <1>3, <1>4, <1>7, <2>1, <2>2, <2>3, <2>5, <2>6, <2>7 DEF IInv, OpSound, At,
       Running, Over, Kinds, Ending, active_runtime, Nonterminal, Went
  <2>16. ~resumed' => StopSound'
    BY <1>1, <1>2, <1>3, <1>4, <1>7, <2>1, <2>2, <2>3, <2>5, <2>6, <2>7 DEF IInv, StopSound,
       Nonterminal, Commands, At, Kinds, Went
  <2>17. ~resumed' => WrittenSound'
    BY <1>1, <1>2, <1>3, <1>4, <1>7, <2>1, <2>2, <2>3, <2>4, <2>5, <2>6, <2>7, <2>8 DEF IInv,
       WrittenSound, EndedIsWritten, Ended, CutOff, At, Kinds, Running, Ending, Went
  <2>18. ~resumed' => ReportedSound'
    BY <1>2, <1>3, <1>4, <1>7, <2>7, <2>8 DEF IInv, ReportedSound, CutOff, Kinds, Ended, Went
  <2>19. QED
    BY <2>2, <2>9, <2>10, <2>11, <2>12, <2>13, <2>14, <2>15, <2>16, <2>17, <2>18 DEF IInv
<1>8. QED
  BY <1>6, <1>7 DEF FinalizeMeeting

LEMMA LeaveMeetingStep == ASSUME IInv, LeaveMeeting PROVE IInv'
<1>1. op.cmd \in {"END_PROXY", "END_SYNC"} /\ op.at = "leave" /\ op.cmd \in Commands
  BY DEF LeaveMeeting, At, Commands
<1>2. /\ UNCHANGED <<phase, received, marked, transcripts, preflight, queue, mode, replay, starting>>
      /\ UNCHANGED <<life, barrier, runs, present, may_speak>>
      /\ UNCHANGED <<resumed, cancelled, changes, faults, crashes>>
      /\ proxy_in' = FALSE /\ recorder_in' \in {recorder_in, FALSE}
  BY DEF LeaveMeeting, startup, counters, Disconnect, DisconnectProxy
<1>3. /\ status[op.cmd] = "processing" /\ status \in [Commands -> Statuses]
      /\ runtime \in [Kinds -> [state : RuntimeState, ended : BOOLEAN]]
      /\ "proxy" \in Kinds /\ "sync" \in Kinds /\ "proxy" # "sync"
  BY <1>1, Holds
<1>4. ~resumed => /\ runtime[Ending].state = "ENDING" /\ status["STOP"] # "completed" /\ life = "none"
                  /\ crashes = 0 => Ending \in transcripts
  BY <1>1 DEF IInv, OpSound, StopSound, WrittenSound, At
<1>5. /\ CommandsSound' /\ Went /\ op' = NoOp /\ op'.cmd = "none" /\ op'.at = "begin"
      /\ status'[op.cmd] = "completed"
  BY <1>1, <1>2, Finishes DEF LeaveMeeting
<1>6. CASE Ending = "proxy" /\ write_runtime_event("proxy", "HANDING_OFF", FALSE, Ended("proxy"))
  <2>1. SetState("proxy", "HANDING_OFF", FALSE) /\ events' = events \cup {"MEETING_ENDED proxy"}
    BY <1>6 DEF write_runtime_event, Ended
  <2>2. /\ runtime' \in [Kinds -> [state : RuntimeState, ended : BOOLEAN]]
        /\ runtime'["proxy"].state = "HANDING_OFF" /\ (runtime'["proxy"].ended <=> runtime["proxy"].ended)
        /\ runtime'["sync"] = runtime["sync"]
    BY <1>3, <2>1, SetStateWrites DEF IInv, RuntimeState
  <2>3. ~resumed => runtime["proxy"].state = "ENDING" /\ runtime["sync"].state = "none"
    BY <1>3, <1>4, <1>6 DEF IInv, MeetingsSound, Over
  <2>4. WordSound'
    BY <1>2 DEF IInv, WordSound
  <2>5. TypeOK'
    BY ZenonT(60), <1>1, <1>2, <1>3, <1>4, <1>5, <1>6, <2>1, <2>2, <2>3 DEF IInv, TypeOK, Went, EventSet
  <2>6. PhaseSound'
    BY <1>1, <1>2, <1>3, <1>4, <1>5, <1>6, <2>2, <2>3 DEF IInv, PhaseSound, Commands, Went
  <2>7. StepsSound'
    BY <1>1, <1>2, <1>3, <1>4, <1>5, <1>6, <2>1, <2>2, <2>3 DEF IInv, StepsSound, Mid, Went
  <2>8. StartSound'
    BY <1>1, <1>3, <1>4, <1>5, <1>6, <2>2, <2>3 DEF IInv, StartSound, Commands, Went
  <2>9. ~resumed' => MeetingsSound'
    BY <1>2, <1>3, <1>4, <1>6, <2>2, <2>3 DEF IInv, MeetingsSound, Over, Running, Kinds
  <2>10. ~resumed' => OpSound'
    BY <1>1, <1>2, <1>3, <1>4, <1>5, <1>6, <2>2, <2>3 DEF IInv, OpSound, At, Running, Over,
       Kinds, Ending, active_runtime, Nonterminal, Went
  <2>11. ~resumed' => StopSound'
    BY <1>1, <1>2, <1>3, <1>4, <1>5, <1>6, <2>2, <2>3 DEF IInv, StopSound, Nonterminal,
       Commands, At, Kinds, Went
  <2>12. ~resumed' => WrittenSound'
    BY <1>1, <1>2, <1>3, <1>4, <1>5, <1>6, <2>1, <2>2, <2>3 DEF IInv, WrittenSound,
       EndedIsWritten, Ended, CutOff, At, Kinds, Running, Ending, Went
  <2>13. ~resumed' => ReportedSound'
    BY <1>2, <1>3, <1>4, <1>6, <2>1, <2>2, <2>3 DEF IInv, ReportedSound, CutOff, Kinds, Ended
  <2>14. QED
    BY <1>5, <2>4, <2>5, <2>6, <2>7, <2>8, <2>9, <2>10, <2>11, <2>12, <2>13 DEF IInv
<1>7. CASE Ending = "sync" /\ write_runtime_event("sync", "STOPPED", TRUE, Ended("sync"))
  <2>1. SetState("sync", "STOPPED", TRUE) /\ events' = events \cup {"MEETING_ENDED sync"}
    BY <1>7 DEF write_runtime_event, Ended
  <2>2. /\ runtime' \in [Kinds -> [state : RuntimeState, ended : BOOLEAN]]
        /\ runtime'["sync"].state = "STOPPED" /\ runtime'["sync"].ended
        /\ runtime'["proxy"] = runtime["proxy"]
    BY <1>3, <2>1, SetStateWrites DEF IInv, RuntimeState
  <2>3. runtime["sync"].state = "ENDING"
    BY <1>7 DEF Ending
  <2>4. ~resumed => runtime["proxy"].state \notin Running /\ (runtime["proxy"].state \in Over \/ runtime["proxy"].state = "none")
    BY <1>3, <2>3 DEF IInv, MeetingsSound, Over, Running
  <2>5. WordSound'
    BY <1>2 DEF IInv, WordSound
  <2>6. TypeOK'
    BY ZenonT(60), <1>1, <1>2, <1>3, <1>4, <1>5, <1>7, <2>1, <2>2, <2>3, <2>4 DEF IInv, TypeOK, Went, EventSet
  <2>7. PhaseSound'
    BY <1>1, <1>2, <1>3, <1>4, <1>5, <1>7, <2>2, <2>3, <2>4 DEF IInv, PhaseSound, Commands, Went
  <2>8. StepsSound'
    BY <1>1, <1>2, <1>3, <1>4, <1>5, <1>7, <2>1, <2>2, <2>3, <2>4 DEF IInv, StepsSound, Mid, Went
  <2>9. StartSound'
    BY <1>1, <1>3, <1>4, <1>5, <1>7, <2>2, <2>3, <2>4 DEF IInv, StartSound, Commands, Went
  <2>10. ~resumed' => MeetingsSound'
    BY <1>2, <1>3, <1>4, <1>7, <2>2, <2>3, <2>4 DEF IInv, MeetingsSound, Over, Running, Kinds
  <2>11. ~resumed' => OpSound'
    BY <1>1, <1>2, <1>3, <1>4, <1>5, <1>7, <2>2, <2>3, <2>4 DEF IInv, OpSound, At, Running,
       Over, Kinds, Ending, active_runtime, Nonterminal, Went
  <2>12. ~resumed' => StopSound'
    BY <1>1, <1>2, <1>3, <1>4, <1>5, <1>7, <2>2, <2>3, <2>4 DEF IInv, StopSound, Nonterminal,
       Commands, At, Kinds, Went
  <2>13. ~resumed' => WrittenSound'
    BY <1>1, <1>2, <1>3, <1>4, <1>5, <1>7, <2>1, <2>2, <2>3, <2>4 DEF IInv, WrittenSound,
       EndedIsWritten, Ended, CutOff, At, Kinds, Running, Ending, Went
  <2>14. ~resumed' => ReportedSound'
    BY <1>2, <1>3, <1>4, <1>7, <2>1, <2>2, <2>3, <2>4 DEF IInv, ReportedSound, CutOff, Kinds,
       Ended
  <2>15. QED
    BY <1>5, <2>5, <2>6, <2>7, <2>8, <2>9, <2>10, <2>11, <2>12, <2>13, <2>14 DEF IInv
<1>8. QED
  BY <1>6, <1>7 DEF LeaveMeeting

LEMMA BeginHandoffStep == ASSUME IInv, BeginHandoff PROVE IInv'
<1>1. op.cmd = "BEGIN_HANDOFF" /\ op.at = "begin" /\ op.cmd \in Commands
  BY DEF BeginHandoff, At, Commands
<1>2. /\ UNCHANGED <<phase, received, transcripts, preflight, queue, mode, replay, starting, barrier, runs>>
      /\ UNCHANGED <<present, may_speak, recorder_in, proxy_in, resumed, changes, faults, crashes>>
  BY DEF BeginHandoff, startup, room
<1>3. /\ status[op.cmd] = "processing" /\ status \in [Commands -> Statuses]
      /\ runtime \in [Kinds -> [state : RuntimeState, ended : BOOLEAN]]
      /\ "proxy" \in Kinds /\ "sync" \in Kinds /\ "proxy" # "sync" /\ phase # "PROXY_MEETING"
  BY <1>1, Holds
<1>4. CASE Fails /\ UNCHANGED <<runtime, marked, life, cancelled>>
  <2>1. /\ CommandsSound' /\ Went /\ op' = NoOp /\ op'.cmd = "none" /\ op'.at = "begin"
        /\ status'[op.cmd] = "failed"
        /\ events' \in {events, events \cup {"MEDIA_ERROR"}}
    BY <1>1, <1>2, <1>4, GivesUp
  <2>2. WordSound'
    BY <1>2 DEF IInv, WordSound
  <2>3. ~resumed' => MeetingsSound'
    BY <1>2, <1>4 DEF IInv, MeetingsSound
  <2>4. TypeOK'
    BY ZenonT(60), <1>1, <1>2, <1>3, <1>4, <2>1 DEF IInv, TypeOK, Went, EventSet
  <2>5. PhaseSound'
    BY <1>1, <1>2, <1>3, <1>4, <2>1 DEF IInv, PhaseSound, Commands, Went
  <2>6. StepsSound'
    BY <1>1, <1>2, <1>3, <1>4, <2>1 DEF IInv, StepsSound, Mid, Went
  <2>7. StartSound'
    BY <1>1, <1>3, <1>4, <2>1 DEF IInv, StartSound, Commands, Went
  <2>8. ~resumed' => OpSound'
    BY <1>1, <1>2, <1>3, <1>4, <2>1 DEF IInv, OpSound, At, Running, Over, Kinds, Ending,
       active_runtime, Nonterminal, Went
  <2>9. ~resumed' => StopSound'
    BY <1>1, <1>2, <1>3, <1>4, <2>1 DEF IInv, StopSound, Nonterminal, Commands, At, Kinds, Went
  <2>10. ~resumed' => WrittenSound'
    BY <1>1, <1>2, <1>3, <1>4, <2>1 DEF IInv, WrittenSound, EndedIsWritten, Ended, CutOff, At,
       Kinds, Running, Ending, Went
  <2>11. ~resumed' => ReportedSound'
    BY <1>2, <1>3, <1>4, <2>1 DEF IInv, ReportedSound, CutOff, Kinds, Ended, Went
  <2>12. QED
    BY <2>1, <2>2, <2>3, <2>4, <2>5, <2>6, <2>7, <2>8, <2>9, <2>10, <2>11 DEF IInv
<1>5. CASE active_runtime # "proxy" /\ GoesTo("room") /\ UNCHANGED <<runtime, marked, life, cancelled>>
  <2>1. op' = Op(op.cmd, "room") /\ UNCHANGED <<status, events>>
    BY <1>5 DEF GoesTo
  <2>2. CommandsSound' /\ Went /\ op'.cmd = op.cmd /\ op'.at = "room"
    BY <1>1, <1>2, <2>1, Continues DEF Steps
  <2>3. PhaseSound' /\ WordSound' /\ StartSound'
    BY <1>2, <1>5, <2>1 DEF IInv, PhaseSound, WordSound, StartSound
  <2>4. ~resumed' => MeetingsSound' /\ ReportedSound'
    BY <1>2, <1>5, <2>1 DEF IInv, MeetingsSound, ReportedSound, CutOff
  <2>5. TypeOK'
    BY ZenonT(60), <1>1, <1>2, <1>3, <1>5, <2>1, <2>2 DEF IInv, TypeOK, Went
  <2>6. StepsSound'
    BY <1>1, <1>2, <1>3, <1>5, <2>1, <2>2 DEF IInv, StepsSound, Mid, Went
  <2>7. ~resumed' => OpSound'
    BY <1>1, <1>2, <1>3, <1>5, <2>1, <2>2 DEF IInv, OpSound, At, Running, Over, Kinds, Ending,
       active_runtime, Nonterminal, Went
  <2>8. ~resumed' => StopSound'
    BY <1>1, <1>2, <1>3, <1>5, <2>1, <2>2 DEF IInv, StopSound, Nonterminal, Commands, At,
       Kinds, Went
  <2>9. ~resumed' => WrittenSound'
    BY <1>1, <1>2, <1>3, <1>5, <2>1, <2>2 DEF IInv, WrittenSound, EndedIsWritten, Ended,
       CutOff, At, Kinds, Running, Ending, Went
  <2>10. QED
    BY <2>2, <2>3, <2>4, <2>5, <2>6, <2>7, <2>8, <2>9 DEF IInv
<1>6. CASE /\ active_runtime = "proxy" /\ runtime["proxy"].state = "HANDING_OFF"
           /\ mark_runtime_handoff /\ GoesTo("room") /\ UNCHANGED <<life, cancelled>>
  <2>1. op' = Op(op.cmd, "room") /\ UNCHANGED <<status, events>> /\ marked' = TRUE
    BY <1>6 DEF GoesTo, mark_runtime_handoff
  <2>2. CommandsSound' /\ Went /\ op'.cmd = op.cmd /\ op'.at = "room"
    BY <1>1, <1>2, <2>1, Continues DEF Steps
  <2>3. runtime' = runtime
    BY <1>3, <1>6 DEF mark_runtime_handoff, SetState
  <2>4. ~resumed => status["STOP"] # "completed"
    BY <1>3, <1>6 DEF IInv, StopSound, Nonterminal
  <2>5. WordSound' /\ StartSound'
    BY <1>2, <2>1, <2>3 DEF IInv, WordSound, StartSound
  <2>6. ~resumed' => ReportedSound'
    BY <1>2, <1>6, <2>1, <2>3 DEF IInv, ReportedSound, CutOff
  <2>7. TypeOK'
    BY <1>1, <1>2, <1>3, <1>6, <2>1, <2>2, <2>3, <2>4 DEF IInv, TypeOK, Went
  <2>8. PhaseSound'
    BY <1>1, <1>2, <1>3, <1>6, <2>1, <2>2, <2>3, <2>4 DEF IInv, PhaseSound, Commands, Went
  <2>9. StepsSound'
    BY <1>1, <1>2, <1>3, <1>6, <2>1, <2>2, <2>3 DEF IInv, StepsSound, Mid, Went
  <2>10. ~resumed' => MeetingsSound'
    BY <1>2, <1>3, <1>6, <2>1, <2>3, <2>4 DEF IInv, MeetingsSound, Over, Running, Kinds
  <2>11. ~resumed' => OpSound'
    BY <1>1, <1>2, <1>3, <1>6, <2>1, <2>2, <2>3, <2>4 DEF IInv, OpSound, At, Running, Over,
       Kinds, Ending, active_runtime, Nonterminal, Went
  <2>12. ~resumed' => StopSound'
    BY <1>1, <1>2, <1>3, <1>6, <2>1, <2>2, <2>3, <2>4 DEF IInv, StopSound, Nonterminal,
       Commands, At, Kinds, Went
  <2>13. ~resumed' => WrittenSound'
    BY <1>1, <1>2, <1>3, <1>6, <2>1, <2>2, <2>3, <2>4 DEF IInv, WrittenSound, EndedIsWritten,
       Ended, CutOff, At, Kinds, Running, Ending, Went
  <2>14. QED
    BY <2>2, <2>5, <2>6, <2>7, <2>8, <2>9, <2>10, <2>11, <2>12, <2>13 DEF IInv
<1>7. CASE /\ active_runtime = "proxy" /\ runtime["proxy"].state # "HANDING_OFF"
           /\ life' = "none" /\ cancelled' = TRUE
           /\ GoesTo("leave") /\ UNCHANGED <<runtime, marked>>
  <2>1. op' = Op(op.cmd, "leave") /\ UNCHANGED <<status, events>>
    BY <1>7 DEF GoesTo
  <2>2. CommandsSound' /\ Went /\ op'.cmd = op.cmd /\ op'.at = "leave"
    BY <1>1, <1>2, <2>1, Continues DEF Steps
  <2>3. Nonterminal("proxy") /\ ~Nonterminal("sync")
    BY <1>7 DEF active_runtime
  <2>4. runtime["proxy"].state \in Running /\ runtime["sync"].state \notin Running
    BY <1>3, <1>7, <2>3 DEF Nonterminal, RuntimeState, Running
  <2>5. ~resumed => status["STOP"] # "completed"
    BY <1>3, <2>3 DEF IInv, StopSound
  <2>6. PhaseSound' /\ WordSound' /\ StartSound'
    BY <1>2, <1>7, <2>1 DEF IInv, PhaseSound, WordSound, StartSound
  <2>7. TypeOK'
    BY <1>1, <1>2, <1>3, <1>7, <2>1, <2>2, <2>4, <2>5 DEF IInv, TypeOK, Went
  <2>8. StepsSound'
    BY <1>1, <1>2, <1>3, <1>7, <2>1, <2>2, <2>4 DEF IInv, StepsSound, Mid, Went
  <2>9. ~resumed' => MeetingsSound'
    BY <1>2, <1>3, <1>7, <2>4, <2>5 DEF IInv, MeetingsSound, Over, Running, Kinds
  <2>10. ~resumed' => OpSound'
    BY <1>1, <1>2, <1>3, <1>7, <2>1, <2>2, <2>4, <2>5 DEF IInv, OpSound, At, Running, Over,
       Kinds, Ending, active_runtime, Nonterminal, Went
  <2>11. ~resumed' => StopSound'
    BY <1>1, <1>2, <1>3, <1>7, <2>1, <2>2, <2>4, <2>5 DEF IInv, StopSound, Nonterminal,
       Commands, At, Kinds, Went
  <2>12. ~resumed' => WrittenSound'
    BY <1>1, <1>2, <1>3, <1>7, <2>1, <2>2, <2>4, <2>5 DEF IInv, WrittenSound, EndedIsWritten,
       Ended, CutOff, At, Kinds, Running, Ending, Went
  <2>13. ~resumed' => ReportedSound'
    BY <1>2, <1>3, <1>7, <2>1, <2>4, <2>5 DEF IInv, ReportedSound, CutOff, Kinds, Ended
  <2>14. QED
    BY <2>2, <2>6, <2>7, <2>8, <2>9, <2>10, <2>11, <2>12, <2>13 DEF IInv
<1>8. QED
  BY <1>4, <1>5, <1>6, <1>7 DEF BeginHandoff

LEMMA StopProxyStep == ASSUME IInv, StopProxy PROVE IInv'
<1>1. op.cmd = "BEGIN_HANDOFF" /\ op.at = "leave" /\ op.cmd \in Commands
  BY DEF StopProxy, At, Commands
<1>2. /\ UNCHANGED <<phase, status, events, received, transcripts, preflight, queue, mode, replay, starting>>
      /\ UNCHANGED <<life, barrier, runs, present, may_speak, recorder_in>>
      /\ UNCHANGED <<resumed, cancelled, changes, faults, crashes>>
      /\ proxy_in' = FALSE /\ marked' = TRUE /\ op' = Op(op.cmd, "room")
  BY DEF StopProxy, startup, counters, DisconnectProxy, mark_runtime_handoff, GoesTo
<1>3. /\ status[op.cmd] = "processing" /\ status \in [Commands -> Statuses]
      /\ runtime \in [Kinds -> [state : RuntimeState, ended : BOOLEAN]]
      /\ "proxy" \in Kinds /\ "sync" \in Kinds /\ "proxy" # "sync" /\ phase # "PROXY_MEETING"
  BY <1>1, Holds
<1>4. CommandsSound' /\ Went /\ op'.cmd = op.cmd /\ op'.at = "room"
  BY <1>1, <1>2, Continues DEF Steps
<1>5. /\ runtime' \in [Kinds -> [state : RuntimeState, ended : BOOLEAN]]
      /\ runtime'["proxy"].state = "HANDING_OFF" /\ (runtime'["proxy"].ended <=> runtime["proxy"].ended)
      /\ runtime'["sync"] = runtime["sync"]
  BY <1>3, SetStateWrites DEF IInv, RuntimeState, StopProxy, mark_runtime_handoff
<1>6. ~resumed => active_runtime = "proxy" /\ runtime["proxy"].state \in Running /\ cancelled
                  /\ status["STOP"] # "completed" /\ life = "none"
  BY <1>1 DEF IInv, OpSound, StopSound, At
<1>7. ~resumed => runtime["sync"].state \notin Running
                  /\ (runtime["sync"].state # "none" => FALSE)
  <2>1. active_runtime = "proxy" => runtime["sync"].state \in {"none", "STOPPED", "ERROR"}
    BY DEF active_runtime, Nonterminal
  <2>2. QED
    BY <1>3, <1>6, <2>1 DEF IInv, MeetingsSound, Running, Over
<1>8. WordSound'
  BY <1>2 DEF IInv, WordSound
<1>9. TypeOK'
  BY <1>1, <1>2, <1>3, <1>4, <1>5, <1>6, <1>7 DEF IInv, TypeOK, Went
<1>10. PhaseSound'
  BY <1>1, <1>2, <1>3, <1>4, <1>5, <1>6, <1>7 DEF IInv, PhaseSound, Commands, Went
<1>11. StepsSound'
  BY <1>1, <1>2, <1>3, <1>4, <1>5, <1>6, <1>7 DEF IInv, StepsSound, Mid, Went
<1>12. StartSound'
  BY <1>1, <1>2, <1>3, <1>4, <1>5, <1>6, <1>7 DEF IInv, StartSound, Commands, Went
<1>13. ~resumed' => MeetingsSound'
  BY <1>2, <1>3, <1>5, <1>6, <1>7 DEF IInv, MeetingsSound, Over, Running, Kinds
<1>14. ~resumed' => OpSound'
  BY <1>1, <1>2, <1>3, <1>4, <1>5, <1>6, <1>7 DEF IInv, OpSound, At, Running, Over, Kinds,
     Ending, active_runtime, Nonterminal, Went
<1>15. ~resumed' => StopSound'
  BY <1>1, <1>2, <1>3, <1>4, <1>5, <1>6, <1>7 DEF IInv, StopSound, Nonterminal, Commands, At,
     Kinds, Went
<1>16. ~resumed' => WrittenSound'
  BY <1>1, <1>2, <1>3, <1>4, <1>5, <1>6, <1>7 DEF IInv, WrittenSound, EndedIsWritten, Ended,
     CutOff, At, Kinds, Running, Ending, Went
<1>17. ~resumed' => ReportedSound'
  BY <1>2, <1>3, <1>5, <1>6, <1>7 DEF IInv, ReportedSound, CutOff, Kinds, Ended
<1>18. QED
  BY <1>4, <1>8, <1>9, <1>10, <1>11, <1>12, <1>13, <1>14, <1>15, <1>16, <1>17 DEF IInv

LEMMA SetBarrierStep == ASSUME IInv, SetBarrier PROVE IInv'
<1>1. op.cmd = "BEGIN_HANDOFF" /\ op.at = "room" /\ op.cmd \in Commands
  BY DEF SetBarrier, At, Commands
<1>2. /\ UNCHANGED <<phase, received, runtime, marked, transcripts, preflight, queue, mode, replay, starting>>
      /\ UNCHANGED <<life, present, may_speak, recorder_in, proxy_in, resumed, cancelled, changes, crashes>>
  BY DEF SetBarrier, startup, room, counters, Fault
<1>3. /\ status[op.cmd] = "processing" /\ status \in [Commands -> Statuses]
      /\ runtime \in [Kinds -> [state : RuntimeState, ended : BOOLEAN]]
      /\ "proxy" \in Kinds /\ "sync" \in Kinds /\ "proxy" # "sync" /\ phase # "PROXY_MEETING"
  BY <1>1, Holds
<1>4. faults' \in 0 .. MaxFaults
  BY Counted DEF SetBarrier
<1>5. CASE /\ barrier' = IF barrier # "none" THEN barrier
                         ELSE IF active_runtime = "proxy" THEN "proxy" ELSE "no runtime"
           /\ Refresh("op") /\ GoesTo("policy")
  <2>1. op' = Op(op.cmd, "policy") /\ UNCHANGED <<status, events>>
    BY <1>5 DEF GoesTo
  <2>2. CommandsSound' /\ Went /\ op'.cmd = op.cmd /\ op'.at = "policy"
    BY <1>1, <1>2, <2>1, Continues DEF Steps
  <2>3. barrier' \in Kinds \cup {"no runtime"}
    BY <1>5 DEF IInv, TypeOK, Kinds
  <2>4. /\ runs' \in [Runners -> {Idle} \cup RunSet] /\ runs'["op"] # Idle
        /\ runs'["op"].policy = "handoff" /\ runs'["op"].heard = {} /\ runs'["op"].runtime = barrier'
        /\ \A o \in Runners \ {"op"} : runs'[o] = runs[o]
    BY ZenonT(60), <1>5, <2>3, RunStarts DEF Runners, Refresh
  <2>5. ~resumed /\ barrier' = "proxy" => runtime["proxy"].state \in {"HANDING_OFF", "STOPPED"}
    BY <1>1, <1>5 DEF IInv, MeetingsSound, OpSound, At
  <2>6. PhaseSound' /\ StartSound'
    BY <1>2, <2>1 DEF IInv, PhaseSound, StartSound
  <2>7. ~resumed' => ReportedSound'
    BY <1>2, <2>1 DEF IInv, ReportedSound, CutOff
  <2>8. TypeOK'
    BY ZenonT(60), <1>1, <1>2, <1>3, <1>4, <1>5, <2>1, <2>2, <2>3, <2>4, <2>5 DEF IInv, TypeOK, Went
  <2>9. StepsSound'
    BY ZenonT(60), <1>1, <1>2, <1>3, <1>5, <2>1, <2>2, <2>3, <2>4, <2>5 DEF IInv, StepsSound, Mid, Went
  <2>10. WordSound'
    BY <1>2, <1>3, <1>5, <2>3, <2>4, <2>5 DEF IInv, WordSound
  <2>11. ~resumed' => MeetingsSound'
    BY <1>2, <1>3, <1>5, <2>3, <2>4, <2>5 DEF IInv, MeetingsSound, Over, Running, Kinds
  <2>12. ~resumed' => OpSound'
    BY <1>1, <1>2, <1>3, <1>5, <2>1, <2>2, <2>3, <2>4, <2>5 DEF IInv, OpSound, At, Running,
       Over, Kinds, Ending, active_runtime, Nonterminal, Went
  <2>13. ~resumed' => StopSound'
    BY <1>1, <1>2, <1>3, <1>5, <2>1, <2>2, <2>3, <2>4, <2>5 DEF IInv, StopSound, Nonterminal,
       Commands, At, Kinds, Went
  <2>14. ~resumed' => WrittenSound'
    BY <1>1, <1>2, <1>3, <1>5, <2>1, <2>2, <2>3, <2>4, <2>5 DEF IInv, WrittenSound,
       EndedIsWritten, Ended, CutOff, At, Kinds, Running, Ending, Went
  <2>15. QED
    BY <2>2, <2>6, <2>7, <2>8, <2>9, <2>10, <2>11, <2>12, <2>13, <2>14 DEF IInv
<1>6. CASE Fails /\ UNCHANGED <<barrier, runs>>
  <2>1. /\ CommandsSound' /\ Went /\ op' = NoOp /\ op'.cmd = "none" /\ op'.at = "begin"
        /\ status'[op.cmd] = "failed"
        /\ events' \in {events, events \cup {"MEDIA_ERROR"}}
    BY <1>1, <1>2, <1>6, GivesUp
  <2>2. WordSound'
    BY <1>2, <1>6 DEF IInv, WordSound
  <2>3. ~resumed' => MeetingsSound'
    BY <1>2, <1>6 DEF IInv, MeetingsSound
  <2>4. TypeOK'
    BY ZenonT(60), <1>1, <1>2, <1>3, <1>4, <1>6, <2>1 DEF IInv, TypeOK, Went, EventSet
  <2>5. PhaseSound'
    BY <1>1, <1>2, <1>3, <1>6, <2>1 DEF IInv, PhaseSound, Commands, Went
  <2>6. StepsSound'
    BY <1>1, <1>2, <1>3, <1>6, <2>1 DEF IInv, StepsSound, Mid, Went
  <2>7. StartSound'
    BY <1>1, <1>2, <1>3, <1>6, <2>1 DEF IInv, StartSound, Commands, Went
  <2>8. ~resumed' => OpSound'
    BY <1>1, <1>2, <1>3, <1>6, <2>1 DEF IInv, OpSound, At, Running, Over, Kinds, Ending,
       active_runtime, Nonterminal, Went
  <2>9. ~resumed' => StopSound'
    BY <1>1, <1>2, <1>3, <1>6, <2>1 DEF IInv, StopSound, Nonterminal, Commands, At, Kinds, Went
  <2>10. ~resumed' => WrittenSound'
    BY <1>1, <1>2, <1>3, <1>6, <2>1 DEF IInv, WrittenSound, EndedIsWritten, Ended, CutOff, At,
       Kinds, Running, Ending, Went
  <2>11. ~resumed' => ReportedSound'
    BY <1>2, <1>3, <1>6, <2>1 DEF IInv, ReportedSound, CutOff, Kinds, Ended, Went
  <2>12. QED
    BY <2>1, <2>2, <2>3, <2>4, <2>5, <2>6, <2>7, <2>8, <2>9, <2>10, <2>11 DEF IInv
<1>7. QED
  BY <1>5, <1>6 DEF SetBarrier

LEMMA StopSessionStep == ASSUME IInv, StopSession PROVE IInv'
<1>1. op.cmd = "STOP" /\ op.at = "begin" /\ op.cmd \in Commands
  BY DEF StopSession, At, Commands
<1>2. /\ UNCHANGED <<phase, status, events, received, runtime, marked, transcripts, preflight, queue>>
      /\ UNCHANGED <<mode, replay, starting, barrier, runs, present, may_speak, recorder_in, proxy_in>>
      /\ UNCHANGED <<resumed, cancelled, changes, faults, crashes>>
      /\ life' = "none" /\ op' = Op(op.cmd, "leave")
  BY DEF StopSession, startup, room, counters, GoesTo
<1>3. /\ status[op.cmd] = "processing" /\ status \in [Commands -> Statuses] /\ phase = "TERMINATED"
  BY <1>1, Holds
<1>4. CommandsSound' /\ Went /\ op'.cmd = op.cmd /\ op'.at = "leave"
  BY <1>1, <1>2, Continues DEF Steps
<1>5. PhaseSound' /\ WordSound' /\ StartSound'
  BY <1>2 DEF IInv, PhaseSound, WordSound, StartSound
<1>6. ~resumed' => ReportedSound'
  BY <1>2 DEF IInv, ReportedSound, CutOff
<1>7. TypeOK'
  BY <1>1, <1>2, <1>3, <1>4 DEF IInv, TypeOK, Went
<1>8. StepsSound'
  BY <1>1, <1>2, <1>3, <1>4 DEF IInv, StepsSound, Mid, Went
<1>9. ~resumed' => MeetingsSound'
  BY <1>2 DEF IInv, MeetingsSound, Over, Running, Kinds
<1>10. ~resumed' => OpSound'
  BY <1>1, <1>2, <1>3, <1>4 DEF IInv, OpSound, At, Running, Over, Kinds, Ending,
     active_runtime, Nonterminal, Went
<1>11. ~resumed' => StopSound'
  BY <1>1, <1>2, <1>3, <1>4 DEF IInv, StopSound, Nonterminal, Commands, At, Kinds, Went
<1>12. ~resumed' => WrittenSound'
  BY <1>1, <1>2, <1>3, <1>4 DEF IInv, WrittenSound, EndedIsWritten, Ended, CutOff, At, Kinds,
     Running, Ending, Went
<1>13. QED
  BY <1>4, <1>5, <1>6, <1>7, <1>8, <1>9, <1>10, <1>11, <1>12 DEF IInv

LEMMA StopRoomsStep == ASSUME IInv, StopRooms PROVE IInv'
<1>1. op.cmd = "STOP" /\ op.at = "leave" /\ op.cmd \in Commands
  BY DEF StopRooms, At, Commands
<1>2. /\ UNCHANGED <<phase, received, marked, transcripts, preflight, queue, mode, replay, starting>>
      /\ UNCHANGED <<life, runs, present, may_speak, resumed, cancelled, changes, crashes>>
      /\ barrier' = "none" /\ recorder_in' = FALSE /\ proxy_in' = FALSE
  BY DEF StopRooms, startup, counters, Disconnect, Fault
<1>3. /\ status[op.cmd] = "processing" /\ status \in [Commands -> Statuses] /\ phase = "TERMINATED"
      /\ runtime \in [Kinds -> [state : RuntimeState, ended : BOOLEAN]] /\ starting = {}
      /\ "proxy" \in Kinds /\ "sync" \in Kinds /\ "proxy" # "sync"
  BY <1>1, Holds DEF IInv, CommandsSound
<1>4. /\ CommandsSound' /\ Went /\ op' = NoOp /\ op'.cmd = "none" /\ op'.at = "begin"
      /\ events' \in {events, events \cup {"MEDIA_ERROR"}}
      /\ status'["STOP"] \in {"completed", "failed"}
  BY <1>1, <1>2, Finishes, GivesUp DEF StopRooms
<1>5. faults' \in 0 .. MaxFaults
  BY Counted DEF StopRooms
<1>6. \A k \in Kinds : runtime'[k] = IF runtime[k].state = "none" \/ runtime[k].ended THEN runtime[k]
                                     ELSE [state |-> "STOPPED", ended |-> TRUE]
  BY DEF StopRooms, finish_session_runtimes
<1>7. /\ runtime' \in [Kinds -> [state : RuntimeState, ended : BOOLEAN]]
      /\ \A k \in Kinds : \/ runtime'[k] = runtime[k] /\ (runtime[k].state = "none" \/ runtime[k].ended)
                          \/ /\ runtime'[k].state = "STOPPED" /\ runtime'[k].ended
                             /\ runtime[k].state # "none" /\ ~runtime[k].ended
  BY <1>3, <1>6 DEF StopRooms, finish_session_runtimes, RuntimeState
<1>8. ~resumed => life = "none"
  BY <1>1 DEF IInv, OpSound
<1>9. ~resumed => \A k \in Kinds : runtime'[k].state \in {"none", "STOPPED", "ERROR"}
  BY <1>3, <1>7 DEF IInv, MeetingsSound, Over
<1>10. TypeOK'
  BY <1>1, <1>2, <1>3, <1>4, <1>5, <1>6, <1>7, <1>8, <1>9 DEF IInv, TypeOK, Went, EventSet
<1>11. PhaseSound'
  BY <1>1, <1>2, <1>3, <1>4, <1>6, <1>7, <1>9 DEF IInv, PhaseSound, Commands, Went
<1>12. StepsSound'
  BY <1>1, <1>2, <1>3, <1>4, <1>6, <1>7, <1>9 DEF IInv, StepsSound, Mid, Went
<1>13. WordSound'
  BY <1>2, <1>3 DEF IInv, WordSound
<1>14. StartSound'
  BY <1>1, <1>3, <1>4, <1>6, <1>7, <1>9 DEF IInv, StartSound, Commands, Went
<1>15. ~resumed' => MeetingsSound'
  BY <1>2, <1>3, <1>6, <1>7, <1>8, <1>9 DEF IInv, MeetingsSound, Over, Running, Kinds
<1>16. ~resumed' => OpSound'
  BY <1>1, <1>2, <1>3, <1>4, <1>6, <1>7, <1>8, <1>9 DEF IInv, OpSound, At, Running, Over,
     Kinds, Ending, active_runtime, Nonterminal, Went
<1>17. ~resumed' => StopSound'
  BY <1>1, <1>2, <1>3, <1>4, <1>6, <1>7, <1>8, <1>9 DEF IInv, StopSound, Nonterminal, Commands,
     At, Kinds, Went
<1>18. ~resumed' => WrittenSound'
  BY <1>1, <1>2, <1>3, <1>4, <1>6, <1>7, <1>8, <1>9 DEF IInv, WrittenSound, EndedIsWritten,
     Ended, CutOff, At, Kinds, Running, Ending, Went
<1>19. ~resumed' => ReportedSound'
  BY <1>2, <1>3, <1>4, <1>6, <1>7, <1>8, <1>9 DEF IInv, ReportedSound, CutOff, Kinds, Ended, Went
<1>20. QED
  BY <1>4, <1>10, <1>11, <1>12, <1>13, <1>14, <1>15, <1>16, <1>17, <1>18, <1>19 DEF IInv

LEMMA AdvanceStep == ASSUME IInv, Advance PROVE IInv'
<1>1. /\ UNCHANGED <<status, received, runtime, marked, transcripts, events, preflight, queue, mode, replay>>
      /\ UNCHANGED <<starting, op, life, barrier, runs, present, may_speak, recorder_in, proxy_in>>
      /\ UNCHANGED <<resumed, cancelled, changes, crashes>>
  BY DEF Advance, rows, memory, startup, room, counters, Fault
<1>2. \/ phase = "PROXY_MEETING" /\ phase' = "HANDOFF"
      \/ phase = "HANDOFF" /\ phase' = "SYNC_MEETING"
  BY DEF Advance
<1>3. faults' \in 0 .. MaxFaults
  BY Counted DEF Advance
<1>4. CommandsSound'
  BY <1>1, Unheld
<1>5. Idle.at = "idle" /\ phase' \in Phases
  BY <1>2 DEF Idle, Phases
<1>6. StepsSound' /\ StartSound'
  BY <1>1 DEF IInv, StepsSound, StartSound, Mid
<1>7. ~resumed' => MeetingsSound' /\ StopSound'
  BY <1>1 DEF IInv, MeetingsSound, StopSound, At, Nonterminal
<1>8. ~resumed' => OpSound' /\ WrittenSound'
  BY <1>1 DEF IInv, OpSound, WrittenSound, At, Ending, active_runtime, Nonterminal,
     EndedIsWritten, CutOff
<1>9. TypeOK'
  BY ZenonT(60), <1>1, <1>2, <1>3, <1>5 DEF IInv, TypeOK
<1>10. PhaseSound'
  BY <1>1, <1>2, <1>5 DEF IInv, PhaseSound, Commands
<1>11. WordSound'
  BY <1>1, <1>2, <1>5 DEF IInv, WordSound
<1>12. ~resumed' => ReportedSound'
  BY <1>1, <1>2, <1>5 DEF IInv, ReportedSound, CutOff, Kinds, Ended
<1>13. QED
  BY <1>4, <1>6, <1>7, <1>8, <1>9, <1>10, <1>11, <1>12 DEF IInv

LEMMA DeviceStatusStep == ASSUME IInv, DeviceStatus PROVE IInv'
<1>1. /\ UNCHANGED <<phase, status, received, runtime, marked, transcripts, events, queue, mode, replay>>
      /\ UNCHANGED <<starting, op, life, barrier, runs, present, may_speak, recorder_in, proxy_in>>
      /\ UNCHANGED <<resumed, cancelled, faults, crashes>>
  BY DEF DeviceStatus, memory, startup, room, Change
<1>2. changes' \in 0 .. MaxChanges /\ preflight' \in BOOLEAN
  BY Changed DEF DeviceStatus, IInv, TypeOK
<1>3. CommandsSound'
  BY <1>1, Unheld
<1>4. PhaseSound' /\ StepsSound' /\ WordSound' /\ StartSound'
  BY ZenonT(60), <1>1 DEF IInv, PhaseSound, StepsSound, WordSound, StartSound, Mid
<1>5. ~resumed' => MeetingsSound' /\ StopSound' /\ ReportedSound'
  BY <1>1 DEF IInv, MeetingsSound, StopSound, ReportedSound, At, Nonterminal, CutOff
<1>6. ~resumed' => OpSound' /\ WrittenSound'
  BY <1>1 DEF IInv, OpSound, WrittenSound, At, Ending, active_runtime, Nonterminal,
     EndedIsWritten, CutOff
<1>7. TypeOK'
  BY ZenonT(60), <1>1, <1>2 DEF IInv, TypeOK
<1>8. QED
  BY <1>3, <1>4, <1>5, <1>6, <1>7 DEF IInv

LEMMA IssueStep == ASSUME IInv, NEW c \in Commands, Issue(c) PROVE IInv'
<1>1. /\ UNCHANGED <<runtime, marked, transcripts, events, preflight, mode, replay, starting, op, life>>
      /\ UNCHANGED <<barrier, runs, present, may_speak, recorder_in, proxy_in>>
      /\ UNCHANGED <<resumed, cancelled, changes, faults, crashes>>
      /\ mode = "serving"
  BY DEF Issue, startup, room, counters
<1>2. /\ c = "STOP" => phase' = "TERMINATED"
      /\ c # "STOP" => phase = required[c] /\ phase' = phase
  BY DEF Issue
<1>3. /\ c \in {"START_PROXY", "END_PROXY"} => phase = "PROXY_MEETING"
      /\ c = "BEGIN_HANDOFF" => phase = "HANDOFF"
      /\ c \in {"START_SYNC", "END_SYNC"} => phase = "SYNC_MEETING"
  BY <1>2 DEF required, Commands
<1>4. /\ status \in [Commands -> Statuses] /\ received \in Seq(Commands) /\ queue \in Seq(Commands)
  BY DEF IInv, TypeOK
<1>5. queue' = Append(queue, c)
  BY DEF Issue
<1>6. \/ status[c] = "none" /\ received' = Append(received, c) /\ status' = [status EXCEPT ![c] = "accepted"]
      \/ status[c] = "failed" /\ UNCHANGED <<received, status>>
  BY DEF Issue
<1>7. Longer(queue, queue', c)
  BY <1>4, <1>5, Appended
<1>8. \/ status[c] = "none" /\ status'[c] = "accepted" /\ Longer(received, received', c)
      \/ status[c] = "failed" /\ UNCHANGED <<received, status>>
  <2>1. Longer(received, Append(received, c), c)
    BY <1>4, Appended
  <2>2. CASE status[c] = "none" /\ received' = Append(received, c) /\ status' = [status EXCEPT ![c] = "accepted"]
    <3>1. status'[c] = "accepted"
      BY <1>4, <2>2
    <3>2. Longer(received, received', c)
      BY <2>1, <2>2
    <3>3. QED
      BY <2>2, <3>1, <3>2
  <2>3. QED
    BY <1>6, <2>2
<1>9. status' \in [Commands -> Statuses] /\ \A d \in Commands \ {c} : status'[d] = status[d]
  BY <1>4, <1>6 DEF Statuses
<1>10. /\ status' \in [Commands -> Statuses] /\ received' \in Seq(Commands) /\ queue' \in Seq(Commands)
       /\ \A d \in Commands \ {c} : status'[d] = status[d]
       /\ status'[c] = status[c] \/ (status[c] = "none" /\ status'[c] = "accepted")
       /\ status'[c] \in {"accepted", "failed"}
  BY <1>4, <1>7, <1>8, <1>9 DEF Longer
<1>11. c = "START_PROXY" => status["START_SYNC"] = "none" /\ runtime["sync"].state = "none"
  BY <1>3 DEF IInv, PhaseSound
<1>12. phase' \in Phases
  BY <1>2 DEF IInv, TypeOK, Phases
<1>13. CommandsSound'
  <2>1. \A i \in DOMAIN queue' : queue'[i] \in {queue[j] : j \in DOMAIN queue} \/ queue'[i] = c
    BY <1>7 DEF Longer
  <2>2. \A d \in Commands : InQueue(d) => InQueue(d)'
    BY <1>7 DEF Longer, InQueue
  <2>3. InQueue(c)'
    BY <1>7 DEF Longer, InQueue
  <2>4. \A d \in Commands : status'[d] # "none" <=> \E i \in DOMAIN received' : received'[i] = d
    BY <1>10, <1>8 DEF IInv, CommandsSound, Longer
  <2>5. (~InQueue("START_SYNC") /\ op.cmd # "START_SYNC") \/ c # "START_PROXY"
    BY <1>11 DEF IInv, CommandsSound, InQueue, Commands
  <2>6. Later(queue')
    BY <1>7, <2>5 DEF IInv, CommandsSound, Later, InQueue, Longer
  <2>7. Later(received')
    BY <1>11, <1>8 DEF IInv, CommandsSound, Later, Commands, Longer
  <2>8. \A i \in DOMAIN queue' : status'[queue'[i]] # "none"
    <3>1. \A i \in DOMAIN queue : queue[i] \in Commands /\ status[queue[i]] # "none"
      BY <1>4, Elements DEF IInv, CommandsSound
    <3>2. \A d \in Commands : status[d] # "none" => status'[d] # "none"
      BY <1>9, <1>10
    <3>3. \A i \in DOMAIN queue' : queue'[i] \in Commands /\ status'[queue'[i]] # "none"
      <4>1. status'[c] # "none"
        BY <1>10
      <4>2. QED
        BY <2>1, <3>1, <3>2, <4>1
    <3>4. QED
      BY <3>3
  <2>9. \A d \in replay' : status'[d] # "none"
    BY <1>1, <1>10 DEF IInv, CommandsSound, TypeOK
  <2>10. op'.cmd = "START_SYNC" => ~InQueue("START_PROXY")' /\ "START_PROXY" \notin replay'
    BY <1>1, <1>7, <2>5 DEF Longer, IInv, CommandsSound, InQueue
  <2>11. op'.cmd \in Commands => status'[op'.cmd] = "processing"
    BY <1>1, <1>6, <1>10 DEF IInv, CommandsSound
  <2>12. mode' # "reconciling" =>
          \A d \in Commands : /\ status'[d] = "processing" => op'.cmd = d
                              /\ status'[d] = "accepted" => InQueue(d)' \/ d \in replay'
    <3>1. \A d \in Commands : status'[d] = "processing" => status[d] = "processing"
      BY <1>8, <1>9
    <3>2. \A d \in Commands : status'[d] = "accepted" /\ d # c => status[d] = "accepted"
      BY <1>9
    <3>3. QED
      BY <1>1, <2>2, <2>3, <3>1, <3>2 DEF IInv, CommandsSound
  <2>13. QED
    BY <1>1, <2>4, <2>6, <2>7, <2>8, <2>9, <2>10, <2>11, <2>12 DEF IInv, CommandsSound
<1>14. StepsSound' /\ WordSound'
  BY <1>1, <1>2 DEF IInv, StepsSound, WordSound, Mid
<1>15. ~resumed' => MeetingsSound' /\ ReportedSound'
  BY <1>1, <1>2 DEF IInv, MeetingsSound, ReportedSound, CutOff
<1>16. ~resumed' => OpSound' /\ WrittenSound'
  BY <1>1 DEF IInv, OpSound, WrittenSound, At, Ending, active_runtime, Nonterminal,
     EndedIsWritten, CutOff
<1>17. TypeOK'
  BY ZenonT(60), <1>1, <1>2, <1>3, <1>4, <1>5, <1>6, <1>7, <1>8, <1>9, <1>10, <1>11, <1>12 DEF IInv, TypeOK
<1>18. PhaseSound'
  BY <1>1, <1>2, <1>3, <1>4, <1>6, <1>8, <1>9, <1>10, <1>11, <1>12 DEF IInv, PhaseSound, Commands
<1>19. StartSound'
  BY <1>1, <1>4, <1>6, <1>8, <1>9, <1>10, <1>11 DEF IInv, StartSound, Commands
<1>20. ~resumed' => StopSound'
  BY <1>1, <1>4, <1>6, <1>8, <1>9, <1>10, <1>11 DEF IInv, StopSound, Nonterminal, Commands, At,
     Kinds
<1>21. QED
  BY <1>13, <1>14, <1>15, <1>16, <1>17, <1>18, <1>19, <1>20 DEF IInv

LEMMA StartOpStep == ASSUME IInv, StartOp PROVE IInv'
<1>1. /\ UNCHANGED <<phase, received, runtime, marked, transcripts, events, preflight, mode, starting, life>>
      /\ UNCHANGED <<barrier, runs, present, may_speak, recorder_in, proxy_in>>
      /\ UNCHANGED <<resumed, cancelled, changes, faults, crashes>>
      /\ op = NoOp /\ op.cmd = "none" /\ op.at = "begin"
  BY DEF StartOp, room, counters, NoOp
<1>2. PICK c \in Commands :
        /\ Takes(c)
        /\ IF status[c] \in {"accepted", "failed"}
           THEN status' = [status EXCEPT ![c] = "processing"] /\ op' = Op(c, "begin")
           ELSE UNCHANGED <<status, op>>
  BY DEF StartOp
<1>3. /\ status \in [Commands -> Statuses] /\ received \in Seq(Commands) /\ queue \in Seq(Commands)
      /\ replay \subseteq Commands
  BY DEF IInv, TypeOK
<1>4. /\ status' \in [Commands -> Statuses] /\ \A d \in Commands \ {c} : status'[d] = status[d]
      /\ op'.at = "begin" /\ op' \in {NoOp} \cup [cmd : Commands \cup {"reconcile"}, at : Steps]
      /\ \/ status[c] \in {"accepted", "failed"} /\ status'[c] = "processing" /\ op'.cmd = c
         \/ status[c] \notin {"accepted", "failed"} /\ status'[c] = status[c] /\ op' = op
  <2>1. CASE status[c] \in {"accepted", "failed"}
    BY <1>2, <1>3, <2>1 DEF Statuses, Op, Steps
  <2>2. CASE status[c] \notin {"accepted", "failed"}
    BY <1>1, <1>2, <1>3, <2>2
  <2>3. QED
    BY <2>1, <2>2
<1>5. \/ mode = "serving" /\ queue # <<>> /\ c = Head(queue) /\ queue' = Tail(queue) /\ UNCHANGED replay
      \/ mode = "replaying" /\ c \in replay /\ replay' = replay \ {c} /\ UNCHANGED queue
  BY <1>2 DEF Takes
<1>6. /\ queue' \in Seq(Commands) /\ replay' \subseteq replay /\ status[c] # "none" /\ mode # "reconciling"
      /\ \A i \in DOMAIN queue' :
            \/ i + 1 \in DOMAIN queue /\ i \in Nat /\ queue'[i] = queue[i + 1]
            \/ queue' = queue
      /\ queue = <<>> => queue' = <<>>
  <2>1. CASE queue # <<>> /\ c = Head(queue) /\ queue' = Tail(queue) /\ UNCHANGED replay /\ mode = "serving"
    <3>1. 1 \in DOMAIN queue /\ queue[1] = c
      BY <1>3, <2>1
    <3>2. QED
      BY <1>3, <2>1, <3>1 DEF IInv, CommandsSound
  <2>2. CASE c \in replay /\ replay' = replay \ {c} /\ UNCHANGED queue /\ mode = "replaying"
    BY <1>3, <2>2 DEF IInv, CommandsSound
  <2>3. QED
    BY <1>5, <2>1, <2>2
<1>7. CommandsSound'
  <2>1. \A d \in Commands : status'[d] # "none" <=> \E i \in DOMAIN received' : received'[i] = d
    BY <1>1, <1>4, <1>6 DEF IInv, CommandsSound
  <2>2. Later(received') /\ \A i \in DOMAIN queue' : status'[queue'[i]] # "none"
    BY <1>1, <1>3, <1>4, <1>6, Elements DEF IInv, CommandsSound
  <2>3. Later(queue')
    BY <1>3, <1>5, <1>6 DEF IInv, CommandsSound, Later
  <2>4. \A d \in replay' : status'[d] # "none"
    BY <1>3, <1>4, <1>6 DEF IInv, CommandsSound
  <2>5. c = "START_SYNC" => ~InQueue("START_PROXY")' /\ "START_PROXY" \notin replay'
    <3>1. CASE mode = "serving"
      <4>1. replay' = {}
        BY <1>5, <3>1 DEF IInv, CommandsSound
      <4>2. ASSUME c = "START_SYNC", NEW i \in DOMAIN queue', queue'[i] = "START_PROXY" PROVE FALSE
        <5>1. 1 \in DOMAIN queue /\ queue[1] = "START_SYNC" /\ i + 1 \in DOMAIN queue /\ 1 < i + 1
              /\ queue[i + 1] = "START_PROXY"
          BY <1>3, <1>5, <3>1, <4>2
        <5>2. QED
          BY <5>1 DEF IInv, CommandsSound, Later
      <4>3. QED
        BY <4>1, <4>2 DEF InQueue
    <3>2. CASE mode = "replaying"
      <4>1. queue = <<>> /\ queue' = <<>> /\ ~InQueue("START_PROXY")'
        BY <1>6, <3>2 DEF IInv, CommandsSound, InQueue
      <4>2. PICK i \in DOMAIN received : received[i] = c /\ \A j \in 1 .. i - 1 : received[j] \notin replay
        BY <1>2, <3>2 DEF Takes
      <4>3. ASSUME c = "START_SYNC", "START_PROXY" \in replay PROVE FALSE
        <5>1. PICK j \in DOMAIN received : received[j] = "START_PROXY"
          BY <4>3 DEF IInv, CommandsSound, Commands
        <5>2. i \in Nat /\ j \in Nat /\ i >= 1 /\ j >= 1
          BY <1>3
        <5>3. ~(i < j) /\ i # j
          BY <4>2, <4>3, <5>1 DEF IInv, CommandsSound, Later
        <5>4. j \in 1 .. i - 1
          BY <5>2, <5>3
        <5>5. QED
          BY <4>2, <4>3, <5>1, <5>4
      <4>4. QED
        BY <1>6, <4>1, <4>3
    <3>3. QED
      BY <1>5, <3>1, <3>2
  <2>6. op'.cmd \in {"none", c} /\ (op'.cmd \in Commands => op'.cmd = c /\ status'[c] = "processing")
    BY <1>1, <1>4 DEF Commands
  <2>7. \A d \in Commands : /\ status'[d] = "processing" => op'.cmd = d
                            /\ status'[d] = "accepted" => InQueue(d)' \/ d \in replay'
    <3>1. \A d \in Commands : status[d] # "processing"
      BY <1>1, <1>6 DEF IInv, CommandsSound, Commands
    <3>2. \A d \in Commands \ {c} : InQueue(d) => InQueue(d)'
      <4>1. CASE c = Head(queue) /\ queue' = Tail(queue) /\ queue # <<>>
        <5>1. ASSUME NEW d \in Commands \ {c}, NEW i \in DOMAIN queue, queue[i] = d PROVE InQueue(d)'
          <6>1. i \in Nat /\ i > 1 /\ i - 1 \in DOMAIN queue' /\ queue'[i - 1] = d
            BY <1>3, <4>1, <5>1
          <6>2. QED
            BY <6>1 DEF InQueue
        <5>2. QED
          BY <5>1 DEF InQueue
      <4>2. CASE UNCHANGED queue
        BY <4>2 DEF InQueue
      <4>3. QED
        BY <1>5, <4>1, <4>2
    <3>3. \A d \in Commands \ {c} : d \in replay => d \in replay'
      BY <1>5
    <3>4. status'[c] # "accepted"
      BY <1>4
    <3>5. QED
      BY <1>4, <1>6, <3>1, <3>2, <3>3, <3>4 DEF IInv, CommandsSound
  <2>8. /\ queue' # <<>> => mode' = "serving"
        /\ replay' # {} => mode' = "replaying"
        /\ starting' # {} => mode' = "reconciling"
        /\ crashes' = 0 => mode' = "serving"
        /\ op'.cmd = "reconcile" <=> mode' = "reconciling"
    BY <1>1, <1>6, <2>6 DEF IInv, CommandsSound, Commands
  <2>9. QED
    BY <1>6, <1>1, <2>1, <2>2, <2>3, <2>4, <2>5, <2>6, <2>7, <2>8 DEF CommandsSound, InQueue,
       Later, Commands
<1>8. Mid = Idle /\ \A x \in Runners : runs[x].at # "idle" => runs[x].policy # "sync"
  BY <1>1, NoSyncRun
<1>9. WordSound'
  BY <1>1 DEF IInv, WordSound
<1>10. ~resumed' => MeetingsSound' /\ ReportedSound'
  BY <1>1 DEF IInv, MeetingsSound, ReportedSound, CutOff
<1>11. TypeOK'
  BY ZenonT(60), <1>1, <1>2, <1>3, <1>4, <1>5, <1>6, <1>8 DEF IInv, TypeOK
<1>12. PhaseSound'
  BY <1>1, <1>2, <1>3, <1>4, <1>6 DEF IInv, PhaseSound, Commands
<1>13. StepsSound'
  BY <1>1, <1>2, <1>4, <1>8 DEF IInv, StepsSound, Mid
<1>14. StartSound'
  BY <1>1, <1>2, <1>3, <1>4, <1>6 DEF IInv, StartSound, Commands
<1>15. ~resumed' => OpSound'
  BY <1>1, <1>2, <1>4 DEF IInv, OpSound, At, Running, Over, Kinds, Ending, active_runtime,
     Nonterminal
<1>16. ~resumed' => StopSound'
  BY <1>1, <1>2, <1>3, <1>4, <1>6 DEF IInv, StopSound, Nonterminal, Commands, At, Kinds
<1>17. ~resumed' => WrittenSound'
  BY <1>1, <1>2, <1>4 DEF IInv, WrittenSound, EndedIsWritten, Ended, CutOff, At, Kinds,
     Running, Ending
<1>18. QED
  BY <1>7, <1>9, <1>10, <1>11, <1>12, <1>13, <1>14, <1>15, <1>16, <1>17 DEF IInv

LEMMA ListRoomStep == ASSUME IInv, NEW x \in Runners, ListRoom(x) PROVE IInv'
<1>1. /\ UNCHANGED <<phase, status, received, runtime, marked, transcripts, events, preflight, queue, mode>>
      /\ UNCHANGED <<replay, starting, op, life, barrier, present, may_speak, recorder_in>>
      /\ UNCHANGED <<resumed, cancelled, changes, faults, crashes>>
      /\ proxy_in' = FALSE /\ runs[x].at = "list"
  BY DEF ListRoom, rows, startup, counters, Under
<1>2. /\ runs \in [Runners -> {Idle} \cup RunSet] /\ runs[x] \in RunSet /\ runs[x] # Idle
      /\ phase # "PROXY_MEETING"
      /\ phase = "HANDOFF" => runs[x].policy = "handoff"
  BY <1>1, RunGoesOn
<1>3. present \in SUBSET Humans
  BY DEF IInv, TypeOK
<1> DEFINE new == [runs[x] EXCEPT !.at = "update", !.todo = present, !.heard = {}]
<1>4. /\ new \in RunSet /\ new.at = "update" /\ new.policy = runs[x].policy /\ new.heard = {}
      /\ new.runtime = runs[x].runtime
  BY <1>2, <1>3 DEF RunSet
<1>5. Idle.at = "idle"
  BY DEF Idle
<1>6. runs' = [runs EXCEPT ![x] = new]
  BY <1>2 DEF ListRoom
<1> HIDE DEF new
<1>7. /\ runs' \in [Runners -> {Idle} \cup RunSet] /\ runs'[x] # Idle
      /\ runs'[x].policy = runs[x].policy /\ runs'[x].heard = {} /\ runs'[x].runtime = runs[x].runtime
      /\ \A o \in Runners \ {x} : runs'[o] = runs[o]
  BY <1>2, <1>4, <1>5, <1>6
<1>8. CommandsSound'
  BY <1>1, Unheld
<1>9. /\ runs'["op"] = Idle <=> runs["op"] = Idle
      /\ \A o \in Runners : runs'[o].policy = runs[o].policy
                             /\ (runs[o].at = "idle" => runs'[o].at = "idle")
  BY <1>1, <1>2, <1>7 DEF Runners
<1>10. PhaseSound' /\ StartSound'
  BY <1>1 DEF IInv, PhaseSound, StartSound
<1>11. ~resumed' => ReportedSound'
  BY <1>1 DEF IInv, ReportedSound, CutOff
<1>12. ~resumed' => OpSound' /\ WrittenSound'
  BY <1>1 DEF IInv, OpSound, WrittenSound, At, Ending, active_runtime, Nonterminal,
     EndedIsWritten, CutOff
<1>13. TypeOK'
  BY ZenonT(60), <1>1, <1>2, <1>3, <1>4, <1>6, <1>7, <1>9 DEF IInv, TypeOK
<1>14. StepsSound'
  BY <1>1, <1>9 DEF IInv, StepsSound, Mid, Runners
<1>15. WordSound'
  BY <1>1, <1>2, <1>4, <1>6, <1>7, <1>9 DEF IInv, WordSound
<1>16. ~resumed' => MeetingsSound'
  BY <1>1, <1>2, <1>4, <1>6, <1>7, <1>9 DEF IInv, MeetingsSound, Over, Running, Kinds
<1>17. ~resumed' => StopSound'
  BY <1>1, <1>4, <1>7, <1>9 DEF IInv, StopSound, Nonterminal, Commands, At, Kinds
<1>18. QED
  BY <1>8, <1>10, <1>11, <1>12, <1>13, <1>14, <1>15, <1>16, <1>17 DEF IInv

LEMMA UpdatePermissionStep == ASSUME IInv, NEW x \in Runners, UpdatePermission(x) PROVE IInv'
<1>1. /\ UNCHANGED <<phase, status, received, runtime, marked, transcripts, events, preflight, queue, mode>>
      /\ UNCHANGED <<replay, starting, op, life, barrier, present, recorder_in, proxy_in>>
      /\ UNCHANGED <<resumed, cancelled, changes, faults, crashes>>
      /\ runs[x].at = "update"
  BY DEF UpdatePermission, rows, startup, counters, Under
<1>2. /\ runs \in [Runners -> {Idle} \cup RunSet] /\ runs[x] \in RunSet /\ runs[x] # Idle
      /\ phase # "PROXY_MEETING"
      /\ phase = "HANDOFF" => runs[x].policy = "handoff" /\ runs[x].heard \cap may_speak = {}
  BY <1>1, RunGoesOn
<1>3. PICK h \in runs[x].todo \cap present :
          /\ runs' = [runs EXCEPT ![x].todo = @ \ {h}, ![x].heard = @ \cup {h}]
          /\ may_speak' = IF runs[x].policy = "sync" THEN may_speak \cup {h} ELSE may_speak \ {h}
  BY DEF UpdatePermission
<1>4. h \in Humans /\ runs[x].todo \in SUBSET Humans /\ runs[x].heard \in SUBSET Humans
  BY <1>2 DEF IInv, TypeOK, RunSet
<1> DEFINE new == [runs[x] EXCEPT !.todo = @ \ {h}, !.heard = @ \cup {h}]
<1>5. /\ new \in RunSet /\ new.at = "update" /\ new.policy = runs[x].policy
      /\ new.heard = runs[x].heard \cup {h} /\ new.runtime = runs[x].runtime
  BY <1>1, <1>2, <1>4 DEF RunSet
<1>6. Idle.at = "idle"
  BY DEF Idle
<1>7. runs' = [runs EXCEPT ![x] = new]
  BY <1>2, <1>3
<1> HIDE DEF new
<1>8. /\ runs' \in [Runners -> {Idle} \cup RunSet] /\ runs'[x] # Idle
      /\ runs'[x].policy = runs[x].policy /\ runs'[x].heard = runs[x].heard \cup {h}
      /\ runs'[x].runtime = runs[x].runtime
      /\ \A o \in Runners \ {x} : runs'[o] = runs[o]
  BY <1>2, <1>5, <1>6, <1>7
<1>9. CommandsSound'
  BY <1>1, Unheld
<1>10. /\ may_speak' \subseteq Humans
       /\ phase = "HANDOFF" => may_speak' = may_speak \ {h}
  BY <1>2, <1>3, <1>4 DEF IInv, TypeOK
<1>11. /\ runs'["op"] = Idle <=> runs["op"] = Idle
       /\ \A o \in Runners : runs'[o].policy = runs[o].policy
                              /\ (runs[o].at = "idle" => runs'[o].at = "idle")
  BY <1>1, <1>2, <1>8 DEF Runners
<1>12. PhaseSound' /\ StartSound'
  BY <1>1 DEF IInv, PhaseSound, StartSound
<1>13. ~resumed' => StopSound' /\ ReportedSound'
  BY <1>1 DEF IInv, StopSound, ReportedSound, At, Nonterminal, CutOff
<1>14. ~resumed' => OpSound' /\ WrittenSound'
  BY <1>1 DEF IInv, OpSound, WrittenSound, At, Ending, active_runtime, Nonterminal,
     EndedIsWritten, CutOff
<1>15. TypeOK'
  BY ZenonT(60), <1>1, <1>8, <1>10 DEF IInv, TypeOK
<1>16. StepsSound'
  BY <1>1, <1>11 DEF IInv, StepsSound, Mid, Runners
<1>17. WordSound'
  BY <1>1, <1>2, <1>3, <1>4, <1>5, <1>7, <1>8, <1>10, <1>11 DEF IInv, WordSound
<1>18. ~resumed' => MeetingsSound'
  BY <1>1, <1>2, <1>3, <1>4, <1>5, <1>7, <1>8, <1>11 DEF IInv, MeetingsSound, Over, Running, Kinds
<1>19. QED
  BY <1>9, <1>12, <1>13, <1>14, <1>15, <1>16, <1>17, <1>18 DEF IInv

LEMMA UpdateFailsStep == ASSUME IInv, NEW x \in Runners, UpdateFails(x) PROVE IInv'
<1>1. /\ UNCHANGED <<phase, received, runtime, marked, transcripts, preflight, queue, mode, replay, starting>>
      /\ UNCHANGED <<life, barrier, present, may_speak, recorder_in, proxy_in>>
      /\ UNCHANGED <<resumed, cancelled, changes, faults, crashes>>
      /\ runs[x].at = "update" /\ runs' = [runs EXCEPT ![x] = Idle]
  BY DEF UpdateFails, startup, room, counters, Under
<1>2. /\ runs' \in [Runners -> {Idle} \cup RunSet] /\ runs'[x] = Idle /\ runs'[x].at = "idle"
      /\ \A o \in Runners \ {x} : runs'[o] = runs[o]
  BY <1>1, RunEnds
<1>3. /\ runtime \in [Kinds -> [state : RuntimeState, ended : BOOLEAN]]
      /\ "proxy" \in Kinds /\ "sync" \in Kinds /\ "proxy" # "sync"
  BY DEF IInv, TypeOK, Kinds
<1>4. CASE x = "op"
  <2>1. Fails /\ op.cmd # "reconcile"
    BY <1>4 DEF UpdateFails
  <2>2. op.at = "policy"
    BY <1>1, <1>4, NoSyncRun
  <2>3. op.cmd \in {"START_SYNC", "BEGIN_HANDOFF"}
    BY <2>1, <2>2, Waits
  <2>4. op.cmd \in Commands
    BY <2>3 DEF Commands
  <2>5. /\ CommandsSound' /\ Went /\ op' = NoOp /\ op'.cmd = "none" /\ op'.at = "begin"
        /\ status'[op.cmd] = "failed"
        /\ events' \in {events, events \cup {"MEDIA_ERROR"}}
    BY <1>1, <2>1, <2>4, GivesUp
  <2>6. TypeOK'
    BY ZenonT(60), <1>1, <1>2, <1>3, <1>4, <2>1, <2>2, <2>3, <2>4, <2>5 DEF IInv, TypeOK, Went, EventSet
  <2>7. PhaseSound'
    BY <1>1, <1>3, <1>4, <2>1, <2>2, <2>3, <2>4, <2>5 DEF IInv, PhaseSound, Commands, Went
  <2>8. StepsSound'
    BY <1>1, <1>2, <1>3, <1>4, <2>1, <2>2, <2>3, <2>4, <2>5 DEF IInv, StepsSound, Mid, Went
  <2>9. WordSound'
    BY <1>1, <1>2, <1>4 DEF IInv, WordSound
  <2>10. StartSound'
    BY <1>1, <1>3, <1>4, <2>1, <2>2, <2>3, <2>4, <2>5 DEF IInv, StartSound, Commands, Went
  <2>11. ~resumed' => MeetingsSound'
    BY <1>1, <1>2, <1>3, <1>4 DEF IInv, MeetingsSound, Over, Running, Kinds
  <2>12. ~resumed' => OpSound'
    BY <1>1, <1>3, <1>4, <2>1, <2>2, <2>3, <2>4, <2>5 DEF IInv, OpSound, At, Running, Over,
       Kinds, Ending, active_runtime, Nonterminal, Went
  <2>13. ~resumed' => StopSound'
    BY <1>1, <1>3, <1>4, <2>1, <2>2, <2>3, <2>4, <2>5 DEF IInv, StopSound, Nonterminal,
       Commands, At, Kinds, Went
  <2>14. ~resumed' => WrittenSound'
    BY <1>1, <1>3, <1>4, <2>1, <2>2, <2>3, <2>4, <2>5 DEF IInv, WrittenSound, EndedIsWritten,
       Ended, CutOff, At, Kinds, Running, Ending, Went
  <2>15. ~resumed' => ReportedSound'
    BY <1>1, <1>3, <1>4, <2>5 DEF IInv, ReportedSound, CutOff, Kinds, Ended, Went
  <2>16. QED
    BY <2>5, <2>6, <2>7, <2>8, <2>9, <2>10, <2>11, <2>12, <2>13, <2>14, <2>15 DEF IInv
<1>5. CASE x # "op"
  <2>1. UNCHANGED <<op, status, events>>
    BY <1>5 DEF UpdateFails
  <2>2. CommandsSound'
    BY <1>1, <2>1, Unheld
  <2>3. "op" \in Runners /\ runs'["op"] = runs["op"]
    BY <1>2, <1>5 DEF Runners
  <2>4. PhaseSound' /\ StartSound'
    BY <1>1, <2>1 DEF IInv, PhaseSound, StartSound
  <2>5. ~resumed' => StopSound' /\ ReportedSound'
    BY <1>1, <2>1 DEF IInv, StopSound, ReportedSound, At, Nonterminal, CutOff
  <2>6. ~resumed' => OpSound' /\ WrittenSound'
    BY <1>1, <2>1 DEF IInv, OpSound, WrittenSound, At, Ending, active_runtime, Nonterminal,
       EndedIsWritten, CutOff
  <2>7. TypeOK'
    BY ZenonT(60), <1>1, <1>2, <2>1 DEF IInv, TypeOK
  <2>8. StepsSound'
    BY <1>1, <1>2, <1>3, <1>5, <2>1, <2>3 DEF IInv, StepsSound, Mid
  <2>9. WordSound'
    BY <1>1, <1>2, <1>5, <2>3 DEF IInv, WordSound
  <2>10. ~resumed' => MeetingsSound'
    BY <1>1, <1>2, <1>3, <1>5, <2>3 DEF IInv, MeetingsSound, Over, Running, Kinds
  <2>11. QED
    BY <2>2, <2>4, <2>5, <2>6, <2>7, <2>8, <2>9, <2>10 DEF IInv
<1>6. QED
  BY <1>4, <1>5

LEMMA ObserveStep == ASSUME IInv, NEW x \in Runners, Observe(x) PROVE IInv'
<1>1. /\ UNCHANGED <<phase, received, marked, transcripts, preflight, queue, mode, replay>>
      /\ UNCHANGED <<life, present, may_speak, recorder_in, proxy_in>>
      /\ UNCHANGED <<resumed, cancelled, changes, faults, crashes>>
      /\ runs[x].at = "update" /\ runs[x].policy = "handoff" /\ runs' = [runs EXCEPT ![x] = Idle]
  BY DEF Observe, room, counters, Under, Applied
<1>2. /\ runs' \in [Runners -> {Idle} \cup RunSet] /\ runs'[x] = Idle /\ runs'[x].at = "idle"
      /\ \A o \in Runners \ {x} : runs'[o] = runs[o]
  BY <1>1, RunEnds
<1>3. /\ runtime \in [Kinds -> [state : RuntimeState, ended : BOOLEAN]]
      /\ "proxy" \in Kinds /\ "sync" \in Kinds /\ "proxy" # "sync"
  BY DEF IInv, TypeOK, Kinds
<1>4. /\ runtime' \in [Kinds -> [state : RuntimeState, ended : BOOLEAN]]
      /\ runtime'["sync"] = runtime["sync"]
      /\ \/ runtime' = runtime
         \/ runtime'["proxy"].state = "STOPPED" /\ runtime'["proxy"].ended /\ runs[x].runtime = "proxy"
      /\ barrier' \in {barrier, "none"} /\ events' \in {events, events \cup {"HANDOFF_COMPLETE"}}
  <2>1. CASE runtime' = runtime /\ barrier' \in {barrier, "none"} /\ events' = events
    BY <1>3, <2>1
  <2>2. CASE /\ barrier' = "none" /\ runs[x].runtime = "proxy"
             /\ SetState("proxy", "STOPPED", TRUE) /\ events' = events \cup {"HANDOFF_COMPLETE"}
    <3>1. TypeOK /\ "STOPPED" \in RuntimeState /\ TRUE \in BOOLEAN
      BY DEF IInv, RuntimeState
    <3>2. SetState("proxy", "STOPPED", TRUE)
      BY <2>2
    <3>3. /\ runtime' \in [Kinds -> [state : RuntimeState, ended : BOOLEAN]]
          /\ runtime'["sync"] = runtime["sync"]
          /\ runtime'["proxy"].state = "STOPPED" /\ runtime'["proxy"].ended
      BY <1>3, <3>1, <3>2, SetStateWrites
    <3>4. QED
      BY <2>2, <3>3
  <2>3. QED
    BY <2>1, <2>2 DEF Observe, write_runtime_event
<1>5. ~resumed /\ runs[x].runtime = "proxy" => runtime["proxy"].state \in {"HANDING_OFF", "STOPPED"}
  BY <1>1 DEF IInv, MeetingsSound
<1>10. events' \subseteq EventSet
  BY <1>4 DEF IInv, TypeOK, EventSet
<1>6. CASE x # "op"
  <2>1. UNCHANGED <<op, status, starting>>
    BY <1>6 DEF Observe
  <2>2. CommandsSound'
    BY <1>1, <2>1, Unheld
  <2>3. "op" \in Runners /\ runs'["op"] = runs["op"]
    BY <1>2, <1>6 DEF Runners
  <2>4. TypeOK'
    BY ZenonT(60), <1>1, <1>2, <1>4, <1>10, <2>1 DEF IInv, TypeOK
  <2>5. PhaseSound'
    BY <1>1, <1>3, <1>4, <1>5, <1>6, <2>1, <2>3 DEF IInv, PhaseSound, Commands
  <2>6. StepsSound'
    BY <1>1, <1>2, <1>3, <1>4, <1>5, <1>10, <1>6, <2>1, <2>3 DEF IInv, StepsSound, Mid
  <2>7. WordSound'
    BY <1>1, <1>2, <1>4, <1>5, <1>6, <2>3 DEF IInv, WordSound
  <2>8. StartSound'
    BY <1>3, <1>4, <1>5, <1>6, <2>1, <2>3 DEF IInv, StartSound, Commands
  <2>9. ~resumed' => MeetingsSound'
    BY <1>1, <1>2, <1>3, <1>4, <1>5, <1>6, <2>1, <2>3 DEF IInv, MeetingsSound, Over, Running,
       Kinds
  <2>10. ~resumed' => OpSound'
    BY <1>1, <1>3, <1>4, <1>5, <1>6, <2>1, <2>3 DEF IInv, OpSound, At, Running, Over, Kinds,
       Ending, active_runtime, Nonterminal
  <2>11. ~resumed' => StopSound'
    BY <1>1, <1>3, <1>4, <1>5, <1>6, <2>1, <2>3 DEF IInv, StopSound, Nonterminal, Commands, At,
       Kinds
  <2>12. ~resumed' => WrittenSound'
    BY <1>1, <1>3, <1>4, <1>5, <1>10, <1>6, <2>1, <2>3 DEF IInv, WrittenSound, EndedIsWritten,
       Ended, CutOff, At, Kinds, Running, Ending
  <2>13. ~resumed' => ReportedSound'
    BY <1>1, <1>3, <1>4, <1>5, <1>10, <1>6 DEF IInv, ReportedSound, CutOff, Kinds, Ended
  <2>14. QED
    BY <2>2, <2>4, <2>5, <2>6, <2>7, <2>8, <2>9, <2>10, <2>11, <2>12, <2>13 DEF IInv
<1>7. CASE x = "op" /\ op.cmd = "reconcile"
  <2>1. op' = Op("reconcile", "begin") /\ starting' = starting \ {"proxy"} /\ UNCHANGED status
    BY <1>7 DEF Observe, Rebuilt
  <2>2. /\ CommandsSound' /\ op' \in [cmd : Commands \cup {"reconcile"}, at : Steps]
        /\ op'.cmd = "reconcile" /\ op'.at = "begin" /\ mode = "reconciling" /\ crashes # 0
        /\ starting' \subseteq Kinds
    BY <1>1, <1>7, <2>1, Rebuilds DEF Steps
  <2>3. TypeOK'
    BY <1>1, <1>2, <1>3, <1>4, <1>5, <1>10, <1>7, <2>1, <2>2 DEF IInv, TypeOK
  <2>4. PhaseSound'
    BY <1>1, <1>3, <1>4, <1>5, <1>7, <2>1, <2>2 DEF IInv, PhaseSound, Commands
  <2>5. StepsSound'
    BY <1>1, <1>2, <1>3, <1>4, <1>5, <1>10, <1>7, <2>1, <2>2 DEF IInv, StepsSound, Mid
  <2>6. WordSound'
    BY <1>1, <1>2, <1>4, <1>5, <1>7 DEF IInv, WordSound
  <2>7. StartSound'
    BY <1>3, <1>4, <1>5, <1>7, <2>1, <2>2 DEF IInv, StartSound, Commands
  <2>8. ~resumed' => MeetingsSound'
    BY <1>1, <1>2, <1>3, <1>4, <1>5, <1>7, <2>1, <2>2 DEF IInv, MeetingsSound, Over, Running,
       Kinds
  <2>9. ~resumed' => OpSound'
    BY <1>1, <1>3, <1>4, <1>5, <1>7, <2>1, <2>2 DEF IInv, OpSound, At, Running, Over, Kinds,
       Ending, active_runtime, Nonterminal
  <2>10. ~resumed' => StopSound'
    BY <1>1, <1>3, <1>4, <1>5, <1>7, <2>1, <2>2 DEF IInv, StopSound, Nonterminal, Commands, At,
       Kinds
  <2>11. ~resumed' => WrittenSound'
    BY <1>1, <1>3, <1>4, <1>5, <1>10, <1>7, <2>1, <2>2 DEF IInv, WrittenSound, EndedIsWritten,
       Ended, CutOff, At, Kinds, Running, Ending
  <2>12. ~resumed' => ReportedSound'
    BY <1>1, <1>3, <1>4, <1>5, <1>10, <1>7 DEF IInv, ReportedSound, CutOff, Kinds, Ended
  <2>13. QED
    BY <2>2, <2>3, <2>4, <2>5, <2>6, <2>7, <2>8, <2>9, <2>10, <2>11, <2>12 DEF IInv
<1>8. CASE x = "op" /\ op.cmd # "reconcile"
  <2>1. Completes /\ UNCHANGED starting
    BY <1>8 DEF Observe
  <2>2. op.at = "policy"
    BY <1>1, <1>8, NoSyncRun
  <2>3. op.cmd \in {"START_SYNC", "BEGIN_HANDOFF"}
    BY <1>8, <2>2, Waits
  <2>4. op.cmd = "BEGIN_HANDOFF" /\ op.cmd \in Commands
    BY <1>1, <1>8, <2>2, <2>3 DEF IInv, StepsSound, Mid, Commands
  <2>5. /\ CommandsSound' /\ Went /\ op' = NoOp /\ op'.cmd = "none" /\ op'.at = "begin"
        /\ status'[op.cmd] = "completed"
    BY <1>1, <2>1, <2>4, Finishes
  <2>6. TypeOK'
    BY ZenonT(60), <1>1, <1>2, <1>3, <1>4, <1>5, <1>10, <1>8, <2>1, <2>2, <2>3, <2>4, <2>5 DEF IInv,
       TypeOK, Went
  <2>7. PhaseSound'
    BY <1>1, <1>3, <1>4, <1>5, <1>8, <2>2, <2>3, <2>4, <2>5 DEF IInv, PhaseSound, Commands, Went
  <2>8. StepsSound'
    BY ZenonT(60), <1>1, <1>2, <1>3, <1>4, <1>5, <1>10, <1>8, <2>1, <2>2, <2>3, <2>4, <2>5 DEF IInv,
       StepsSound, Mid, Went
  <2>9. WordSound'
    BY <1>1, <1>2, <1>4, <1>5, <1>8 DEF IInv, WordSound
  <2>10. StartSound'
    BY <1>3, <1>4, <1>5, <1>8, <2>2, <2>3, <2>4, <2>5 DEF IInv, StartSound, Commands, Went
  <2>11. ~resumed' => MeetingsSound'
    BY <1>1, <1>2, <1>3, <1>4, <1>5, <1>8, <2>1 DEF IInv, MeetingsSound, Over, Running, Kinds
  <2>12. ~resumed' => OpSound'
    BY <1>1, <1>3, <1>4, <1>5, <1>8, <2>2, <2>3, <2>4, <2>5 DEF IInv, OpSound, At, Running,
       Over, Kinds, Ending, active_runtime, Nonterminal, Went
  <2>13. ~resumed' => StopSound'
    BY <1>1, <1>3, <1>4, <1>5, <1>8, <2>1, <2>2, <2>3, <2>4, <2>5 DEF IInv, StopSound,
       Nonterminal, Commands, At, Kinds, Went
  <2>14. ~resumed' => WrittenSound'
    BY <1>1, <1>3, <1>4, <1>5, <1>10, <1>8, <2>2, <2>3, <2>4, <2>5 DEF IInv, WrittenSound,
       EndedIsWritten, Ended, CutOff, At, Kinds, Running, Ending, Went
  <2>15. ~resumed' => ReportedSound'
    BY <1>1, <1>3, <1>4, <1>5, <1>10, <1>8 DEF IInv, ReportedSound, CutOff, Kinds, Ended
  <2>16. QED
    BY <2>5, <2>6, <2>7, <2>8, <2>9, <2>10, <2>11, <2>12, <2>13, <2>14, <2>15 DEF IInv
<1>9. QED
  BY <1>6, <1>7, <1>8

LEMMA JoinsStep == ASSUME IInv, NEW h \in Humans, Joins(h) PROVE IInv'
<1>1. /\ UNCHANGED <<phase, status, received, runtime, marked, transcripts, events, preflight, queue, mode>>
      /\ UNCHANGED <<replay, starting, op, life, recorder_in, proxy_in>>
      /\ UNCHANGED <<resumed, cancelled, faults, crashes>>
  BY DEF Joins, rows, startup, Change
<1>2. changes' \in 0 .. MaxChanges
  BY Changed DEF Joins
<1>3. /\ barrier' = barrier /\ runs' \in [Runners -> {Idle} \cup RunSet]
      /\ \A o \in Runners :
            runs'[o] = runs[o]
            \/ (/\ o # "op" /\ runs'[o].policy = "handoff" /\ runs'[o].heard = {}
                /\ runs'[o].runtime = barrier /\ barrier # "none")
      /\ runs'["op"] = runs["op"]
  BY ReportWrites DEF Joins
<1>4. /\ present' \subseteq Humans /\ may_speak' \subseteq Humans
      /\ phase = "HANDOFF" => may_speak' \subseteq may_speak
  BY DEF Joins, IInv, TypeOK
<1>5. CommandsSound'
  BY <1>1, Unheld
<1>6. PhaseSound' /\ StartSound'
  BY <1>1 DEF IInv, PhaseSound, StartSound
<1>7. ~resumed' => StopSound' /\ ReportedSound'
  BY <1>1 DEF IInv, StopSound, ReportedSound, At, Nonterminal, CutOff
<1>8. ~resumed' => OpSound' /\ WrittenSound'
  BY <1>1 DEF IInv, OpSound, WrittenSound, At, Ending, active_runtime, Nonterminal,
     EndedIsWritten, CutOff
<1>9. TypeOK'
  BY ZenonT(60), <1>1, <1>2, <1>3, <1>4 DEF IInv, TypeOK
<1>10. StepsSound'
  BY <1>1, <1>3 DEF IInv, StepsSound, Mid
<1>11. WordSound'
  BY <1>1, <1>3, <1>4 DEF IInv, WordSound
<1>12. ~resumed' => MeetingsSound'
  BY <1>1, <1>3 DEF IInv, MeetingsSound, Over, Running, Kinds
<1>13. QED
  BY <1>5, <1>6, <1>7, <1>8, <1>9, <1>10, <1>11, <1>12 DEF IInv

LEMMA LeavesStep == ASSUME IInv, NEW h \in Humans, Leaves(h) PROVE IInv'
<1>1. /\ UNCHANGED <<phase, status, received, runtime, marked, transcripts, events, preflight, queue, mode>>
      /\ UNCHANGED <<replay, starting, op, life, recorder_in, proxy_in>>
      /\ UNCHANGED <<resumed, cancelled, faults, crashes>>
  BY DEF Leaves, rows, startup, Change
<1>2. changes' \in 0 .. MaxChanges
  BY Changed DEF Leaves
<1>3. /\ barrier' = barrier /\ runs' \in [Runners -> {Idle} \cup RunSet]
      /\ \A o \in Runners :
            runs'[o] = runs[o]
            \/ (/\ o # "op" /\ runs'[o].policy = "handoff" /\ runs'[o].heard = {}
                /\ runs'[o].runtime = barrier /\ barrier # "none")
      /\ runs'["op"] = runs["op"]
  BY ReportWrites DEF Leaves
<1>4. present' \subseteq Humans /\ may_speak' \subseteq Humans /\ may_speak' \subseteq may_speak
  BY DEF Leaves, IInv, TypeOK
<1>5. CommandsSound'
  BY <1>1, Unheld
<1>6. PhaseSound' /\ StartSound'
  BY <1>1 DEF IInv, PhaseSound, StartSound
<1>7. ~resumed' => StopSound' /\ ReportedSound'
  BY <1>1 DEF IInv, StopSound, ReportedSound, At, Nonterminal, CutOff
<1>8. ~resumed' => OpSound' /\ WrittenSound'
  BY <1>1 DEF IInv, OpSound, WrittenSound, At, Ending, active_runtime, Nonterminal,
     EndedIsWritten, CutOff
<1>9. TypeOK'
  BY ZenonT(60), <1>1, <1>2, <1>3, <1>4 DEF IInv, TypeOK
<1>10. StepsSound'
  BY <1>1, <1>3 DEF IInv, StepsSound, Mid
<1>11. WordSound'
  BY <1>1, <1>3, <1>4 DEF IInv, WordSound
<1>12. ~resumed' => MeetingsSound'
  BY <1>1, <1>3 DEF IInv, MeetingsSound, Over, Running, Kinds
<1>13. QED
  BY <1>5, <1>6, <1>7, <1>8, <1>9, <1>10, <1>11, <1>12 DEF IInv

LEMMA RestartStep ==
    ASSUME IInv, Restart, faults' \in 0 .. MaxFaults, crashes' \in 0 .. MaxCrashes, crashes' # 0
    PROVE  IInv'
<1>1. /\ UNCHANGED <<phase, status, received, runtime, marked, transcripts, events, preflight>>
      /\ UNCHANGED <<present, may_speak, resumed, cancelled, changes>>
      /\ mode' = "reconciling" /\ op' = Op("reconcile", "begin") /\ queue' = <<>> /\ replay' = {}
      /\ life' = "none" /\ barrier' = "none" /\ recorder_in' = FALSE /\ proxy_in' = FALSE
  BY DEF Restart, rows, Disconnect
<1>2. starting' \subseteq Kinds /\ \A k \in Kinds : k \in starting' <=> Nonterminal(k)
  BY DEF Restart
<1>3. /\ runs' \in [Runners -> {Idle} \cup RunSet] /\ "op" \in Runners
      /\ \A x \in Runners : runs'[x] = Idle /\ runs'[x].at = "idle"
  BY DEF Restart, Idle, Runners
<1>4. /\ op'.cmd = "reconcile" /\ op'.at = "begin"
      /\ op' \in [cmd : Commands \cup {"reconcile"}, at : Steps]
  BY <1>1 DEF Op, Steps
<1>5. CommandsSound' /\ queue' \in Seq(Commands)
  BY <1>1, <1>2, <1>4 DEF IInv, CommandsSound, Later, Commands
<1>6. faults' \in 0 .. MaxFaults /\ crashes' \in 0 .. MaxCrashes /\ crashes' # 0
  OBVIOUS
<1>7. "proxy" \in Kinds /\ "sync" \in Kinds /\ "proxy" # "sync"
  BY DEF Kinds
<1>8. PhaseSound' /\ StartSound'
  BY <1>1 DEF IInv, PhaseSound, StartSound
<1>9. ~resumed' => ReportedSound'
  BY <1>1 DEF IInv, ReportedSound, CutOff
<1>10. TypeOK'
  BY <1>1, <1>2, <1>3, <1>4, <1>5, <1>6 DEF IInv, TypeOK
<1>11. StepsSound'
  BY <1>1, <1>2, <1>3, <1>4, <1>7 DEF IInv, StepsSound, Mid, Nonterminal
<1>12. WordSound'
  BY <1>1, <1>3 DEF IInv, WordSound
<1>13. ~resumed' => MeetingsSound'
  BY <1>1, <1>2, <1>3, <1>7 DEF IInv, MeetingsSound, Over, Running, Kinds, Nonterminal
<1>14. ~resumed' => OpSound'
  BY <1>1, <1>3, <1>4 DEF IInv, OpSound, At, Running, Over, Kinds, Ending, active_runtime,
     Nonterminal
<1>15. ~resumed' => StopSound'
  BY <1>1, <1>2, <1>3, <1>4 DEF IInv, StopSound, Nonterminal, Commands, At, Kinds
<1>16. ~resumed' => WrittenSound'
  BY <1>1, <1>3, <1>4, <1>6 DEF IInv, WrittenSound, EndedIsWritten, Ended, CutOff, At, Kinds,
     Running, Ending
<1>17. QED
  BY <1>5, <1>8, <1>9, <1>10, <1>11, <1>12, <1>13, <1>14, <1>15, <1>16 DEF IInv

LEMMA CrashStep == ASSUME IInv, Crash PROVE IInv'
<1>1. /\ faults \in 0 .. MaxFaults /\ crashes \in 0 .. MaxCrashes
      /\ MaxFaults \in Nat /\ MaxCrashes \in Nat /\ faults < MaxFaults /\ crashes < MaxCrashes
  <2>1. faults \in 0 .. MaxFaults /\ crashes \in 0 .. MaxCrashes
    BY DEF IInv, TypeOK
  <2>2. faults < MaxFaults /\ crashes < MaxCrashes
    BY DEF Crash
  <2>3. QED
    BY <2>1, <2>2, MediaRuntimeAssumption
<1>2. faults' = faults + 1 /\ crashes' = crashes + 1
  BY DEF Crash
<1>3. faults' \in 0 .. MaxFaults /\ crashes' \in 0 .. MaxCrashes /\ crashes' # 0
  BY <1>1, <1>2
<1>4. QED
  BY <1>3, RestartStep DEF Crash

LEMMA StartFailsStep == ASSUME IInv, StartFails PROVE IInv'
<1>1. Restart /\ UNCHANGED <<faults, crashes>> /\ op.cmd = "reconcile"
  BY DEF StartFails, At
<1>2. faults' \in 0 .. MaxFaults /\ crashes' \in 0 .. MaxCrashes /\ crashes' # 0
  BY <1>1 DEF IInv, TypeOK, CommandsSound
<1>3. QED
  BY <1>1, <1>2, RestartStep

LEMMA ReconcileProxyStep == ASSUME IInv, ReconcileProxy PROVE IInv'
<1>1. op.cmd = "reconcile" /\ op.at = "begin" /\ "proxy" \in starting
  BY DEF ReconcileProxy, At
<1>2. /\ UNCHANGED <<phase, status, received, marked, transcripts, preflight, queue, mode, replay>>
      /\ UNCHANGED <<present, may_speak, resumed, cancelled, changes, faults, crashes>>
  BY DEF ReconcileProxy, counters
<1>3. /\ runtime \in [Kinds -> [state : RuntimeState, ended : BOOLEAN]]
      /\ "proxy" \in Kinds /\ "sync" \in Kinds /\ "proxy" # "sync"
  BY DEF IInv, TypeOK, Kinds
<1>4. ~resumed => status["STOP"] # "completed"
  BY <1>1 DEF IInv, StopSound
<1>5. Mid = Idle /\ \A x \in Runners : runs[x].at # "idle" => runs[x].policy # "sync"
  BY <1>1, NoSyncRun
<1>6. ASSUME Rebuilt("proxy")
      PROVE  /\ CommandsSound' /\ op' \in [cmd : Commands \cup {"reconcile"}, at : Steps]
             /\ op'.cmd = "reconcile" /\ op'.at = "begin" /\ mode = "reconciling" /\ crashes # 0
             /\ starting' \subseteq Kinds /\ starting' = starting \ {"proxy"}
  <2>1. op' = Op("reconcile", "begin") /\ starting' = starting \ {"proxy"}
    BY <1>6 DEF Rebuilt
  <2>2. QED
    BY <1>1, <1>2, <2>1, Rebuilds DEF Steps
<1>7. CASE /\ "sync" \in starting /\ SetState("proxy", "STOPPED", TRUE) /\ Rebuilt("proxy")
           /\ UNCHANGED <<events, life, barrier, runs, recorder_in, proxy_in>>
  <2>1. resumed
    BY <1>1, <1>7 DEF IInv, MeetingsSound
  <2>2. /\ CommandsSound' /\ op' \in [cmd : Commands \cup {"reconcile"}, at : Steps]
        /\ op'.cmd = "reconcile" /\ op'.at = "begin" /\ mode = "reconciling" /\ crashes # 0
        /\ starting' \subseteq Kinds /\ starting' = starting \ {"proxy"}
    BY <1>6, <1>7
  <2>3. /\ runtime' \in [Kinds -> [state : RuntimeState, ended : BOOLEAN]]
        /\ runtime'["sync"] = runtime["sync"]
        /\ runtime'["proxy"].state = "STOPPED" /\ runtime'["proxy"].ended
    <3>1. TypeOK /\ "STOPPED" \in RuntimeState /\ TRUE \in BOOLEAN
      BY DEF IInv, RuntimeState
    <3>2. SetState("proxy", "STOPPED", TRUE)
      BY <1>7
    <3>3. QED
      BY <1>3, <3>1, <3>2, SetStateWrites
  <2>4. WordSound'
    BY <1>2, <1>7 DEF IInv, WordSound
  <2>5. TypeOK'
    BY <1>1, <1>2, <1>3, <1>4, <1>5, <1>6, <1>7, <2>1, <2>2, <2>3 DEF IInv, TypeOK
  <2>6. PhaseSound'
    BY <1>1, <1>2, <1>3, <1>4, <1>6, <1>7, <2>2, <2>3 DEF IInv, PhaseSound, Commands
  <2>7. StepsSound'
    BY <1>1, <1>3, <1>5, <1>6, <1>7, <2>2, <2>3 DEF IInv, StepsSound, Mid
  <2>8. StartSound'
    BY <1>1, <1>2, <1>3, <1>4, <1>6, <1>7, <2>2, <2>3 DEF IInv, StartSound, Commands
  <2>9. ~resumed' => MeetingsSound'
    BY <1>1, <1>2, <1>3, <1>4, <1>5, <1>6, <1>7, <2>1, <2>2, <2>3 DEF IInv, MeetingsSound,
       Over, Running, Kinds
  <2>10. ~resumed' => OpSound'
    BY <1>1, <1>2, <1>3, <1>4, <1>6, <1>7, <2>1, <2>2, <2>3 DEF IInv, OpSound, At, Running,
       Over, Kinds, Ending, active_runtime, Nonterminal
  <2>11. ~resumed' => StopSound'
    BY <1>1, <1>2, <1>3, <1>4, <1>6, <1>7, <2>1, <2>2, <2>3 DEF IInv, StopSound, Nonterminal,
       Commands, At, Kinds
  <2>12. ~resumed' => WrittenSound'
    BY <1>1, <1>2, <1>3, <1>4, <1>6, <1>7, <2>1, <2>2, <2>3 DEF IInv, WrittenSound,
       EndedIsWritten, Ended, CutOff, At, Kinds, Running, Ending
  <2>13. ~resumed' => ReportedSound'
    BY <1>2, <1>3, <1>4, <1>7, <2>1, <2>3 DEF IInv, ReportedSound, CutOff, Kinds, Ended
  <2>14. QED
    BY <2>2, <2>4, <2>5, <2>6, <2>7, <2>8, <2>9, <2>10, <2>11, <2>12, <2>13 DEF IInv
<1>8. CASE /\ recorder_in' = TRUE /\ runtime["proxy"].state \in {"PREPARING", "ACTIVE"}
           /\ start_session("proxy") /\ proxy_in' = TRUE
           /\ write_runtime_event("proxy", "ACTIVE", FALSE, Ready("proxy"))
           /\ Rebuilt("proxy") /\ UNCHANGED <<runs, barrier>>
  <2>1. SetState("proxy", "ACTIVE", FALSE) /\ events' = events \cup {"MEDIA_READY proxy"}
    BY <1>8 DEF write_runtime_event, Ready
  <2>2. /\ CommandsSound' /\ op' \in [cmd : Commands \cup {"reconcile"}, at : Steps]
        /\ op'.cmd = "reconcile" /\ op'.at = "begin" /\ mode = "reconciling" /\ crashes # 0
        /\ starting' \subseteq Kinds /\ starting' = starting \ {"proxy"}
    BY <1>6, <1>8
  <2>3. /\ runtime' \in [Kinds -> [state : RuntimeState, ended : BOOLEAN]]
        /\ runtime'["sync"] = runtime["sync"]
        /\ runtime'["proxy"].state = "ACTIVE" /\ (runtime'["proxy"].ended <=> runtime["proxy"].ended)
    BY <1>3, <2>1, SetStateWrites DEF IInv, RuntimeState
  <2>4. life' = (IF life = "none" THEN "proxy" ELSE life) /\ life' \in Kinds
    BY <1>8 DEF start_session, IInv, TypeOK, Kinds
  <2>5. ~resumed => runtime["sync"].state = "none" /\ ~marked
    BY <1>3, <1>8 DEF IInv, MeetingsSound, Over
  <2>6. WordSound'
    BY <1>2, <1>8 DEF IInv, WordSound
  <2>7. TypeOK'
    BY <1>1, <1>2, <1>3, <1>4, <1>5, <1>6, <1>8, <2>1, <2>2, <2>3, <2>4, <2>5 DEF IInv, TypeOK,
       EventSet
  <2>8. PhaseSound'
    BY <1>1, <1>2, <1>3, <1>4, <1>6, <1>8, <2>2, <2>3, <2>5 DEF IInv, PhaseSound, Commands
  <2>9. StepsSound'
    BY <1>1, <1>3, <1>5, <1>6, <1>8, <2>1, <2>2, <2>3, <2>5 DEF IInv, StepsSound, Mid
  <2>10. StartSound'
    BY <1>1, <1>2, <1>3, <1>4, <1>6, <1>8, <2>2, <2>3, <2>5 DEF IInv, StartSound, Commands
  <2>11. ~resumed' => MeetingsSound'
    BY <1>1, <1>2, <1>3, <1>4, <1>5, <1>6, <1>8, <2>2, <2>3, <2>4, <2>5 DEF IInv,
       MeetingsSound, Over, Running, Kinds
  <2>12. ~resumed' => OpSound'
    BY <1>1, <1>2, <1>3, <1>4, <1>6, <1>8, <2>2, <2>3, <2>4, <2>5 DEF IInv, OpSound, At,
       Running, Over, Kinds, Ending, active_runtime, Nonterminal
  <2>13. ~resumed' => StopSound'
    BY <1>1, <1>2, <1>3, <1>4, <1>6, <1>8, <2>2, <2>3, <2>4, <2>5 DEF IInv, StopSound,
       Nonterminal, Commands, At, Kinds
  <2>14. ~resumed' => WrittenSound'
    BY <1>1, <1>2, <1>3, <1>4, <1>6, <1>8, <2>1, <2>2, <2>3, <2>4, <2>5 DEF IInv, WrittenSound,
       EndedIsWritten, Ended, CutOff, At, Kinds, Running, Ending
  <2>15. ~resumed' => ReportedSound'
    BY <1>2, <1>3, <1>4, <1>8, <2>1, <2>3, <2>5 DEF IInv, ReportedSound, CutOff, Kinds, Ended
  <2>16. QED
    BY <2>2, <2>6, <2>7, <2>8, <2>9, <2>10, <2>11, <2>12, <2>13, <2>14, <2>15 DEF IInv
<1>9. CASE /\ recorder_in' = TRUE /\ marked /\ barrier' = "proxy" /\ Refresh("op")
           /\ op' = Op("reconcile", "policy") /\ UNCHANGED <<starting, runtime, events, life, proxy_in>>
  <2>1. /\ CommandsSound' /\ op' \in [cmd : Commands \cup {"reconcile"}, at : Steps]
        /\ op'.cmd = "reconcile" /\ op'.at = "policy" /\ mode = "reconciling" /\ crashes # 0
        /\ starting' \subseteq Kinds
    BY <1>1, <1>2, <1>9, Rebuilds DEF Steps
  <2>2. /\ runs' \in [Runners -> {Idle} \cup RunSet] /\ runs'["op"] # Idle
        /\ runs'["op"].policy = "handoff" /\ runs'["op"].heard = {} /\ runs'["op"].runtime = "proxy"
        /\ \A o \in Runners \ {"op"} : runs'[o] = runs[o]
    BY <1>3, <1>9, RunStarts DEF Refresh, Runners
  <2>3. phase # "PROXY_MEETING"
    BY <1>9 DEF IInv, PhaseSound
  <2>4. PhaseSound' /\ StartSound'
    BY <1>2, <1>9 DEF IInv, PhaseSound, StartSound
  <2>5. ~resumed' => ReportedSound'
    BY <1>2, <1>9 DEF IInv, ReportedSound, CutOff
  <2>6. TypeOK'
    BY <1>1, <1>2, <1>3, <1>4, <1>5, <1>6, <1>9, <2>1, <2>2, <2>3 DEF IInv, TypeOK
  <2>7. StepsSound'
    BY <1>1, <1>3, <1>5, <1>6, <1>9, <2>1, <2>2 DEF IInv, StepsSound, Mid
  <2>8. WordSound'
    BY <1>2, <1>5, <1>9, <2>2, <2>3 DEF IInv, WordSound
  <2>9. ~resumed' => MeetingsSound'
    BY <1>1, <1>2, <1>3, <1>4, <1>5, <1>6, <1>9, <2>1, <2>2 DEF IInv, MeetingsSound, Over,
       Running, Kinds
  <2>10. ~resumed' => OpSound'
    BY <1>1, <1>2, <1>3, <1>4, <1>6, <1>9, <2>1, <2>2 DEF IInv, OpSound, At, Running, Over,
       Kinds, Ending, active_runtime, Nonterminal
  <2>11. ~resumed' => StopSound'
    BY <1>1, <1>2, <1>3, <1>4, <1>6, <1>9, <2>1, <2>2 DEF IInv, StopSound, Nonterminal,
       Commands, At, Kinds
  <2>12. ~resumed' => WrittenSound'
    BY <1>1, <1>2, <1>3, <1>4, <1>6, <1>9, <2>1, <2>2 DEF IInv, WrittenSound, EndedIsWritten,
       Ended, CutOff, At, Kinds, Running, Ending
  <2>13. QED
    BY <2>1, <2>4, <2>5, <2>6, <2>7, <2>8, <2>9, <2>10, <2>11, <2>12 DEF IInv
<1>10. CASE /\ recorder_in' = TRUE /\ Rebuilt("proxy")
            /\ UNCHANGED <<runs, barrier, runtime, events, life, proxy_in>>
  <2>1. /\ CommandsSound' /\ op' \in [cmd : Commands \cup {"reconcile"}, at : Steps]
        /\ op'.cmd = "reconcile" /\ op'.at = "begin" /\ mode = "reconciling" /\ crashes # 0
        /\ starting' \subseteq Kinds /\ starting' = starting \ {"proxy"}
    BY <1>6, <1>10
  <2>2. PhaseSound' /\ WordSound' /\ StartSound'
    BY <1>2, <1>10 DEF IInv, PhaseSound, WordSound, StartSound
  <2>3. ~resumed' => MeetingsSound' /\ ReportedSound'
    BY <1>2, <1>6, <1>10 DEF IInv, MeetingsSound, ReportedSound, CutOff
  <2>4. TypeOK'
    BY <1>1, <1>2, <1>3, <1>4, <1>5, <1>6, <1>10, <2>1 DEF IInv, TypeOK
  <2>5. StepsSound'
    BY <1>1, <1>3, <1>5, <1>6, <1>10, <2>1 DEF IInv, StepsSound, Mid
  <2>6. ~resumed' => OpSound'
    BY <1>1, <1>2, <1>3, <1>4, <1>6, <1>10, <2>1 DEF IInv, OpSound, At, Running, Over, Kinds,
       Ending, active_runtime, Nonterminal
  <2>7. ~resumed' => StopSound'
    BY <1>1, <1>2, <1>3, <1>4, <1>6, <1>10, <2>1 DEF IInv, StopSound, Nonterminal, Commands,
       At, Kinds
  <2>8. ~resumed' => WrittenSound'
    BY <1>1, <1>2, <1>3, <1>4, <1>6, <1>10, <2>1 DEF IInv, WrittenSound, EndedIsWritten, Ended,
       CutOff, At, Kinds, Running, Ending
  <2>9. QED
    BY <2>1, <2>2, <2>3, <2>4, <2>5, <2>6, <2>7, <2>8 DEF IInv
<1>11. QED
  BY <1>7, <1>8, <1>9, <1>10 DEF ReconcileProxy

LEMMA ReconcileSyncStep == ASSUME IInv, ReconcileSync PROVE IInv'
<1>1. op.cmd = "reconcile" /\ op.at = "begin" /\ starting = {"sync"}
  BY DEF ReconcileSync, At
<1>2. /\ UNCHANGED <<phase, status, received, runtime, marked, transcripts, events, preflight, queue, mode>>
      /\ UNCHANGED <<replay, starting, barrier, present, may_speak, proxy_in>>
      /\ UNCHANGED <<resumed, cancelled, changes, faults, crashes>>
      /\ recorder_in' = TRUE /\ op' = Op("reconcile", "policy")
  BY DEF ReconcileSync, rows, startup, counters
<1>3. /\ runtime \in [Kinds -> [state : RuntimeState, ended : BOOLEAN]]
      /\ "proxy" \in Kinds /\ "sync" \in Kinds /\ "proxy" # "sync"
      /\ runtime["sync"].state # "none" /\ phase \notin {"PROXY_MEETING", "HANDOFF"}
  BY <1>1 DEF IInv, TypeOK, StepsSound, PhaseSound, Kinds
<1>4. ~resumed => status["STOP"] # "completed"
  BY <1>1 DEF IInv, StopSound
<1>5. life' = (IF life = "none" THEN "sync" ELSE life) /\ life' \in Kinds
  BY DEF ReconcileSync, start_session, IInv, TypeOK, Kinds
<1>6. /\ CommandsSound' /\ op' \in [cmd : Commands \cup {"reconcile"}, at : Steps]
      /\ op'.cmd = "reconcile" /\ op'.at = "policy" /\ mode = "reconciling" /\ crashes # 0
      /\ starting' \subseteq Kinds
  BY <1>1, <1>2, Rebuilds DEF Steps
<1>7. /\ runs' \in [Runners -> {Idle} \cup RunSet] /\ runs'["op"] # Idle
      /\ runs'["op"].policy = "sync" /\ runs'["op"].heard = {} /\ runs'["op"].runtime = "no runtime"
      /\ \A o \in Runners \ {"op"} : runs'[o] = runs[o]
  BY RunStarts DEF ReconcileSync, Runners
<1>8. PhaseSound' /\ StartSound'
  BY <1>2 DEF IInv, PhaseSound, StartSound
<1>9. ~resumed' => ReportedSound'
  BY <1>2 DEF IInv, ReportedSound, CutOff
<1>10. TypeOK'
  BY <1>1, <1>2, <1>3, <1>4, <1>5, <1>6, <1>7 DEF IInv, TypeOK
<1>11. StepsSound'
  BY <1>1, <1>2, <1>3, <1>6, <1>7 DEF IInv, StepsSound, Mid
<1>12. WordSound'
  BY <1>2, <1>3, <1>7 DEF IInv, WordSound
<1>13. ~resumed' => MeetingsSound'
  BY ZenonT(60), <1>1, <1>2, <1>3, <1>4, <1>5, <1>6, <1>7 DEF IInv, MeetingsSound, Over, Running, Kinds
<1>14. ~resumed' => OpSound'
  BY <1>1, <1>2, <1>3, <1>4, <1>5, <1>6, <1>7 DEF IInv, OpSound, At, Running, Over, Kinds,
     Ending, active_runtime, Nonterminal
<1>15. ~resumed' => StopSound'
  BY <1>1, <1>2, <1>3, <1>4, <1>5, <1>6, <1>7 DEF IInv, StopSound, Nonterminal, Commands, At,
     Kinds
<1>16. ~resumed' => WrittenSound'
  BY <1>1, <1>2, <1>3, <1>4, <1>5, <1>6, <1>7 DEF IInv, WrittenSound, EndedIsWritten, Ended,
     CutOff, At, Kinds, Running, Ending
<1>17. QED
  BY <1>6, <1>8, <1>9, <1>10, <1>11, <1>12, <1>13, <1>14, <1>15, <1>16 DEF IInv

LEMMA ReconcilePendingStep == ASSUME IInv, ReconcilePending PROVE IInv'
<1>1. /\ op.cmd = "reconcile" /\ op.at = "begin" /\ starting = {} /\ mode' = "replaying"
      /\ op' = NoOp /\ op'.cmd = "none" /\ op'.at = "begin"
  BY DEF ReconcilePending, At, NoOp
<1>2. /\ UNCHANGED <<phase, received, runtime, marked, transcripts, events, preflight, queue, starting>>
      /\ UNCHANGED <<life, barrier, runs, present, may_speak, recorder_in, proxy_in>>
      /\ UNCHANGED <<resumed, cancelled, changes, faults, crashes>>
  BY DEF ReconcilePending, room, counters
<1>3. /\ status \in [Commands -> Statuses] /\ status' \in [Commands -> Statuses]
      /\ replay' = {c \in Commands : Pending(c)}
      /\ \A c \in Commands : status'[c] = IF status[c] = "processing" THEN "accepted" ELSE status[c]
  BY DEF ReconcilePending, IInv, TypeOK, Statuses
<1>4. mode = "reconciling" /\ queue = <<>> /\ crashes # 0
  BY <1>1 DEF IInv, CommandsSound
<1>5. \A c \in Commands : /\ status'[c] = "none" <=> status[c] = "none"
                          /\ status'[c] # "processing"
                          /\ status'[c] = "accepted" => c \in replay'
                          /\ c \in replay' => status'[c] # "none"
  BY <1>3 DEF Pending
<1>6. replay' \subseteq Commands
  BY <1>3
<1>7. CommandsSound'
  <2>1. \A c \in Commands : status'[c] # "none" <=> \E i \in DOMAIN received' : received'[i] = c
    BY <1>2, <1>5 DEF IInv, CommandsSound
  <2>2. QED
    BY <1>1, <1>2, <1>4, <1>5, <1>6, <2>1 DEF IInv, CommandsSound, Later, InQueue, Commands
<1>8. Mid = Idle /\ \A x \in Runners : runs[x].at # "idle" => runs[x].policy # "sync"
  BY <1>1, NoSyncRun
<1>9. WordSound'
  BY <1>2 DEF IInv, WordSound
<1>10. ~resumed' => MeetingsSound' /\ ReportedSound'
  BY <1>2 DEF IInv, MeetingsSound, ReportedSound, CutOff
<1>11. TypeOK'
  BY <1>1, <1>2, <1>3, <1>4, <1>5, <1>6, <1>8 DEF IInv, TypeOK
<1>12. PhaseSound'
  BY <1>1, <1>2, <1>3, <1>5 DEF IInv, PhaseSound, Commands
<1>13. StepsSound'
  BY <1>1, <1>2, <1>8 DEF IInv, StepsSound, Mid
<1>14. StartSound'
  BY <1>1, <1>2, <1>3, <1>5 DEF IInv, StartSound, Commands
<1>15. ~resumed' => OpSound'
  BY <1>1, <1>2 DEF IInv, OpSound, At, Running, Over, Kinds, Ending, active_runtime, Nonterminal
<1>16. ~resumed' => StopSound'
  BY <1>1, <1>2, <1>3, <1>5 DEF IInv, StopSound, Nonterminal, Commands, At, Kinds
<1>17. ~resumed' => WrittenSound'
  BY <1>1, <1>2, <1>4 DEF IInv, WrittenSound, EndedIsWritten, Ended, CutOff, At, Kinds,
     Running, Ending
<1>18. QED
  BY <1>7, <1>9, <1>10, <1>11, <1>12, <1>13, <1>14, <1>15, <1>16, <1>17 DEF IInv

LEMMA ServeStep == ASSUME IInv, Serve PROVE IInv'
<1>1. /\ UNCHANGED <<phase, status, received, runtime, marked, transcripts, events, preflight, queue>>
      /\ UNCHANGED <<replay, starting, op, life, barrier, runs, present, may_speak, recorder_in, proxy_in>>
      /\ UNCHANGED <<resumed, cancelled, changes, faults, crashes>>
      /\ mode = "replaying" /\ replay = {} /\ op.cmd = "none" /\ mode' = "serving"
  BY DEF Serve, rows, room, counters, NoOp
<1>2. CommandsSound'
  BY <1>1 DEF IInv, CommandsSound, InQueue, Later
<1>3. PhaseSound' /\ StepsSound' /\ WordSound' /\ StartSound'
  BY <1>1 DEF IInv, PhaseSound, StepsSound, WordSound, StartSound, Mid
<1>4. ~resumed' => MeetingsSound' /\ StopSound' /\ ReportedSound'
  BY <1>1 DEF IInv, MeetingsSound, StopSound, ReportedSound, At, Nonterminal, CutOff
<1>5. ~resumed' => OpSound' /\ WrittenSound'
  BY <1>1 DEF IInv, OpSound, WrittenSound, At, Ending, active_runtime, Nonterminal,
     EndedIsWritten, CutOff
<1>6. TypeOK'
  BY <1>1 DEF IInv, TypeOK
<1>7. QED
  BY <1>2, <1>3, <1>4, <1>5, <1>6 DEF IInv

LEMMA StutterStep == ASSUME IInv, UNCHANGED vars PROVE IInv'
<1>1. /\ UNCHANGED <<phase, status, received, runtime, marked, transcripts, events, preflight, queue, mode>>
      /\ UNCHANGED <<replay, starting, op, life, barrier, runs, present, may_speak, recorder_in, proxy_in>>
      /\ UNCHANGED <<resumed, cancelled, changes, faults, crashes>>
  BY DEF vars, rows, memory, startup, room, counters
<1>2. CommandsSound'
  BY <1>1, Unheld
<1>3. PhaseSound' /\ StepsSound' /\ WordSound' /\ StartSound'
  BY ZenonT(60), <1>1 DEF IInv, PhaseSound, StepsSound, WordSound, StartSound, Mid
<1>4. ~resumed' => MeetingsSound' /\ StopSound' /\ ReportedSound'
  BY <1>1 DEF IInv, MeetingsSound, StopSound, ReportedSound, At, Nonterminal, CutOff
<1>5. ~resumed' => OpSound' /\ WrittenSound'
  BY <1>1 DEF IInv, OpSound, WrittenSound, At, Ending, active_runtime, Nonterminal,
     EndedIsWritten, CutOff
<1>6. TypeOK'
  BY ZenonT(60), <1>1 DEF IInv, TypeOK
<1>7. QED
  BY <1>2, <1>3, <1>4, <1>5, <1>6 DEF IInv

LEMMA InitInvariant == Init => IInv
<1> SUFFICES ASSUME Init PROVE IInv
  OBVIOUS
<1>1. NoOp.cmd = "none" /\ NoOp.at = "begin" /\ Idle.at = "idle"
  BY DEF NoOp, Idle
<1>2. /\ status = [c \in Commands |-> "none"] /\ \A c \in Commands : status[c] = "none"
      /\ status["STOP"] = "none" /\ status["START_SYNC"] = "none" /\ status["START_PROXY"] = "none"
      /\ status["BEGIN_HANDOFF"] = "none"
  BY DEF Init, Commands
<1>3. /\ "proxy" \in Kinds /\ "sync" \in Kinds /\ "op" \in Runners
      /\ \A k \in Kinds : runtime[k].state = "none" /\ ~runtime[k].ended
      /\ runtime \in [Kinds -> [state : RuntimeState, ended : BOOLEAN]]
      /\ \A x \in Runners : runs[x] = Idle
  BY DEF Init, Kinds, Runners, RuntimeState
<1>4. TypeOK
  <2>1. /\ changes \in 0 .. MaxChanges /\ faults \in 0 .. MaxFaults /\ crashes \in 0 .. MaxCrashes
    BY MediaRuntimeAssumption DEF Init
  <2>2. /\ phase \in Phases /\ status \in [Commands -> Statuses] /\ preflight \in BOOLEAN
        /\ present \subseteq Humans /\ may_speak \subseteq Humans
    BY DEF Init, Phases, Statuses
  <2>3. received \in Seq(Commands) /\ queue \in Seq(Commands)
    BY DEF Init
  <2>4. runs \in [Runners -> {Idle} \cup RunSet]
    BY DEF Init
  <2>5. QED
    BY <1>3, <2>1, <2>2, <2>3, <2>4 DEF Init, TypeOK
<1>5. PhaseSound /\ StartSound
  BY <1>2, <1>3 DEF Init, PhaseSound, StartSound
<1>6. CommandsSound
  BY <1>1, <1>2 DEF Init, CommandsSound, Later, InQueue, Commands
<1>7. StepsSound
  BY <1>1, <1>3 DEF Init, StepsSound, Mid, Commands
<1>8. WordSound
  BY <1>3 DEF Init, WordSound
<1>9. MeetingsSound
  BY <1>1, <1>3 DEF Init, MeetingsSound, Over, Kinds
<1>10. OpSound
  BY <1>1 DEF Init, OpSound, At
<1>11. StopSound
  BY <1>2 DEF StopSound
<1>12. WrittenSound
  BY <1>1, <1>3 DEF Init, WrittenSound, EndedIsWritten, Running, At
<1>13. ReportedSound
  BY <1>3 DEF ReportedSound
<1>14. QED
  BY <1>4, <1>5, <1>6, <1>7, <1>8, <1>9, <1>10, <1>11, <1>12, <1>13 DEF IInv

LEMMA NextInvariant == IInv /\ [Next]_vars => IInv'
<1> SUFFICES ASSUME IInv, [Next]_vars PROVE IInv'
  OBVIOUS
<1>1. CASE Advance \/ DeviceStatus \/ \E c \in Commands : Issue(c)
  BY <1>1, AdvanceStep, DeviceStatusStep, IssueStep
<1>2. CASE StartOp
  BY <1>2, StartOpStep
<1>3. CASE Proxy
  BY <1>3, StartProxyStep, ConnectRecorderStep, ConnectProxyStep DEF Proxy
<1>4. CASE Sync
  BY <1>4, StartSyncStep, FinalizePreviousStep, RetirePreviousStep, CreateSyncStep, SyncAppliedStep
     DEF Sync
<1>5. CASE End
  BY <1>5, EndCurrentStep, FinalizeMeetingStep, LeaveMeetingStep DEF End
<1>6. CASE Handoff
  BY <1>6, BeginHandoffStep, StopProxyStep, SetBarrierStep DEF Handoff
<1>7. CASE Stop
  BY <1>7, StopSessionStep, StopRoomsStep DEF Stop
<1>8. CASE Reconcile
  BY <1>8, ReconcileProxyStep, ReconcileSyncStep, ReconcilePendingStep, StartFailsStep, ServeStep
     DEF Reconcile
<1>9. CASE \E x \in Runners : Policy(x)
  BY <1>9, ListRoomStep, UpdatePermissionStep, UpdateFailsStep, ObserveStep DEF Policy
<1>10. CASE \E h \in Humans : Joins(h) \/ Leaves(h)
  BY <1>10, JoinsStep, LeavesStep
<1>11. CASE Crash \/ UNCHANGED vars
  BY <1>11, CrashStep, StutterStep
<1>12. QED
  BY <1>1, <1>2, <1>3, <1>4, <1>5, <1>6, <1>7, <1>8, <1>9, <1>10, <1>11 DEF Next, Service

LEMMA RuntimeInvariant == Spec => []IInv
BY InitInvariant, NextInvariant, PTL DEF Spec

(* X is in the room only in its meeting, and nobody and nothing of B once the *)
(* session is stopped.                                                       *)
LEMMA RoomSound == IInv => RoomFollowsMeetings
<1> SUFFICES ASSUME IInv PROVE RoomFollowsMeetings
  OBVIOUS
<1>1. "proxy" \in Kinds /\ "sync" \in Kinds
  BY DEF Kinds
<1>2. ProxyOnlyInItsMeeting
  BY <1>1 DEF IInv, ProxyOnlyInItsMeeting, MeetingsSound, StepsSound, Over
<1>3. StoppedIsOut
  BY DEF IInv, StoppedIsOut, StopSound
<1>4. QED
  BY <1>2, <1>3 DEF IInv, RoomFollowsMeetings

LEMMA EndSound == IInv => EndIsComplete
BY DEF IInv, EndIsComplete, WrittenSound, ReportedSound, EndedIsWrittenUnlessRestarted,
   StoppedIsReported

(* The step that reports the handoff complete is that of a run that has       *)
(* muted everybody.                                                          *)
LEMMA HandoffSound ==
    IInv /\ [Next]_vars =>
        (("HANDOFF_COMPLETE" \in events' /\ "HANDOFF_COMPLETE" \notin events
              /\ phase = "HANDOFF" /\ ~resumed)
            => ~proxy_in' /\ life' # "proxy" /\ may_speak' = {})
<1> SUFFICES ASSUME IInv, [Next]_vars, "HANDOFF_COMPLETE" \in events', "HANDOFF_COMPLETE" \notin events,
                    phase = "HANDOFF", ~resumed
             PROVE  ~proxy_in' /\ life' # "proxy" /\ may_speak' = {}
  OBVIOUS
<1>1. events' # events /\ events' # events \cup {"MEDIA_ERROR"}
      /\ \A k \in Kinds : events' # events \cup {Ready(k)} /\ events' # events \cup {Ended(k)}
  <2>1. \A k \in Kinds : Ready(k) # "HANDOFF_COMPLETE" /\ Ended(k) # "HANDOFF_COMPLETE"
    BY DEF Ready, Ended
  <2>2. QED
    BY <2>1
<1>2. "proxy" \in Kinds /\ "sync" \in Kinds /\ Ending \in Kinds
  BY DEF Kinds, Ending
<1>3. ~Fails /\ \A at \in Steps : ~GoesTo(at)
  BY <1>1 DEF Fails, GoesTo
<1>4. \E x \in Runners : Observe(x) /\ runs[x].heard = Humans /\ runs[x].runtime = "proxy"
  <2>1. ~(Advance \/ DeviceStatus \/ \E c \in Commands : Issue(c))
    BY <1>1 DEF Advance, DeviceStatus, Issue, rows
  <2>2. ~StartOp
    BY <1>1 DEF StartOp
  <2>3. ~Proxy
    BY <1>1, <1>2, <1>3 DEF Proxy, StartProxy, ConnectRecorder, ConnectProxy,
       write_runtime_event, Steps
  <2>4. ~Sync
    BY <1>1, <1>2, <1>3 DEF Sync, StartSync, FinalizePrevious, RetirePrevious, CreateSync,
       SyncApplied,
                          write_runtime_event, SameState, Steps, GoesTo
  <2>5. ~End
    BY <1>1, <1>2, <1>3 DEF End, EndCurrent, FinalizeMeeting, LeaveMeeting, write_runtime_event,
       SameState, Steps
  <2>6. ~Handoff
    BY <1>1, <1>3 DEF Handoff, BeginHandoff, StopProxy, SetBarrier, Steps
  <2>7. ~Stop
    BY <1>1, <1>3 DEF Stop, StopSession, StopRooms, Steps
  <2>8. ~Reconcile
    BY <1>1, <1>2 DEF Reconcile, ReconcileProxy, ReconcileSync, ReconcilePending, StartFails,
       Serve, Restart,
                      rows, write_runtime_event
  <2>9. ~Crash /\ ~UNCHANGED vars
    BY <1>1 DEF Crash, Restart, rows, vars
  <2>10. ~\E h \in Humans : Joins(h) \/ Leaves(h)
    BY <1>1 DEF Joins, Leaves, rows
  <2>11. PICK x \in Runners : Policy(x)
    BY <2>1, <2>2, <2>3, <2>4, <2>5, <2>6, <2>7, <2>8, <2>9, <2>10 DEF Next, Service
  <2>12. Observe(x)
    BY <1>1, <1>3, <2>11 DEF Policy, ListRoom, UpdatePermission, UpdateFails, rows
  <2>13. QED
    BY <1>1, <2>12 DEF Observe
<1>5. PICK x \in Runners : Observe(x) /\ runs[x].heard = Humans /\ runs[x].runtime = "proxy"
  BY <1>4
<1>6. UNCHANGED <<proxy_in, life, may_speak>> /\ runs[x].at = "update"
  BY <1>5 DEF Observe, room, Applied, Under
<1>7. runtime["proxy"].state \in {"HANDING_OFF", "STOPPED"}
  BY <1>5, <1>6 DEF IInv, MeetingsSound
<1>8. ~proxy_in /\ life # "proxy"
  BY <1>7 DEF IInv, MeetingsSound, Running
<1>9. may_speak = {}
  <2>1. Humans \cap may_speak = {} /\ may_speak \subseteq Humans
    BY <1>5, <1>6 DEF IInv, TypeOK, WordSound
  <2>2. QED
    BY <2>1
<1>10. QED
  BY <1>6, <1>8, <1>9

(* X is in the room only while its meeting is under way, and nothing of B is *)
(* left once the session is stopped, whatever fails and however often B       *)
(* starts again, until a start that has failed is run again.                 *)
THEOREM RuntimeRoom == Spec => []RoomFollowsMeetings
BY RuntimeInvariant, RoomSound, PTL

(* A meeting reported ended has its transcript unless B has died, and a      *)
(* meeting that stopped was reported ended unless the handoff cut it off.     *)
THEOREM RuntimeEnds == Spec => []EndIsComplete
BY RuntimeInvariant, EndSound, PTL

(* When the handoff is reported complete X has left and nobody may speak.     *)
THEOREM RuntimeHandoff == Spec => HandoffIsQuiet
<1>1. IInv /\ [Next]_vars =>
        [("HANDOFF_COMPLETE" \in events' /\ "HANDOFF_COMPLETE" \notin events
            /\ phase = "HANDOFF" /\ ~resumed)
        => ~proxy_in' /\ life' # "proxy" /\ may_speak' = {}]_vars
  BY HandoffSound
<1>2. QED
  BY <1>1, RuntimeInvariant, PTL DEF Spec, HandoffIsQuiet

=============================================================================
