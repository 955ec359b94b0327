------------------------------ MODULE AgentLoop -----------------------------
(***************************************************************************)
(* The language model agents of a HiddenProfile session on the legacy        *)
(* platform: the registry of AgentRunners, their perception loops, the       *)
(* threads that ask an agent for its vote, and the routes that start, pause  *)
(* and reset the session and replace its participants.  Nothing holds the    *)
(* registry, a runner or the session, and a call of the model may outlast    *)
(* any of these.                                                             *)
(***************************************************************************)
EXTENDS Naturals, FiniteSets

CONSTANTS
    Agents,         \* participants of type ai
    Candidates,
    RunnerIds,      \* AgentRunner objects: 1..N, in the order they are made
    LoopSlots,      \* perception threads that may be alive
    VoteSlots,      \* threads that are asking for a vote
    Routes,         \* requests that may be in flight
    MaxOps,         \* bound: requests
    MaxAgentRestarts \* bound: restarts of the server

ASSUME AgentAssumption ==
    /\ {MaxOps, MaxAgentRestarts} \subseteq Nat
    /\ RunnerIds \subseteq Nat \ {0} /\ IsFiniteSet(RunnerIds)
    /\ IsFiniteSet(Routes)
    /\ "none" \notin Agents \cup Candidates

VARIABLES
    people,         \* the session has participants of another type too; never changes
    status,         \* status of the session
    roster,         \* participants: agent -> [online, initial, final]
    listed,         \* what a browser has fetched of the participants: one roster, or none
    registry,       \* _agent_runners: agent -> runner, or NoRunner
    runners,        \* runner -> [who, on], or Unmade
    loops,          \* perception threads: slot -> [runner, at], or NoLoop
    votes,          \* vote threads: slot -> [who, kind, at], or NoVote
    routes,         \* requests: slot -> [at, todo], or Idling
    lateTurns,      \* history: turns of a loop since the session stopped running
    clashed,        \* history: two requests were in flight at once
    posted,         \* history: a list of participants was posted
    ops, agentRestarts

agentVars == <<people, status, roster, listed, registry, runners, loops, votes, routes,
               lateTurns, clashed, posted, ops, agentRestarts>>

NoRunner == 0
Unmade == [who |-> "none", on |-> FALSE]
NoLoop == [runner |-> NoRunner, at |-> "dead"]
NoVote == [at |-> "free"]
Idling == [at |-> "free"]
Kinds == {"initial", "final"}

AgentInit ==
    /\ people \in BOOLEAN
    /\ status = "waiting"
    /\ roster = [a \in Agents |-> [online |-> FALSE, initial |-> "none", final |-> "none"]]
    /\ listed = {}
    /\ registry = [a \in Agents |-> NoRunner]
    /\ runners = [i \in RunnerIds |-> Unmade]
    /\ loops = [l \in LoopSlots |-> NoLoop]
    /\ votes = [v \in VoteSlots |-> NoVote]
    /\ routes = [r \in Routes |-> Idling]
    /\ lateTurns = [l \in LoopSlots |-> 0]
    /\ clashed = FALSE /\ posted = FALSE /\ ops = 0 /\ agentRestarts = 0

-----------------------------------------------------------------------------
(* Votes                                                                     *)
\* A thread that will ask agent a for its vote: of its runner, or of whichever
\* is registered when the thread looks for one.
AskVote(a, kind, own) ==
    \E v \in VoteSlots :
        /\ votes[v] = NoVote
        /\ votes' = [votes EXCEPT ![v] = [who |-> a, kind |-> kind, own |-> own, at |-> "check"]]

\* _trigger_vote: does nothing if the vote is there, else asks the model.
TriggerVote(v) ==
    /\ votes[v].at = "check"
    /\ votes' = [votes EXCEPT ![v] =
            IF (@.own \/ registry[@.who] # NoRunner) /\ roster[@.who][@.kind] = "none"
            THEN [@ EXCEPT !.at = "call"] ELSE NoVote]
    /\ UNCHANGED <<status, roster, listed, registry, runners, loops, routes, lateTurns, posted, ops, agentRestarts>>

(* Mutant: the vote is not looked at again when the model has answered. *)
CastVote_Blindly(a, kind, c) == roster' = [roster EXCEPT ![a][kind] = c]

\* submit_initial_vote, submit_final_vote: the first vote counts.
CastVote(a, kind, c) ==
    roster' = IF roster[a][kind] = "none" THEN [roster EXCEPT ![a][kind] = c] ELSE roster

\* The model answers the vote prompt, or not.
Vote(v) ==
    /\ votes[v].at = "call"
    /\ status # "gone"
    /\ \/ \E c \in Candidates : CastVote(votes[v].who, votes[v].kind, c)
       \/ UNCHANGED roster
    /\ votes' = [votes EXCEPT ![v] = NoVote]
    /\ UNCHANGED <<status, listed, registry, runners, loops, routes, lateTurns, posted, ops, agentRestarts>>

-----------------------------------------------------------------------------
(* AgentRunner                                                               *)
\* start: nothing if it is running; else a loop, and a vote if nobody else will
\* ask for it.
StartRunner(i, a) ==
    IF runners[i].on THEN UNCHANGED <<runners, loops, votes>>
    ELSE /\ runners' = [runners EXCEPT ![i] = [who |-> a, on |-> TRUE]]
         /\ \E l \in LoopSlots :
                /\ loops[l] = NoLoop
                /\ loops' = [loops EXCEPT ![l] = [runner |-> i, at |-> "top"]]
         /\ IF people \/ roster[a].initial # "none" THEN UNCHANGED votes
            ELSE AskVote(a, "initial", TRUE)

(* Mutant: a registered agent gets another runner. *)
RegisterAgent_Again(a) ==
    \E i \in RunnerIds :
        /\ runners[i] = Unmade /\ \A j \in RunnerIds : j < i => runners[j] # Unmade
        /\ registry' = [registry EXCEPT ![a] = i]
        /\ StartRunner(i, a)

\* register_agent_runner
RegisterAgent(a) ==
    \/ /\ registry[a] # NoRunner
       /\ UNCHANGED registry
       /\ StartRunner(registry[a], a)
    \/ /\ registry[a] = NoRunner
       /\ \E i \in RunnerIds :
            /\ runners[i] = Unmade /\ \A j \in RunnerIds : j < i => runners[j] # Unmade
            /\ registry' = [registry EXCEPT ![a] = i]
            /\ StartRunner(i, a)

Who(l) == runners[loops[l].runner].who
GoTo(l, at) == loops' = [loops EXCEPT ![l].at = at]
EndLoop(l) ==
    /\ loops' = [loops EXCEPT ![l] = NoLoop]
    /\ lateTurns' = [lateTurns EXCEPT ![l] = 0]

(* Mutant: agents perceive before they have voted. *)
MayPerceive_Unvoted(l) == status = "running"

(* Mutant: agents perceive while the session is paused. *)
MayPerceive_Paused(l) == roster[Who(l)].initial # "none"

\* The checks of _perception_loop and _perceive_and_act.
MayPerceive(l) == status = "running" /\ roster[Who(l)].initial # "none"

\* Waking: the loop ends if its runner was stopped or the session is gone,
\* asks the model, or sleeps on.
Wake(l) ==
    /\ loops[l].at = "top"
    /\ IF ~runners[loops[l].runner].on
       THEN EndLoop(l) /\ UNCHANGED runners
       ELSE IF status = "gone"
            THEN EndLoop(l) /\ runners' = [runners EXCEPT ![loops[l].runner].on = FALSE]
            ELSE MayPerceive(l) /\ GoTo(l, "call") /\ UNCHANGED <<runners, lateTurns>>
    /\ UNCHANGED <<status, roster, listed, registry, votes, routes, posted, ops, agentRestarts>>

(* Mutant: a call that fails ends the loop. *)
CallFails_Ends(l) ==
    /\ loops[l].at = "call"
    /\ EndLoop(l)
    /\ UNCHANGED <<status, roster, listed, registry, runners, votes, routes, posted, ops, agentRestarts>>

\* The call of the model fails, or has no actions.
CallFails(l) ==
    /\ loops[l].at = "call"
    /\ GoTo(l, "top")
    /\ UNCHANGED <<status, roster, listed, registry, runners, votes, routes, lateTurns, posted, ops, agentRestarts>>

\* execute_actions: messages, or a vote.
ExecuteActions(a) ==
    \/ UNCHANGED roster
    \/ \E kind \in Kinds, c \in Candidates : CastVote(a, kind, c)

\* _perceive_and_act: the model answers and its actions are executed, whatever
\* has become of the session and the runner.
Turn(l) ==
    /\ loops[l].at = "call"
    /\ status # "gone"
    /\ ExecuteActions(Who(l))
    /\ lateTurns' = [lateTurns EXCEPT ![l] = IF status = "running" THEN @ ELSE @ + 1]
    /\ GoTo(l, "top")
    /\ UNCHANGED <<status, listed, registry, runners, votes, routes, posted, ops, agentRestarts>>

-----------------------------------------------------------------------------
(* Routes.  A route sets the status and then goes through the agents.        *)
Open(r, at) ==
    /\ routes[r] = Idling /\ status # "gone" /\ ops < MaxOps
    /\ ops' = ops + 1
    /\ routes' = [routes EXCEPT ![r] = [at |-> at, todo |-> Agents]]
Without(route, a) == IF route.todo = {a} THEN Idling ELSE [route EXCEPT !.todo = @ \ {a}]
ThenLeave(r, a) == routes' = [routes EXCEPT ![r] = Without(@, a)]

NewStatus(s) ==
    /\ status' = s
    /\ lateTurns' = IF s = "running" THEN [l \in LoopSlots |-> 0] ELSE lateTurns

\* update_session_status: by what the status was, agents are started, stopped,
\* or shown as offline.
SetStatus(r, new) ==
    /\ NewStatus(new)
    /\ \/ new = "running" /\ status # "running" /\ Open(r, "start")
       \/ new = "waiting" /\ status # "waiting" /\ Open(r, "stop")
       \/ new = "paused" /\ status = "running" /\ Open(r, "offline")
    /\ UNCHANGED <<roster, listed, registry, runners, loops, votes, posted, agentRestarts>>

\* start_agent_runner: without a runner there is a warning only.
StartAgent(r, a) ==
    /\ routes[r].at \in {"start", "put"} /\ a \in routes[r].todo
    /\ IF registry[a] = NoRunner THEN UNCHANGED <<roster, runners, loops, votes>>
       ELSE StartRunner(registry[a], a) /\ roster' = [roster EXCEPT ![a].online = TRUE]
    /\ IF routes[r] = [at |-> "put", todo |-> {a}]
       THEN routes' = [routes EXCEPT ![r] = [at |-> "ask", todo |-> Agents]]
       ELSE ThenLeave(r, a)
    /\ UNCHANGED <<status, listed, registry, lateTurns, posted, ops, agentRestarts>>

(* Mutant: the runner is forgotten, but goes on. *)
StopAgent_Forgets(r, a) ==
    /\ routes[r].at = "stop" /\ a \in routes[r].todo
    /\ IF registry[a] = NoRunner
       THEN ThenLeave(r, a) /\ UNCHANGED runners
       ELSE /\ UNCHANGED runners
            /\ routes' = [routes EXCEPT ![r] = [at |-> "joining", todo |-> @.todo, agent |-> a]]
    /\ UNCHANGED <<status, roster, listed, registry, loops, votes, lateTurns, posted, ops, agentRestarts>>

\* stop_agent_runner waits two seconds for the thread, which may be in a call.
StopAgent(r, a) ==
    /\ routes[r].at = "stop" /\ a \in routes[r].todo
    /\ IF registry[a] = NoRunner
       THEN ThenLeave(r, a) /\ UNCHANGED runners
       ELSE /\ runners' = [runners EXCEPT ![registry[a]].on = FALSE]
            /\ routes' = [routes EXCEPT ![r] = [at |-> "joining", todo |-> @.todo, agent |-> a]]
    /\ UNCHANGED <<status, roster, listed, registry, loops, votes, lateTurns, posted, ops, agentRestarts>>

\* Then it is deleted from the registry; when it is there no more, the error
\* ends the work of the route on the agents.
Joined(r) ==
    /\ routes[r].at = "joining"
    /\ LET a == routes[r].agent
       IN  IF registry[a] = NoRunner
           THEN routes' = [routes EXCEPT ![r] = Idling] /\ UNCHANGED <<registry, roster>>
           ELSE /\ registry' = [registry EXCEPT ![a] = NoRunner]
                /\ roster' = [roster EXCEPT ![a].online = FALSE]
                /\ routes' = [routes EXCEPT ![r] = IF @.todo = {a} THEN Idling
                                                   ELSE [at |-> "stop", todo |-> @.todo \ {a}]]
    /\ UNCHANGED <<status, listed, runners, loops, votes, lateTurns, posted, ops, agentRestarts>>

\* A pause leaves the loops alone.
ShowOffline(r, a) ==
    /\ routes[r].at = "offline" /\ a \in routes[r].todo
    /\ roster' = [roster EXCEPT ![a].online = FALSE]
    /\ ThenLeave(r, a)
    /\ UNCHANGED <<status, listed, registry, runners, loops, votes, lateTurns, posted, ops, agentRestarts>>

\* update_session with an experiment_type registers the agents.
SetType(r) ==
    /\ Open(r, "register")
    /\ UNCHANGED <<status, roster, listed, registry, runners, loops, votes, lateTurns, posted, agentRestarts>>

RegisterOne(r, a) ==
    /\ routes[r].at = "register" /\ a \in routes[r].todo
    /\ RegisterAgent(a)
    /\ roster' = [roster EXCEPT ![a].online = TRUE]
    /\ ThenLeave(r, a)
    /\ UNCHANGED <<status, listed, lateTurns, posted, ops, agentRestarts>>

\* update_session with the status: the agents are started as above, and then
\* each is asked for its vote, unless people are there who have all voted.
PutRunning(r) ==
    /\ status # "running" /\ NewStatus("running")
    /\ Open(r, "put")
    /\ UNCHANGED <<roster, listed, registry, runners, loops, votes, posted, agentRestarts>>

AskAgent(r, a) ==
    /\ routes[r].at \in {"ask", "ask_final"} /\ a \in routes[r].todo
    /\ \/ AskVote(a, IF routes[r].at = "ask" THEN "initial" ELSE "final", FALSE)
       \/ people /\ UNCHANGED votes
    /\ ThenLeave(r, a)
    /\ UNCHANGED <<status, roster, listed, registry, runners, loops, lateTurns, posted, ops, agentRestarts>>

\* A browser reads the participants, and posts all of them later.
Fetch ==
    /\ listed = {} /\ status # "gone"
    /\ listed' = {roster}
    /\ UNCHANGED <<status, roster, registry, runners, loops, votes, routes, lateTurns, posted, ops, agentRestarts>>

\* register_participants registers the agents, and then replaces the list.
Post(r) ==
    /\ listed # {}
    /\ Open(r, "post")
    /\ UNCHANGED <<status, roster, listed, registry, runners, loops, votes, lateTurns, posted, agentRestarts>>

PostOne(r, a) ==
    /\ routes[r].at = "post" /\ a \in routes[r].todo
    /\ RegisterAgent(a)
    /\ IF routes[r].todo = {a}
       THEN /\ \E list \in listed : roster' = [b \in Agents |-> [list[b] EXCEPT !.online = TRUE]]
            /\ listed' = {} /\ posted' = TRUE
       ELSE UNCHANGED <<roster, listed, posted>>
    /\ ThenLeave(r, a)
    /\ UNCHANGED <<status, lateTurns, ops, agentRestarts>>

\* vote_popup_shown of a human participant, for an agent whose runner is registered.
Popup(a, kind) ==
    /\ people /\ registry[a] # NoRunner /\ status # "gone"
    /\ AskVote(a, kind, TRUE)
    /\ UNCHANGED <<status, roster, listed, registry, runners, loops, routes, lateTurns, posted, ops, agentRestarts>>

\* The countdown ends: the session is paused, and without people the agents are
\* asked for the final vote.
TimeIsUp(r) ==
    /\ status = "running" /\ NewStatus("paused")
    /\ IF people THEN UNCHANGED <<routes, ops>> ELSE Open(r, "ask_final")
    /\ UNCHANGED <<roster, listed, registry, runners, loops, votes, posted, agentRestarts>>

DeleteSession ==
    /\ status # "gone" /\ \A r \in Routes : routes[r] = Idling
    /\ NewStatus("gone")
    /\ votes' = [v \in VoteSlots |-> NoVote]
    /\ UNCHANGED <<roster, listed, registry, runners, loops, routes, posted, ops, agentRestarts>>

(* Mutant: the registry outlives its runners. *)
RestartAgents_KeepsRegistry ==
    /\ agentRestarts < MaxAgentRestarts
    /\ agentRestarts' = agentRestarts + 1
    /\ registry' = registry
    /\ runners' = [i \in RunnerIds |-> Unmade]
    /\ loops' = [l \in LoopSlots |-> NoLoop]
    /\ votes' = [v \in VoteSlots |-> NoVote]
    /\ routes' = [r \in Routes |-> Idling]
    /\ lateTurns' = [l \in LoopSlots |-> 0]
    /\ UNCHANGED <<status, roster, listed, posted, ops>>

\* The server restarts: sessions are loaded, runners are not.
RestartAgents ==
    /\ agentRestarts < MaxAgentRestarts
    /\ agentRestarts' = agentRestarts + 1
    /\ registry' = [a \in Agents |-> NoRunner]
    /\ runners' = [i \in RunnerIds |-> Unmade]
    /\ loops' = [l \in LoopSlots |-> NoLoop]
    /\ votes' = [v \in VoteSlots |-> NoVote]
    /\ routes' = [r \in Routes |-> Idling]
    /\ lateTurns' = [l \in LoopSlots |-> 0]
    /\ UNCHANGED <<status, roster, listed, posted, ops>>

LoopStep(l) == Wake(l) \/ CallFails(l) \/ Turn(l)

AgentStep ==
    \/ \E l \in LoopSlots : LoopStep(l)
    \/ \E v \in VoteSlots : TriggerVote(v) \/ Vote(v)
    \/ \E r \in Routes :
        \/ \E s \in {"running", "paused", "waiting"} : SetStatus(r, s)
        \/ SetType(r) \/ PutRunning(r) \/ TimeIsUp(r) \/ Post(r) \/ Joined(r)
        \/ \E a \in Agents :
            \/ StartAgent(r, a) \/ StopAgent(r, a) \/ ShowOffline(r, a)
            \/ RegisterOne(r, a) \/ AskAgent(r, a) \/ PostOne(r, a)
    \/ Fetch
    \/ \E a \in Agents, kind \in Kinds : Popup(a, kind)
    \/ DeleteSession
    \/ RestartAgents

AgentNext ==
    /\ AgentStep
    /\ UNCHANGED people
    /\ clashed' = (clashed \/ Cardinality({r \in Routes : routes'[r] # Idling}) > 1)

AgentSpec == AgentInit /\ [][AgentNext]_agentVars

\* A thread of an agent is scheduled, and a call of the model ends.
AgentFairness == \A l \in LoopSlots : WF_loops(LoopStep(l))

-----------------------------------------------------------------------------
\* Type correctness.
AgentTypeOK ==
    /\ status \in {"waiting", "running", "paused", "gone"}
    /\ \A a \in Agents : /\ roster[a].online \in BOOLEAN
                         /\ {roster[a].initial, roster[a].final} \subseteq Candidates \cup {"none"}
                         /\ registry[a] # NoRunner => runners[registry[a]].who = a
    /\ \A l \in LoopSlots : loops[l] # NoLoop => runners[loops[l].runner] # Unmade

\* However many threads ask for it, a vote of an agent is cast once, unless a
\* browser posts participants it had read before.
VoteIsFinal ==
    [][~posted' => \A a \in Agents, kind \in Kinds :
                        roster[a][kind] # "none" => roster'[a][kind] = roster[a][kind]]_agentVars

\* An agent does not take part before its initial vote, whatever asks for it.
VotesBeforeTurns ==
    ~posted => \A l \in LoopSlots : loops[l].at = "call" => roster[Who(l)].initial # "none"

\* After the session has stopped running a loop takes one turn at most: the one
\* it had asked the model for.
OneLateTurn == \A l \in LoopSlots : lateTurns[l] <= 1

\* Requests one after the other: an agent has one loop that will go on.
OneLoop ==
    ~clashed => \A a \in Agents :
        Cardinality({l \in LoopSlots : loops[l] # NoLoop /\ Who(l) = a /\ runners[loops[l].runner].on}) <= 1

\* Then a running loop is one the registry knows, so that a reset will stop it.
RunningIsRegistered ==
    ~clashed => \A l \in LoopSlots :
        loops[l] # NoLoop /\ runners[loops[l].runner].on => registry[Who(l)] = loops[l].runner

\* An agent that is registered in a running session and has voted goes on
\* asking the model for turns, whatever becomes of each.
Ready == /\ status = "running" /\ ~clashed
         /\ \A a \in Agents : registry[a] # NoRunner /\ roster[a].initial # "none"
         /\ \A r \in Routes : routes[r] = Idling
AgentsGoOn == <>[]Ready => \A a \in Agents : []<>(\E l \in LoopSlots : loops[l].at = "call" /\ Who(l) = a)

\* An agent takes part once, and when it should: one loop, that a reset can
\* stop, no turn before its vote, one late turn at most.
AgentsInOrder ==
    AgentTypeOK /\ VotesBeforeTurns /\ OneLateTurn /\ OneLoop /\ RunningIsRegistered
=============================================================================
