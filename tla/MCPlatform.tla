----------------------------- MODULE MCPlatform -----------------------------
(***************************************************************************)
(* The parts of the legacy platform that work on their own, checked side by  *)
(* side in one run: the Shape Factory game, a session with its countdown and *)
(* checkpoints, the answers of three other tasks, and messages.  A behaviour *)
(* is one of the part it chose at the start.                                 *)
(***************************************************************************)
EXTENDS ShapeFactory, SessionTimer, TaskAnswers, Messages, TLC

CONSTANTS thread_1, thread_2, asked_1, asked_2

VARIABLE part

\* Nothing tells two threads of a part apart, nor the people who are asked to
\* annotate.
TwoThreads == {thread_1, thread_2}
TwoAsked == {asked_1, asked_2}
ThreadSymmetry == Permutations(TwoThreads) \cup Permutations(TwoAsked)

OneOrder == [s \in Shapes |-> 1]

\* services/annotation_service.py: ANNOTATION_CHECKPOINT_RANGES, in percent.
Checkpoints == <<<<20, 25>>, <<45, 50>>, <<70, 75>>>>

platformVars == <<factoryVars, timerVars, answerVars, chatVars, part>>

PlatformInit ==
    /\ part \in {"factory", "timer", "answers", "messages"}
    /\ FactoryInit /\ TimerInit /\ AnswersInit /\ ChatInit
    /\ part = "answers" \/ kind = "maptask"

PlatformNext ==
    \/ part = "factory" /\ FactoryNext /\ UNCHANGED <<timerVars, answerVars, chatVars, part>>
    \/ part = "timer" /\ TimerNext /\ UNCHANGED <<factoryVars, answerVars, chatVars, part>>
    \/ part = "answers" /\ AnswersNext /\ UNCHANGED <<factoryVars, timerVars, chatVars, part>>
    \/ part = "messages" /\ ChatNext /\ UNCHANGED <<factoryVars, timerVars, answerVars, part>>

PlatformSpec == PlatformInit /\ [][PlatformNext]_platformVars
=============================================================================
