--------------------------- MODULE MCMediaCommands --------------------------
(***************************************************************************)
(* MediaCommands with three command ids: two of the same semantic key and    *)
(* one of another key of the same session.                                   *)
(***************************************************************************)
EXTENDS MediaCommands

CONSTANTS start_1, start_2, stop, w1, w2

ThreeIds == {start_1, start_2, stop}
TwoKeys == {"start", "stop"}
OneSession == {"session"}
KeysOfIds == [id \in ThreeIds |-> IF id = stop THEN "stop" ELSE "start"]
SessionsOfKeys == [key \in TwoKeys |-> "session"]
TwoWorkers == {w1, w2}
=============================================================================
