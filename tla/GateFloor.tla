------------------------------ MODULE GateFloor -------------------------------
(***************************************************************************)
(* ToolGate with a history variable: the calls whose session has been held *)
(* at tier 3, by its own termination or by that of an ancestor, in every   *)
(* state since the call began.                                             *)
(***************************************************************************)
EXTENDS ToolGate

VARIABLE floored

AtFloor == {s \in Sessions : ({s} \cup Forebears(s)) \cap terminated # {}}

FloorInit == Init /\ floored = {}

FloorNext ==
  /\ Next
  /\ floored' = {c \in Calls : /\ calls'[c].phase # "idle"
                               /\ c \in floored \/ calls[c].phase = "idle"
                               /\ calls'[c].sid \in AtFloor'}

FloorSpec == FloorInit /\ [][FloorNext]_<<vars, floored>>

(* The docstring of _terminated_floor(): an evaluation that fails takes the *)
(* tier-3 block when "this session is terminated, any ancestor id from     *)
(* LineageRegistry.ancestors is terminated", for a session that was one or *)
(* the other all the time.                                                 *)
FloorIsBlocked ==
  \A c \in floored :
    (calls[c].phase = "decided" /\ calls[c].route # "disarmed")
      => calls[c].verdict = "block"
=============================================================================
