-------------------------------- MODULE MCTime --------------------------------
(***************************************************************************)
(* An instance of FeoTime for TLC: either two threads of the primary read  *)
(* the clocks, of which p1 calls speed(), or p3 initialises the startup    *)
(* time and two threads of a secondary take it over, whose host boots at   *)
(* time 1, when the primary may have started already.  Startup times are   *)
(* not scaled, so the two do not meet.                                     *)
(***************************************************************************)
EXTENDS FeoTime, TLC

CONSTANTS p1, p2, p3, s1, s2, primary, secondary

MCProcessOf == p1 :> primary @@ p2 :> primary @@ p3 :> primary @@ s1 :> secondary @@ s2 :> secondary
MCBootTime == primary :> -2 @@ secondary :> 1
MCFactors == {2, -2}
MCJumps == {-2, 1}
=============================================================================
