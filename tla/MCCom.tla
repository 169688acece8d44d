--------------------------------- MODULE MCCom ---------------------------------
(***************************************************************************)
(* An instance of ComTopic for TLC: r1 steps before the writer, r2 and r3  *)
(* after it; r2 runs in the writer's process.                              *)
(***************************************************************************)
EXTENDS ComTopic, TLC

CONSTANTS w, r1, r2, r3, p1, p2

MCProcessOf == w :> p1 @@ r1 :> p1 @@ r2 :> p1 @@ r3 :> p2
=============================================================================
