------------------------------ MODULE MCRelayed ------------------------------
(***************************************************************************)
(* An instance of Relayed for TLC: the primary 100 with worker 1 and agent *)
(* 101 with workers 2 and 3.                                               *)
(***************************************************************************)
EXTENDS Relayed, TLC

MCWorkerOf == 11 :> 1 @@ 12 :> 2 @@ 13 :> 3
MCAgentOf  == 1 :> 100 @@ 2 :> 101 @@ 3 :> 101
=============================================================================
