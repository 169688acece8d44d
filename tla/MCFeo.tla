--------------------------------- MODULE MCFeo ---------------------------------
(***************************************************************************)
(* Instances of Feo for TLC: activity 3 depends on 1 and 2, 2 depends on 1 *)
(* and on an id that does not exist; worker w1 hosts 1 and 3.              *)
(***************************************************************************)
EXTENDS FeoInvariant, TLC

CONSTANTS w1, w2

MCDepends  == 1 :> {} @@ 2 :> {1, 9} @@ 3 :> {1, 2}
MCFork     == 1 :> {} @@ 2 :> {} @@ 3 :> {1}
MCWorkerOf == 1 :> w1 @@ 2 :> w2 @@ 3 :> w1
MCLocal    == w1 :> 100 @@ w2 :> 100
MCRemote   == w1 :> 100 @@ w2 :> 101
=============================================================================
