------------------------------ MODULE MCConnect ------------------------------
(***************************************************************************)
(* An instance of DirectConnect for TLC: worker w1 hosts activities 1 and  *)
(* 2, w2 hosts 3; three connections allow each of them to come back.       *)
(***************************************************************************)
EXTENDS DirectConnect, TLC

CONSTANTS w1, w2

MCActivitiesOf == w1 :> <<1, 2>> @@ w2 :> <<3>>
=============================================================================
