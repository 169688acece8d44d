------------------------------- MODULE MCTopics -------------------------------
(***************************************************************************)
(* An instance of TopicService for TLC.  The primary writes and reads      *)
(* topic t1; s1 reads t1 and writes t2; s2 reads both.                     *)
(***************************************************************************)
EXTENDS TopicService, TLC

CONSTANTS primary, s1, s2, t1, t2

MCAgentOf ==
  1 :> primary @@ 2 :> primary @@ 3 :> s1 @@ 4 :> s1 @@ 5 :> s2 @@ 6 :> s2

MCPeers ==
  t1 :> {<<1, "Outgoing">>, <<2, "Incoming">>, <<3, "Incoming">>, <<5, "Incoming">>} @@
  t2 :> {<<4, "Outgoing">>, <<6, "Incoming">>}

MCSpecsOf == [g \in Agents |-> <<t1, t2>>]
=============================================================================
