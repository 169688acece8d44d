------------------------------ MODULE MCTracing ------------------------------
(***************************************************************************)
(* An instance of Tracing for TLC: a process with two threads and another  *)
(* with one, and channels of one packet each, so that all of them are full *)
(* at some time.                                                           *)
(***************************************************************************)
EXTENDS Tracing, TLC

CONSTANTS t1, t2, t3, proc1, proc2

MCProcessOf == t1 :> proc1 @@ t2 :> proc1 @@ t3 :> proc2
MCScript ==
  t1 :> <<"NewSpan", "Enter", "Exit">> @@ t2 :> <<"NewSpan">>
  @@ t3 :> <<"NewSpan", "Record">>
=============================================================================
