------------------------------ MODULE TaskChain ------------------------------
(***************************************************************************)
(* What FEO promises its user: a fixed execution order.  The activities    *)
(* form a task chain that is executed over and over; in each execution     *)
(* every activity is stepped once, after all activities it depends on, and *)
(* a new execution begins only when the previous one is complete.          *)
(***************************************************************************)
CONSTANTS Activities, Depends

VARIABLES done, running

Init == done = {} /\ running = {}

Begin(a) ==
  /\ a \notin done \cup running
  /\ Depends[a] \cap Activities \subseteq done
  /\ running' = running \cup {a}
  /\ done' = done

Finish(a) ==
  /\ a \in running
  /\ running' = running \ {a}
  /\ done' = done \cup {a}

(* Steps fail, or their workers die; the chain is then never completed.    *)
Abort(S) ==
  /\ S \subseteq running /\ S # {}
  /\ running' = running \ S
  /\ done' = done

NewCycle ==
  /\ done = Activities /\ running = {}
  /\ done' = {}
  /\ running' = {}

Next ==
  \/ \E a \in Activities : Begin(a) \/ Finish(a)
  \/ \E S \in SUBSET Activities : Abort(S)
  \/ NewCycle

Spec == Init /\ [][Next]_<<done, running>>
=============================================================================
