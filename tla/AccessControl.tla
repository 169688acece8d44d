---------------------------- MODULE AccessControl ----------------------------
(***************************************************************************)
(* The access control of a topic of the linux_shm backend: the counter     *)
(* lock_state of ReadWriteAccessControlPtr and the guards that activities  *)
(* of one process, running on different worker threads, hold on the topic  *)
(* (shared_memory.rs).  Each atomic operation is a step of its own.        *)
(*                                                                         *)
(* A failed assertion panics, which ends the guard's thread.               *)
(***************************************************************************)
EXTENDS Integers, FiniteSets

CONSTANTS
  Guards,     \* the guards in use, each by a thread of its own
  U16Max      \* u16::MAX, 65535 in the code

ASSUME LockAssumption ==
  /\ IsFiniteSet(Guards)
  /\ U16Max \in Nat /\ U16Max >= 2

VARIABLES
  lock_state,   \* 0: free, U16Max: written, else the number of readers
  data,         \* the topic's memory, two values are enough to see it change
  pc,           \* where the life of each guard is
  state         \* the local variable of lock_read and unlock_read

vars == <<lock_state, data, pc, state>>

Pcs ==
  {"free",
   "lock_read", "reading", "unlock_read",   \* MappedPtrReadGuard
   "writing", "sent", "unsent",             \* MappedPtrWriteGuard
   "refused",                               \* panicked on an attempt to lock
   "invalid",                               \* panicked on an attempt to unlock
   "missed_send", "false_alarm"}            \* panicked in drop() of a write guard that
                                            \* was not sent, that was sent

Init ==
  /\ lock_state = 0 /\ data = 0
  /\ pc = [g \in Guards |-> "free"]
  /\ state = [g \in Guards |-> 0]

TypeOK ==
  /\ lock_state \in 0 .. U16Max /\ data \in {0, 1}
  /\ pc \in [Guards -> Pcs]
  /\ state \in [Guards -> 0 .. U16Max]

Goto(g, to) == pc' = [pc EXCEPT ![g] = to]

(* load, or the value that a failed compare_exchange returns               *)
Load(g) == state' = [state EXCEPT ![g] = lock_state]

(* compare_exchange(state, new) within the loop of lock_read/unlock_read   *)
CompareExchange(g, new, to) ==
  \/ lock_state = state[g] /\ lock_state' = new /\ Goto(g, to) /\ UNCHANGED state
  \/ lock_state # state[g] /\ Load(g) /\ UNCHANGED <<lock_state, pc>>

-----------------------------------------------------------------------------
(* get(): a read guard is made ...                                         *)
Get(g) ==
  /\ pc[g] = "free"
  /\ Load(g) /\ Goto(g, "lock_read")
  /\ UNCHANGED <<lock_state, data>>

(* Mutant: the limit on the number of readers is not checked.              *)
LockReadUnlimited(g) ==
  /\ pc[g] = "lock_read"
  /\ IF state[g] = U16Max
     THEN Goto(g, "refused") /\ UNCHANGED <<lock_state, state>>
     ELSE CompareExchange(g, state[g] + 1, "reading")
  /\ UNCHANGED data

(* Mutant: the value is loaded and stored, not compared and exchanged.     *)
LockReadStores(g) ==
  /\ pc[g] = "lock_read"
  /\ IF state[g] \in {U16Max - 1, U16Max}
     THEN Goto(g, "refused") /\ UNCHANGED <<lock_state, state>>
     ELSE lock_state' = state[g] + 1 /\ Goto(g, "reading") /\ UNCHANGED state
  /\ UNCHANGED data

LockRead(g) ==
  /\ pc[g] = "lock_read"
  /\ IF state[g] \in {U16Max - 1, U16Max}
     THEN Goto(g, "refused") /\ UNCHANGED <<lock_state, state>>
     ELSE CompareExchange(g, state[g] + 1, "reading")
  /\ UNCHANGED data

(* ... and dropped.                                                        *)
DropRead(g) ==
  /\ pc[g] = "reading"
  /\ Load(g) /\ Goto(g, "unlock_read")
  /\ UNCHANGED <<lock_state, data>>

UnlockRead(g) ==
  /\ pc[g] = "unlock_read"
  /\ IF state[g] \in {0, U16Max}
     THEN Goto(g, "invalid") /\ UNCHANGED <<lock_state, state>>
     ELSE CompareExchange(g, state[g] - 1, "free")
  /\ UNCHANGED data

-----------------------------------------------------------------------------
(* Mutant: readers are overlooked.                                         *)
GetMutBesideReaders(g) ==
  /\ pc[g] = "free"
  /\ IF lock_state # U16Max
     THEN lock_state' = U16Max /\ Goto(g, "writing")
     ELSE Goto(g, "refused") /\ UNCHANGED lock_state
  /\ UNCHANGED <<data, state>>

(* get_mut(): a write guard is made (lock_write) ...                       *)
GetMut(g) ==
  /\ pc[g] = "free"
  /\ IF lock_state = 0
     THEN lock_state' = U16Max /\ Goto(g, "writing")
     ELSE Goto(g, "refused") /\ UNCHANGED lock_state
  /\ UNCHANGED <<data, state>>

(* ... written through (deref_mut) ...                                     *)
Write(g) ==
  /\ pc[g] = "writing"
  /\ data' = 1 - data
  /\ UNCHANGED <<lock_state, pc, state>>

(* ... sent (unlock_write), at the end of which it is dropped ...          *)
Send(g) ==
  /\ pc[g] = "writing"
  /\ IF lock_state = U16Max
     THEN lock_state' = 0 /\ Goto(g, "sent")
     ELSE Goto(g, "invalid") /\ UNCHANGED lock_state
  /\ UNCHANGED <<data, state>>

(* ... or dropped without being sent.                                      *)
Forget(g) ==
  /\ pc[g] = "writing"
  /\ Goto(g, "unsent")
  /\ UNCHANGED <<lock_state, data, state>>

(* Mutant: drop() unlocks what was not sent.                               *)
DropWriteUnlocks(g) ==
  /\ pc[g] \in {"sent", "unsent"}
  /\ lock_state' = 0 /\ Goto(g, "free")
  /\ UNCHANGED <<data, state>>

(* drop() of a write guard: the assertion on is_locked                     *)
DropWrite(g) ==
  /\ pc[g] \in {"sent", "unsent"}
  /\ Goto(g, IF lock_state = 0 THEN "free"
             ELSE IF pc[g] = "sent" THEN "false_alarm" ELSE "missed_send")
  /\ UNCHANGED <<lock_state, data, state>>

Next ==
  \E g \in Guards :
    \/ Get(g) \/ LockRead(g) \/ DropRead(g) \/ UnlockRead(g)
    \/ GetMut(g) \/ Write(g) \/ Send(g) \/ Forget(g) \/ DropWrite(g)

Spec == Init /\ [][Next]_vars

-----------------------------------------------------------------------------
Readers == {g \in Guards : pc[g] \in {"reading", "unlock_read"}}

(* A guard dropped without send() keeps its lock.                          *)
Writers == {g \in Guards : pc[g] \in {"writing", "unsent", "missed_send"}}

(* lock_state says who has access; a writer has it alone.                  *)
LockCounts ==
  \/ Writers = {} /\ lock_state = Cardinality(Readers) /\ lock_state < U16Max
  \/ /\ lock_state = U16Max /\ Readers = {}
     /\ \E g \in Guards : Writers = {g}

(* The value that unlock_read goes on with counts the guard's own reader.  *)
UnlockSeesReader == \A g \in Guards : pc[g] = "unlock_read" => state[g] \in 1 .. U16Max - 1

(***************************************************************************)
(* What one guard holds can always be given back: the assertions of        *)
(* unlock_read and unlock_write never fail.                                *)
(***************************************************************************)
UnlockNeverFails == \A g \in Guards : pc[g] # "invalid"

(***************************************************************************)
(* The inductive invariant: the compare-and-exchange loops keep lock_state *)
(* equal to the number of readers, below u16::MAX, or at u16::MAX for one  *)
(* writer ("Implementation details" in shared_memory.rs).                  *)
(***************************************************************************)
LockInv == TypeOK /\ LockCounts /\ UnlockSeesReader /\ UnlockNeverFails

(***************************************************************************)
(* The memory never changes under a read guard, nor under a second writer: *)
(* whoever writes is alone (lock_read, lock_write).                        *)
(***************************************************************************)
ReadsStable == [][data' # data => Readers = {} /\ Cardinality(Writers) = 1]_vars

(***************************************************************************)
(* "Dropping the MappedPtrWriteGuard without a send call does *NOT* unlock *)
(* the pointer and is guarantied to panic" (shared_memory.rs): nobody gets *)
(* access to the topic from then on.                                       *)
(***************************************************************************)
UnsentStaysLocked ==
  [][\A g \in Guards : pc[g] \in {"unsent", "missed_send"} =>
       /\ pc'[g] \in {"unsent", "missed_send"}
       /\ \A h \in Guards \ {g} : h \notin Readers' \cup Writers']_vars
=============================================================================
