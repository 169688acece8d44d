------------------------- MODULE AccessControlProofs -------------------------
(***************************************************************************)
(* The access control of linux_shm is correct for any number of guards and *)
(* any width of the counter.                                               *)
(***************************************************************************)
EXTENDS AccessControl, FiniteSetTheorems, TLAPS

LEMMA ReadersFinite == IsFiniteSet(Readers) /\ Cardinality(Readers) \in Nat
  <1>1. Readers \subseteq Guards
    BY DEF Readers
  <1>. QED  BY <1>1, LockAssumption, FS_Subset, FS_CardinalityType

(* A guard that moves on changes only its own membership.                  *)
LEMMA GotoSets ==
  ASSUME TypeOK, NEW g \in Guards, NEW to, Goto(g, to)
  PROVE  /\ Readers' = IF to \in {"reading", "unlock_read"} THEN Readers \cup {g}
                                                            ELSE Readers \ {g}
         /\ Writers' = IF to \in {"writing", "unsent", "missed_send"} THEN Writers \cup {g}
                                                                      ELSE Writers \ {g}
  BY DEF TypeOK, Goto, Readers, Writers

LEMMA Membership ==
  ASSUME TypeOK, NEW g \in Guards
  PROVE  /\ g \in Readers <=> pc[g] \in {"reading", "unlock_read"}
         /\ g \in Writers <=> pc[g] \in {"writing", "unsent", "missed_send"}
  BY DEF Readers, Writers

LEMMA InitInvariant == Init => LockInv
  <1>. SUFFICES ASSUME Init PROVE LockInv
    OBVIOUS
  <1>1. TypeOK /\ UnlockSeesReader /\ UnlockNeverFails
    BY LockAssumption DEF Init, TypeOK, Pcs, UnlockSeesReader, UnlockNeverFails
  <1>2. Readers = {} /\ Writers = {}
    BY DEF Init, Readers, Writers
  <1>3. LockCounts
    BY <1>2, LockAssumption, FS_EmptySet DEF Init, LockCounts
  <1>. QED  BY <1>1, <1>3 DEF LockInv

(***************************************************************************)
(* A reader inside unlock_read keeps lock_state between 1 and U16Max - 1.  *)
(***************************************************************************)
LEMMA ReaderCounted ==
  ASSUME LockInv, NEW g \in Readers
  PROVE  lock_state \in 1 .. U16Max - 1 /\ Writers = {} /\ lock_state = Cardinality(Readers)
  <1>1. Writers = {} /\ lock_state = Cardinality(Readers) /\ lock_state < U16Max
    BY DEF LockInv, LockCounts
  <1>2. Cardinality(Readers) # 0
    BY ReadersFinite, FS_EmptySet
  <1>. QED  BY <1>1, <1>2, ReadersFinite, LockAssumption

(* A step that leaves lock_state, readers and writers alone.               *)
LEMMA SetsUntouched ==
  ASSUME LockInv, TypeOK', lock_state' = lock_state, Readers' = Readers, Writers' = Writers
  PROVE  LockCounts'
  BY DEF LockInv, LockCounts

(* Moving on keeps what the other guards know.                             *)
LEMMA OthersKept ==
  ASSUME LockInv, NEW g \in Guards, NEW to \in Pcs, Goto(g, to), to # "invalid",
         to = "unlock_read" => state'[g] \in 1 .. U16Max - 1,
         \A h \in Guards \ {g} : state'[h] = state[h]
  PROVE  UnlockSeesReader' /\ UnlockNeverFails' /\ pc' \in [Guards -> Pcs]
  BY DEF LockInv, TypeOK, UnlockSeesReader, UnlockNeverFails, Goto

-----------------------------------------------------------------------------
LEMMA GetStep ==
  ASSUME LockInv, NEW g \in Guards, Get(g)
  PROVE  LockInv'
  <1>1. pc[g] = "free" /\ Load(g) /\ Goto(g, "lock_read") /\ UNCHANGED <<lock_state, data>>
    BY DEF Get
  <1>2. TypeOK'
    BY <1>1 DEF LockInv, TypeOK, Load, Goto, Pcs
  <1>3. Readers' = Readers /\ Writers' = Writers
    BY <1>1, GotoSets, Membership DEF LockInv
  <1>4. UnlockSeesReader' /\ UnlockNeverFails'
    BY <1>1, OthersKept DEF LockInv, TypeOK, Load, Pcs
  <1>. QED  BY <1>1, <1>2, <1>3, <1>4, SetsUntouched DEF LockInv

(* Of the two outcomes of a compare_exchange, the failure only loads.      *)
LEMMA RetryStep ==
  ASSUME LockInv, NEW g \in Guards, Load(g), UNCHANGED <<lock_state, data, pc>>
  PROVE  LockInv'
  <1>1. TypeOK'
    BY DEF LockInv, TypeOK, Load
  <1>2. Readers' = Readers /\ Writers' = Writers
    BY DEF Readers, Writers
  <1>3. UnlockNeverFails'
    BY DEF LockInv, UnlockNeverFails
  <1>4. UnlockSeesReader'
    <2>. SUFFICES ASSUME NEW h \in Guards, pc[h] = "unlock_read"
                  PROVE  state'[h] \in 1 .. U16Max - 1
      BY DEF UnlockSeesReader
    <2>1. CASE h = g
      <3>1. state'[h] = lock_state
        BY <2>1 DEF LockInv, TypeOK, Load
      <3>2. h \in Readers
        BY DEF Readers
      <3>. QED  BY <3>1, <3>2, ReaderCounted
    <2>2. CASE h # g
      BY <2>2 DEF LockInv, TypeOK, Load, UnlockSeesReader
    <2>. QED  BY <2>1, <2>2
  <1>. QED  BY <1>1, <1>2, <1>3, <1>4, SetsUntouched DEF LockInv

(* A refused guard leaves everything as it was.                            *)
LEMMA RefuseStep ==
  ASSUME LockInv, NEW g \in Guards, pc[g] \in {"free", "lock_read"}, Goto(g, "refused"),
         UNCHANGED <<lock_state, data, state>>
  PROVE  LockInv'
  <1>1. TypeOK'
    BY DEF LockInv, TypeOK, Goto, Pcs
  <1>2. Readers' = Readers /\ Writers' = Writers
    BY GotoSets, Membership DEF LockInv
  <1>3. UnlockSeesReader' /\ UnlockNeverFails'
    BY OthersKept DEF Pcs
  <1>. QED  BY <1>1, <1>2, <1>3, SetsUntouched DEF LockInv

LEMMA LockReadStep ==
  ASSUME LockInv, NEW g \in Guards, LockRead(g)
  PROVE  LockInv'
  <1>1. pc[g] = "lock_read" /\ data' = data
    BY DEF LockRead
  <1>2. CASE state[g] \in {U16Max - 1, U16Max}
    BY <1>1, <1>2, RefuseStep DEF LockRead
  <1>3. CASE state[g] \notin {U16Max - 1, U16Max}
    <2>1. CompareExchange(g, state[g] + 1, "reading")
      BY <1>3 DEF LockRead
    <2>2. CASE lock_state # state[g] /\ Load(g) /\ UNCHANGED <<lock_state, pc>>
      BY <1>1, <2>2, RetryStep
    <2>3. CASE lock_state = state[g] /\ lock_state' = state[g] + 1 /\ Goto(g, "reading")
               /\ UNCHANGED state
      <3>1. lock_state \in 0 .. U16Max - 2 /\ lock_state' = lock_state + 1
        BY <1>3, <2>3, LockAssumption DEF LockInv, TypeOK
      <3>2. Writers = {} /\ lock_state = Cardinality(Readers)
        BY <3>1, LockAssumption DEF LockInv, LockCounts
      <3>3. g \notin Readers /\ g \notin Writers
        BY <1>1, Membership DEF LockInv
      <3>4. Readers' = Readers \cup {g} /\ Writers' = {}
        BY <2>3, <3>2, GotoSets DEF LockInv
      <3>5. Cardinality(Readers') = Cardinality(Readers) + 1
        BY <3>3, <3>4, ReadersFinite, FS_AddElement
      <3>6. lock_state' \in 0 .. U16Max /\ lock_state' < U16Max
        BY <3>1, LockAssumption
      <3>7. LockCounts'
        BY <3>1, <3>2, <3>4, <3>5, <3>6 DEF LockCounts
      <3>8. UnlockSeesReader' /\ UnlockNeverFails' /\ pc' \in [Guards -> Pcs]
        BY <2>3, OthersKept DEF Pcs
      <3>9. TypeOK'
        BY <1>1, <2>3, <3>6, <3>8 DEF LockInv, TypeOK
      <3>. QED  BY <3>7, <3>8, <3>9 DEF LockInv
    <2>. QED  BY <2>1, <2>2, <2>3 DEF CompareExchange
  <1>. QED  BY <1>2, <1>3

LEMMA DropReadStep ==
  ASSUME LockInv, NEW g \in Guards, DropRead(g)
  PROVE  LockInv'
  <1>1. pc[g] = "reading" /\ Load(g) /\ Goto(g, "unlock_read") /\ UNCHANGED <<lock_state, data>>
    BY DEF DropRead
  <1>2. TypeOK'
    BY <1>1 DEF LockInv, TypeOK, Load, Goto, Pcs
  <1>3. g \in Readers /\ g \notin Writers
    BY <1>1, Membership DEF LockInv
  <1>4. Readers' = Readers /\ Writers' = Writers
    BY <1>1, <1>3, GotoSets DEF LockInv
  <1>5. state'[g] \in 1 .. U16Max - 1
    BY <1>1, <1>3, ReaderCounted DEF LockInv, TypeOK, Load
  <1>6. UnlockSeesReader' /\ UnlockNeverFails'
    BY <1>1, <1>5, OthersKept DEF LockInv, TypeOK, Load, Pcs
  <1>. QED  BY <1>1, <1>2, <1>4, <1>6, SetsUntouched DEF LockInv

LEMMA UnlockReadStep ==
  ASSUME LockInv, NEW g \in Guards, UnlockRead(g)
  PROVE  LockInv'
  <1>1. pc[g] = "unlock_read" /\ data' = data
    BY DEF UnlockRead
  <1>2. state[g] \in 1 .. U16Max - 1
    BY <1>1 DEF LockInv, UnlockSeesReader
  <1>3. CompareExchange(g, state[g] - 1, "free")
    BY <1>2, LockAssumption DEF UnlockRead
  <1>4. CASE lock_state # state[g] /\ Load(g) /\ UNCHANGED <<lock_state, pc>>
    BY <1>1, <1>4, RetryStep
  <1>5. CASE lock_state = state[g] /\ lock_state' = state[g] - 1 /\ Goto(g, "free")
             /\ UNCHANGED state
    <2>1. g \in Readers
      BY <1>1, Membership DEF LockInv
    <2>2. Writers = {} /\ lock_state = Cardinality(Readers)
      BY <2>1, ReaderCounted
    <2>3. Readers' = Readers \ {g} /\ Writers' = {}
      BY <1>5, <2>2, GotoSets DEF LockInv
    <2>4. Cardinality(Readers') = Cardinality(Readers) - 1
      BY <2>1, <2>3, ReadersFinite, FS_RemoveElement
    <2>5. lock_state' \in 0 .. U16Max /\ lock_state' < U16Max /\ lock_state' = lock_state - 1
      BY <1>2, <1>5, LockAssumption
    <2>6. LockCounts'
      BY <2>2, <2>3, <2>4, <2>5 DEF LockCounts
    <2>7. UnlockSeesReader' /\ UnlockNeverFails' /\ pc' \in [Guards -> Pcs]
      BY <1>5, OthersKept DEF Pcs
    <2>8. TypeOK'
      BY <1>1, <1>5, <2>5, <2>7 DEF LockInv, TypeOK
    <2>. QED  BY <2>6, <2>7, <2>8 DEF LockInv
  <1>. QED  BY <1>3, <1>4, <1>5 DEF CompareExchange

-----------------------------------------------------------------------------
LEMMA WriterAlone ==
  ASSUME LockInv, NEW g \in Writers
  PROVE  lock_state = U16Max /\ Readers = {} /\ Writers = {g}
  BY DEF LockInv, LockCounts

LEMMA GetMutStep ==
  ASSUME LockInv, NEW g \in Guards, GetMut(g)
  PROVE  LockInv'
  <1>1. pc[g] = "free" /\ UNCHANGED <<data, state>>
    BY DEF GetMut
  <1>2. CASE lock_state # 0
    BY <1>1, <1>2, RefuseStep DEF GetMut
  <1>3. CASE lock_state = 0
    <2>1. lock_state' = U16Max /\ Goto(g, "writing")
      BY <1>3 DEF GetMut
    <2>2. Writers = {} /\ Readers = {}
      BY <1>3, LockAssumption, ReadersFinite, FS_EmptySet DEF LockInv, LockCounts
    <2>3. Readers' = {} /\ Writers' = {g}
      BY <2>1, <2>2, GotoSets DEF LockInv
    <2>4. LockCounts'
      BY <2>1, <2>3 DEF LockCounts
    <2>5. UnlockSeesReader' /\ UnlockNeverFails' /\ pc' \in [Guards -> Pcs]
      BY <1>1, <2>1, OthersKept DEF Pcs
    <2>6. TypeOK'
      BY <1>1, <2>1, <2>5, LockAssumption DEF LockInv, TypeOK
    <2>. QED  BY <2>4, <2>5, <2>6 DEF LockInv
  <1>. QED  BY <1>2, <1>3

LEMMA WriteStep ==
  ASSUME LockInv, NEW g \in Guards, Write(g)
  PROVE  LockInv'
  <1>1. data' \in {0, 1} /\ UNCHANGED <<lock_state, pc, state>>
    BY DEF Write, LockInv, TypeOK
  <1>2. Readers' = Readers /\ Writers' = Writers
    BY <1>1 DEF Readers, Writers
  <1>. QED  BY <1>1, <1>2 DEF LockInv, TypeOK, LockCounts, UnlockSeesReader, UnlockNeverFails

LEMMA SendStep ==
  ASSUME LockInv, NEW g \in Guards, Send(g)
  PROVE  LockInv'
  <1>1. pc[g] = "writing" /\ UNCHANGED <<data, state>>
    BY DEF Send
  <1>2. g \in Writers
    BY <1>1 DEF Writers
  <1>3. lock_state = U16Max /\ Readers = {} /\ Writers = {g}
    BY <1>2, WriterAlone
  <1>4. lock_state' = 0 /\ Goto(g, "sent")
    BY <1>3 DEF Send
  <1>5. Readers' = {} /\ Writers' = {}
    BY <1>3, <1>4, GotoSets DEF LockInv
  <1>6. LockCounts'
    BY <1>4, <1>5, LockAssumption, FS_EmptySet DEF LockCounts
  <1>7. UnlockSeesReader' /\ UnlockNeverFails' /\ pc' \in [Guards -> Pcs]
    BY <1>1, <1>4, OthersKept DEF Pcs
  <1>8. TypeOK'
    BY <1>1, <1>4, <1>7, LockAssumption DEF LockInv, TypeOK
  <1>. QED  BY <1>6, <1>7, <1>8 DEF LockInv

LEMMA ForgetStep ==
  ASSUME LockInv, NEW g \in Guards, Forget(g)
  PROVE  LockInv'
  <1>1. pc[g] = "writing" /\ Goto(g, "unsent") /\ UNCHANGED <<lock_state, data, state>>
    BY DEF Forget
  <1>2. g \in Writers /\ g \notin Readers
    BY <1>1, Membership DEF LockInv
  <1>3. Readers' = Readers /\ Writers' = Writers
    BY <1>1, <1>2, GotoSets DEF LockInv
  <1>4. UnlockSeesReader' /\ UnlockNeverFails' /\ pc' \in [Guards -> Pcs]
    BY <1>1, OthersKept DEF Pcs
  <1>5. TypeOK'
    BY <1>1, <1>4 DEF LockInv, TypeOK
  <1>. QED  BY <1>1, <1>3, <1>4, <1>5, SetsUntouched DEF LockInv

LEMMA DropWriteStep ==
  ASSUME LockInv, NEW g \in Guards, DropWrite(g)
  PROVE  LockInv'
  <1>1. UNCHANGED <<lock_state, data, state>>
    BY DEF DropWrite
  <1>2. CASE pc[g] = "sent"
    <2>1. PICK to \in {"free", "false_alarm"} : Goto(g, to)
      BY <1>2 DEF DropWrite
    <2>2. Readers' = Readers /\ Writers' = Writers
      BY <1>2, <2>1, GotoSets, Membership DEF LockInv
    <2>3. UnlockSeesReader' /\ UnlockNeverFails' /\ pc' \in [Guards -> Pcs]
      BY <1>1, <2>1, OthersKept DEF Pcs
    <2>4. TypeOK'
      BY <1>1, <2>3 DEF LockInv, TypeOK
    <2>. QED  BY <1>1, <2>2, <2>3, <2>4, SetsUntouched DEF LockInv
  <1>3. CASE pc[g] = "unsent"
    <2>1. g \in Writers /\ g \notin Readers
      BY <1>3, Membership DEF LockInv
    <2>2. lock_state # 0
      BY <2>1, WriterAlone, LockAssumption
    <2>3. Goto(g, "missed_send")
      BY <1>3, <2>2 DEF DropWrite
    <2>4. Readers' = Readers /\ Writers' = Writers
      BY <2>1, <2>3, GotoSets DEF LockInv
    <2>5. UnlockSeesReader' /\ UnlockNeverFails' /\ pc' \in [Guards -> Pcs]
      BY <1>1, <2>3, OthersKept DEF Pcs
    <2>6. TypeOK'
      BY <1>1, <2>5 DEF LockInv, TypeOK
    <2>. QED  BY <1>1, <2>4, <2>5, <2>6, SetsUntouched DEF LockInv
  <1>. QED  BY <1>2, <1>3 DEF DropWrite

LEMMA NextInvariant == LockInv /\ [Next]_vars => LockInv'
  <1>. SUFFICES ASSUME LockInv, [Next]_vars PROVE LockInv'
    OBVIOUS
  <1>1. CASE UNCHANGED vars
    <2>1. UNCHANGED <<lock_state, data, pc, state>> /\ Readers' = Readers /\ Writers' = Writers
      BY <1>1 DEF vars, Readers, Writers
    <2>. QED  BY <2>1 DEF LockInv, TypeOK, LockCounts, UnlockSeesReader, UnlockNeverFails
  <1>2. CASE Next
    <2>1. PICK g \in Guards :
            \/ Get(g) \/ LockRead(g) \/ DropRead(g) \/ UnlockRead(g)
            \/ GetMut(g) \/ Write(g) \/ Send(g) \/ Forget(g) \/ DropWrite(g)
      BY <1>2 DEF Next
    <2>. QED  BY <2>1, GetStep, LockReadStep, DropReadStep, UnlockReadStep, GetMutStep,
                 WriteStep, SendStep, ForgetStep, DropWriteStep
  <1>. QED  BY <1>1, <1>2

-----------------------------------------------------------------------------
(***************************************************************************)
(* lock_state counts the readers, never reaches u16::MAX by counting, and  *)
(* at u16::MAX stands for exactly one writer (lock_read, unlock_read,      *)
(* lock_write, unlock_write).                                              *)
(***************************************************************************)
THEOREM LockInvariant == Spec => []LockInv
  BY InitInvariant, NextInvariant, PTL DEF Spec

(* The assertions of unlock_read and unlock_write never fail.              *)
THEOREM UnlockSafe == Spec => []UnlockNeverFails
  <1>1. LockInv => UnlockNeverFails
    BY DEF LockInv
  <1>. QED  BY <1>1, LockInvariant, PTL

(* The topic's memory never changes while anybody else has access to it.   *)
THEOREM ReadsAreStable == Spec => ReadsStable
  <1>1. LockInv /\ [Next]_vars =>
          [data' # data => Readers = {} /\ Cardinality(Writers) = 1]_vars
    <2>. SUFFICES ASSUME LockInv, Next, data' # data
                  PROVE  Readers = {} /\ Cardinality(Writers) = 1
      BY DEF vars
    <2>1. PICK g \in Guards : Write(g)
      BY DEF Next, Get, LockRead, DropRead, UnlockRead, GetMut, Send, Forget, DropWrite
    <2>2. g \in Writers
      BY <2>1 DEF Write, Writers
    <2>. QED  BY <2>2, WriterAlone, FS_Singleton
  <1>. QED  BY <1>1, LockInvariant, PTL DEF Spec, ReadsStable

(* After a missed send() the topic stays locked for everybody else.        *)
THEOREM UnsentKeepsLock == Spec => UnsentStaysLocked
  <1>. DEFINE Stays == \A g \in Guards : pc[g] \in {"unsent", "missed_send"} =>
                /\ pc'[g] \in {"unsent", "missed_send"}
                /\ \A h \in Guards \ {g} : h \notin Readers' \cup Writers'
  <1>1. LockInv /\ LockInv' /\ [Next]_vars => [Stays]_vars
    <2>. SUFFICES ASSUME LockInv, LockInv', Next, NEW g \in Guards,
                         pc[g] \in {"unsent", "missed_send"}
                  PROVE  /\ pc'[g] \in {"unsent", "missed_send"}
                         /\ \A h \in Guards \ {g} : h \notin Readers' \cup Writers'
      BY DEF vars
    <2>1. g \in Writers
      BY DEF Writers
    <2>2. lock_state # 0
      BY <2>1, WriterAlone, LockAssumption
    <2>3. pc'[g] \in {"unsent", "missed_send"}
      <3>1. PICK k \in Guards :
            \/ Get(k) \/ LockRead(k) \/ DropRead(k) \/ UnlockRead(k)
            \/ GetMut(k) \/ Write(k) \/ Send(k) \/ Forget(k) \/ DropWrite(k)
        BY DEF Next
      <3>. QED  BY <2>2, <3>1 DEF LockInv, TypeOK, Goto, CompareExchange, Get, LockRead, DropRead,
                   UnlockRead, GetMut, Write, Send, Forget, DropWrite
    <2>4. g \in Writers'
      BY <2>3 DEF Writers
    <2>5. Readers' = {} /\ Writers' = {g}
      BY <2>4 DEF LockInv, LockCounts
    <2>. QED  BY <2>3, <2>5
  <1>. QED  BY <1>1, LockInvariant, PTL DEF Spec, UnsentStaysLocked
=============================================================================
