---------------------------- MODULE ComTopicProofs ----------------------------
(***************************************************************************)
(* One topic in a task chain, for any number of readers, however they are  *)
(* spread over processes, and for each backend.  The scheduler's order is  *)
(* what excludes the writer and the readers from each other: InTurn says   *)
(* so, and LockCounts derives the locks of LinuxShm from it.               *)
(***************************************************************************)
EXTENDS ComTopic, FiniteSetTheorems, TLAPS

-----------------------------------------------------------------------------
(* The inductive invariant.                                                *)

(* The writer holds the segment, or has left it locked.                    *)
Writing == out # "none" \/ panicked[Writer] = "unsent"

(* The guards of the readers of a process.                                 *)
Holders(p) == {r \in Readers : ProcessOf[r] = p /\ input[r] # NoGuard}

(* Guards and results exist only in the part of the cycle their activity   *)
(* may step in.                                                            *)
InTurn ==
  /\ Writing => Before \subseteq stepped /\ Writer \notin stepped
  /\ out # "none" => panicked[Writer] = "-"
  /\ panicked[Writer] = "unsent" => Shm
  /\ \A r \in Readers : input[r] # NoGuard => r \notin stepped
  /\ \A r \in Readers \ Before : Writer \notin stepped => input[r] = NoGuard /\ got[r] = NoGuard

LockCounts ==
  \A p \in Processes :
    lock[p] = IF Shm THEN IF Writing /\ p = ProcessOf[Writer] THEN -1
                          ELSE Cardinality(Holders(p))
              ELSE 0

NoConflict == \A a \in Acts : panicked[a] # "conflict"

(* What is in the segment, the queues and the guards is what was sent.     *)
Fresh ==
  /\ Shm /\ ~Writing => memory = sent
  /\ ~Shm /\ out = "init" => sample \in Payloads
  /\ ~Shm => \A r \in Readers :
       /\ queue[r] = << >> \/ queue[r] = <<sent>>
       /\ queue[r] = << >> /\ input[r] = NoGuard => seen[r] = sent
       /\ input[r] # NoGuard => input[r] = sent

ComInv ==
  /\ TypeOK /\ InTurn /\ LockCounts /\ NoConflict /\ Fresh
  /\ ReadsLatestSent /\ EmptyOnlyIfSeen

-----------------------------------------------------------------------------
LEMMA HoldersFinite ==
  ASSUME NEW p
  PROVE  IsFiniteSet(Holders(p)) /\ Cardinality(Holders(p)) \in Nat
  <1>1. Holders(p) \subseteq Readers
    BY DEF Holders
  <1>. QED  BY <1>1, ComAssumption, FS_Subset, FS_CardinalityType

LEMMA NoHolders ==
  ASSUME NEW p, \A r \in Readers : input[r] = NoGuard
  PROVE  Cardinality(Holders(p)) = 0
  <1>1. Holders(p) = {}
    BY DEF Holders
  <1>. QED  BY <1>1, FS_EmptySet

(* While the writer is at work, or may begin, no reader has a guard and    *)
(* none that has read in this cycle is still in its step.                  *)
LEMMA WriterAlone ==
  ASSUME InTurn, Writing \/ MayStep(Writer), NEW r \in Readers
  PROVE  input[r] = NoGuard /\ (r \in stepped \/ got[r] = NoGuard)
  BY DEF InTurn, MayStep

(* A reader that may step does so while the writer does not write.         *)
LEMMA ReaderApart ==
  ASSUME InTurn, NEW r \in Readers, MayStep(r) \/ input[r] # NoGuard
  PROVE  ~Writing
  BY ComAssumption DEF InTurn, MayStep

LEMMA ProcessesOfActs ==
  /\ Writer \in Acts /\ ProcessOf[Writer] \in Processes
  /\ \A r \in Readers : r \in Acts /\ ProcessOf[r] \in Processes /\ r # Writer
  BY ComAssumption DEF Acts, Processes

LEMMA InitInvariant == Init => ComInv
  <1>. SUFFICES ASSUME Init PROVE ComInv
    OBVIOUS
  <1>1. TypeOK
    BY ComAssumption DEF Init, TypeOK, Payloads, NoGuard, Garbage
  <1>2. ~Writing /\ \A r \in Readers : input[r] = NoGuard /\ got[r] = NoGuard /\ seen[r] = sent
    BY ProcessesOfActs DEF Init, Writing
  <1>3. InTurn
    BY <1>2, ProcessesOfActs DEF Init, InTurn
  <1>4. LockCounts
    BY <1>2, NoHolders DEF Init, LockCounts
  <1>5. NoConflict /\ Fresh
    BY <1>2, ProcessesOfActs DEF Init, NoConflict, Fresh
  <1>6. ReadsLatestSent /\ EmptyOnlyIfSeen
    BY <1>2 DEF ReadsLatestSent, EmptyOnlyIfSeen, NoGuard, None
  <1>. QED  BY <1>1, <1>3, <1>4, <1>5, <1>6 DEF ComInv

(* The locks when the readers' guards do not change.                       *)
LEMMA LocksKept ==
  ASSUME LockCounts, input' = input, backend' = backend, lock' = lock, Writing' = Writing
  PROVE  LockCounts'
  BY DEF LockCounts, Holders, Shm

-----------------------------------------------------------------------------
(* The writer takes a guard.                                               *)
LEMMA BeginStep ==
  ASSUME ComInv, WriteUninit \/ WriteInit
  PROVE  ComInv'
  <1>. USE ProcessesOfActs
  <1>1. /\ MayStep(Writer) /\ out = "none"
        /\ \A r \in Readers : input[r] = NoGuard /\ (r \in stepped \/ got[r] = NoGuard)
    BY WriterAlone DEF ComInv, WriteUninit, WriteInit
  <1>2. ~Writing
    BY <1>1 DEF MayStep, Writing
  <1>3. ~Conflict
    BY <1>1, <1>2, NoHolders DEF ComInv, LockCounts, Conflict
  <1>4. /\ LockWrite /\ out' \in {"uninit", "init"} /\ UNCHANGED panicked
        /\ UNCHANGED <<backend, cycle, stepped, queue, sent, input, got, seen>>
        /\ sample' \in {sample, Garbage, 0} /\ memory' \in {memory, 0}
        /\ ~Shm /\ out' = "init" => sample' = 0
    BY <1>3 DEF WriteUninit, WriteInit, Store, readerVars
  <1>5. TypeOK'
    <2>1. lock' \in [Processes -> Int] /\ \A p \in Processes : lock'[p] >= -1
      BY <1>4 DEF ComInv, TypeOK, LockWrite
    <2>2. 0 \in Payloads
      BY ComAssumption DEF Payloads
    <2>. QED  BY <1>4, <2>1, <2>2 DEF ComInv, TypeOK
  <1>6. Writing'
    BY <1>4 DEF Writing
  <1>7. InTurn'
    BY <1>1, <1>4 DEF ComInv, InTurn, MayStep, Shm
  <1>8. LockCounts'
    <2>1. CASE Shm
      <3>1. \A p \in Processes : lock[p] = 0 /\ Cardinality(Holders(p)') = 0
        <4>1. \A p : Holders(p)' = Holders(p)
          BY <1>4 DEF Holders
        <4>. QED  BY <4>1, <1>1, <1>2, <2>1, NoHolders DEF ComInv, LockCounts
      <3>. QED  BY <3>1, <1>4, <1>6, <2>1 DEF ComInv, TypeOK, LockCounts, LockWrite, Shm
    <2>2. CASE ~Shm
      BY <2>2, <1>4 DEF ComInv, LockCounts, LockWrite, Shm
    <2>. QED  BY <2>1, <2>2
  <1>9. NoConflict' /\ ReadsLatestSent' /\ EmptyOnlyIfSeen'
    BY <1>4 DEF ComInv, NoConflict, ReadsLatestSent, EmptyOnlyIfSeen
  <1>10. Fresh'
    <2>1. 0 \in Payloads
      BY ComAssumption DEF Payloads
    <2>. QED  BY <2>1, <1>4, <1>6 DEF ComInv, Fresh, Shm
  <1>. QED  BY <1>5, <1>7, <1>8, <1>9, <1>10 DEF ComInv

(* The writer writes through its guard.                                    *)
LEMMA StoreStep ==
  ASSUME ComInv, WritePayload \/ InitDefault \/ Modify
  PROVE  ComInv'
  <1>. USE ProcessesOfActs
  <1>1. PICK v \in Payloads : Store(v)
    BY ComAssumption DEF ComInv, TypeOK, Payloads, WritePayload, InitDefault, Modify
  <1>2. /\ out # "none" /\ out' = "init"
        /\ UNCHANGED <<backend, cycle, stepped, lock, queue, panicked, sent, input, got, seen>>
    BY DEF WritePayload, InitDefault, Modify, readerVars
  <1>3. Writing /\ Writing'
    BY <1>2 DEF Writing
  <1>4. TypeOK'
    BY <1>1, <1>2 DEF ComInv, TypeOK, Store
  <1>5. InTurn' /\ NoConflict' /\ ReadsLatestSent' /\ EmptyOnlyIfSeen'
    BY <1>2, <1>3 DEF ComInv, InTurn, Shm, NoConflict, ReadsLatestSent, EmptyOnlyIfSeen
  <1>6. LockCounts'
    BY <1>2, <1>3, LocksKept DEF ComInv
  <1>7. Fresh'
    BY <1>1, <1>2, <1>3 DEF ComInv, Fresh, Shm, Store
  <1>. QED  BY <1>4, <1>5, <1>6, <1>7 DEF ComInv

LEMMA SendStep ==
  ASSUME ComInv, Send
  PROVE  ComInv'
  <1>. USE ProcessesOfActs
  <1>1. /\ out = "init" /\ Writing
        /\ out' = "none" /\ stepped' = stepped \cup {Writer}
        /\ UNCHANGED <<backend, cycle, memory, sample, panicked, input, got, seen>>
    BY DEF Send, EndStep, Writing, readerVars
  <1>2. panicked[Writer] = "-" /\ ~Writing'
    BY <1>1 DEF Send, Writing
  <1>3. \A r \in Readers : input[r] = NoGuard /\ (r \in stepped \/ got[r] = NoGuard)
    BY <1>1, WriterAlone DEF ComInv
  <1>4. /\ Shm => /\ lock' = [lock EXCEPT ![ProcessOf[Writer]] = 0]
                  /\ sent' = memory /\ UNCHANGED queue
        /\ ~Shm => /\ queue' = [r \in Readers |-> <<sample>>]
                   /\ sent' = sample /\ sample \in Payloads /\ UNCHANGED lock
    BY <1>1 DEF Send, Deliver, ComInv, Fresh
  <1>5. TypeOK'
    <2>1. stepped' \subseteq Acts
      BY <1>1 DEF ComInv, TypeOK
    <2>2. lock' \in [Processes -> Int] /\ \A p \in Processes : lock'[p] >= -1
      BY <1>4 DEF ComInv, TypeOK
    <2>3. queue' \in [Readers -> Seq(Payloads)] /\ \A r \in Readers : Len(queue'[r]) <= 1
      <3>1. CASE Shm
        BY <3>1, <1>4 DEF ComInv, TypeOK
      <3>2. CASE ~Shm
        <4>1. <<sample>> \in Seq(Payloads) /\ Len(<<sample>>) = 1
          BY <3>2, <1>4
        <4>2. \A r \in Readers : queue'[r] = <<sample>>
          BY <3>2, <1>4
        <4>3. queue' \in [Readers -> Seq(Payloads)]
          BY <4>1, <3>2, <1>4
        <4>4. ASSUME NEW r \in Readers PROVE Len(queue'[r]) <= 1
          <5>1. queue'[r] = <<sample>>
            BY <4>2
          <5>2. Len(<<sample>>) <= 1
            BY <4>1
          <5>. QED  BY <5>1, <5>2, Zenon
        <4>. QED  BY <4>3, <4>4
      <3>. QED  BY <3>1, <3>2
    <2>4. sent' \in Payloads
      BY <1>4 DEF ComInv, TypeOK
    <2>. QED  BY <2>1, <2>2, <2>3, <2>4, <1>1 DEF ComInv, TypeOK
  <1>6. InTurn'
    BY <1>1, <1>2, <1>3 DEF ComInv, InTurn
  <1>7. LockCounts'
    <2>1. \A p \in Processes : Cardinality(Holders(p)) = 0 /\ Holders(p)' = Holders(p)
      BY <1>1, <1>3, NoHolders DEF Holders
    <2>2. CASE Shm
      BY <2>1, <2>2, <1>1, <1>2, <1>4 DEF ComInv, LockCounts, TypeOK, Shm
    <2>3. CASE ~Shm
      BY <2>3, <1>1, <1>4 DEF ComInv, LockCounts, Shm
    <2>. QED  BY <2>2, <2>3
  <1>8. NoConflict'
    BY <1>1 DEF ComInv, NoConflict
  <1>9. ReadsLatestSent' /\ EmptyOnlyIfSeen'
    BY <1>1, <1>3 DEF ReadsLatestSent, EmptyOnlyIfSeen, NoGuard, None
  <1>10. Fresh'
    BY <1>1, <1>3, <1>4 DEF Fresh, Shm
  <1>. QED  BY <1>5, <1>6, <1>7, <1>8, <1>9, <1>10 DEF ComInv

LEMMA DropOutputStep ==
  ASSUME ComInv, DropOutput
  PROVE  ComInv'
  <1>. USE ProcessesOfActs
  <1>1. /\ out # "none" /\ panicked[Writer] = "-" /\ Writing /\ out' = "none"
        /\ UNCHANGED <<backend, cycle, lock, queue, memory, sample, sent, input, got, seen>>
    BY DEF DropOutput, Writing, readerVars
  <1>2. \A r \in Readers : input[r] = NoGuard /\ (r \in stepped \/ got[r] = NoGuard)
    BY <1>1, WriterAlone DEF ComInv
  <1>3. /\ Shm => panicked' = [panicked EXCEPT ![Writer] = "unsent"] /\ UNCHANGED stepped
        /\ ~Shm => stepped' = stepped \cup {Writer} /\ UNCHANGED panicked
    BY DEF DropOutput, Panic, EndStep
  <1>4. TypeOK'
    BY <1>1, <1>3 DEF ComInv, TypeOK
  <1>5. Writing' <=> Shm
    BY <1>1, <1>3 DEF ComInv, TypeOK, Writing
  <1>6. InTurn'
    BY <1>1, <1>2, <1>3, <1>5 DEF ComInv, TypeOK, InTurn, Writing, Shm
  <1>7. LockCounts'
    <2>1. CASE Shm
      BY <2>1, <1>1, <1>5, LocksKept DEF ComInv
    <2>2. CASE ~Shm
      BY <2>2, <1>1 DEF ComInv, LockCounts, Shm
    <2>. QED  BY <2>1, <2>2
  <1>8. NoConflict'
    BY <1>3 DEF ComInv, TypeOK, NoConflict
  <1>9. ReadsLatestSent' /\ EmptyOnlyIfSeen'
    BY <1>1, <1>2, <1>3 DEF ComInv, ReadsLatestSent, EmptyOnlyIfSeen
  <1>10. Fresh'
    BY <1>1, <1>2, <1>5 DEF ComInv, Fresh, Shm
  <1>. QED  BY <1>4, <1>6, <1>7, <1>8, <1>9, <1>10 DEF ComInv

-----------------------------------------------------------------------------
(* A reader of LinuxShm never finds the writer's lock and adds itself to   *)
(* the count of its process.                                               *)
LEMMA ReadShmStep ==
  ASSUME ComInv, NEW r \in Readers, ReadShm(r)
  PROVE  ComInv'
  <1>. USE ProcessesOfActs
  <1>1. Shm /\ MayStep(r) /\ input[r] = NoGuard /\ got[r] = NoGuard
    BY DEF ReadShm, MayRead
  <1>2. ~Writing
    BY <1>1, ReaderApart DEF ComInv
  <1>3. \A p \in Processes : lock[p] = Cardinality(Holders(p)) /\ lock[p] \in Nat
    BY <1>1, <1>2, HoldersFinite DEF ComInv, LockCounts
  <1>4. /\ lock' = [lock EXCEPT ![ProcessOf[r]] = @ + 1]
        /\ input' = [input EXCEPT ![r] = memory]
        /\ UNCHANGED <<backend, cycle, stepped, queue, got, seen, memory, out, sample, sent, panicked>>
    BY <1>3 DEF ReadShm, writerVars
  <1>5. TypeOK'
    BY <1>3, <1>4 DEF ComInv, TypeOK
  <1>6. memory # NoGuard
    BY DEF ComInv, TypeOK, Payloads, NoGuard
  <1>7. Shm' /\ ~Writing'
    BY <1>1, <1>2, <1>4 DEF Shm, Writing
  <1>8. InTurn'
    BY <1>1, <1>4, <1>7 DEF ComInv, TypeOK, InTurn, MayStep, Writing
  <1>9. LockCounts'
    <2>. SUFFICES ASSUME NEW p \in Processes PROVE lock'[p] = Cardinality(Holders(p)')
      BY <1>7 DEF LockCounts
    <2>1. CASE p = ProcessOf[r]
      <3>1. Holders(p)' = Holders(p) \cup {r} /\ r \notin Holders(p)
        BY <2>1, <1>1, <1>4, <1>6 DEF ComInv, TypeOK, Holders
      <3>2. Cardinality(Holders(p) \cup {r}) = Cardinality(Holders(p)) + 1
        BY <3>1, HoldersFinite, FS_AddElement
      <3>. QED  BY <3>1, <3>2, <2>1, <1>3, <1>4 DEF ComInv, TypeOK
    <2>2. CASE p # ProcessOf[r]
      <3>1. Holders(p)' = Holders(p)
        BY <2>2, <1>4 DEF ComInv, TypeOK, Holders
      <3>. QED  BY <3>1, <2>2, <1>3, <1>4 DEF ComInv, TypeOK
    <2>. QED  BY <2>1, <2>2
  <1>10. NoConflict' /\ ReadsLatestSent' /\ EmptyOnlyIfSeen'
    BY <1>4 DEF ComInv, NoConflict, ReadsLatestSent, EmptyOnlyIfSeen
  <1>11. Fresh'
    BY <1>2, <1>4, <1>7 DEF ComInv, Fresh, Shm
  <1>. QED  BY <1>5, <1>8, <1>9, <1>10, <1>11 DEF ComInv

LEMMA ReadNothingStep ==
  ASSUME ComInv, NEW r \in Readers, ReadNothing(r)
  PROVE  ComInv'
  <1>. USE ProcessesOfActs
  <1>1. /\ ~Shm /\ MayStep(r) /\ input[r] = NoGuard /\ queue[r] = << >>
        /\ got' = [got EXCEPT ![r] = None]
        /\ panicked' = panicked \/ panicked' = [panicked EXCEPT ![r] = "nosample"]
        /\ UNCHANGED <<backend, cycle, stepped, lock, queue, input, seen, memory, out, sample, sent>>
    BY DEF ReadNothing, MayRead, Panic, writerVars
  <1>2. seen[r] = sent
    BY <1>1 DEF ComInv, Fresh
  <1>3. TypeOK'
    BY <1>1 DEF ComInv, TypeOK
  <1>4. ~Writing /\ ~Writing'
    BY <1>1, ReaderApart DEF ComInv, TypeOK, Writing
  <1>5. InTurn'
    BY <1>1, <1>4 DEF ComInv, TypeOK, InTurn, MayStep, Writing
  <1>6. LockCounts'
    BY <1>1 DEF ComInv, LockCounts, Shm
  <1>7. NoConflict'
    BY <1>1 DEF ComInv, TypeOK, NoConflict
  <1>8. ReadsLatestSent' /\ EmptyOnlyIfSeen'
    BY <1>1, <1>2 DEF ComInv, TypeOK, ReadsLatestSent, EmptyOnlyIfSeen, None
  <1>9. Fresh'
    BY <1>1 DEF ComInv, Fresh, Shm
  <1>. QED  BY <1>3, <1>5, <1>6, <1>7, <1>8, <1>9 DEF ComInv

LEMMA ReadSampleStep ==
  ASSUME ComInv, NEW r \in Readers, ReadSample(r)
  PROVE  ComInv'
  <1>. USE ProcessesOfActs
  <1>1. /\ ~Shm /\ MayStep(r) /\ input[r] = NoGuard /\ queue[r] # << >>
        /\ input' = [input EXCEPT ![r] = Head(queue[r])]
        /\ queue' = [queue EXCEPT ![r] = Tail(queue[r])]
        /\ UNCHANGED <<backend, cycle, stepped, lock, got, panicked, seen, memory, out, sample, sent>>
    BY DEF ReadSample, MayRead, writerVars
  <1>2. queue[r] = <<sent>> /\ sent \in Payloads
    BY <1>1 DEF ComInv, Fresh, TypeOK
  <1>3. Head(queue[r]) = sent /\ Tail(queue[r]) = << >>
    BY <1>2
  <1>4. TypeOK'
    BY <1>1, <1>2, <1>3 DEF ComInv, TypeOK
  <1>5. sent # NoGuard
    BY <1>2 DEF Payloads, NoGuard
  <1>6. InTurn'
    BY <1>1 DEF ComInv, TypeOK, InTurn, MayStep, Writing, Shm
  <1>7. LockCounts'
    BY <1>1 DEF ComInv, LockCounts, Shm
  <1>8. NoConflict' /\ ReadsLatestSent' /\ EmptyOnlyIfSeen'
    BY <1>1 DEF ComInv, NoConflict, ReadsLatestSent, EmptyOnlyIfSeen
  <1>9. Fresh'
    BY <1>1, <1>3, <1>5 DEF ComInv, TypeOK, Fresh, Shm
  <1>. QED  BY <1>4, <1>6, <1>7, <1>8, <1>9 DEF ComInv

(* A reader uses its guard and gives it back.                              *)
LEMMA DropInputStep ==
  ASSUME ComInv, NEW r \in Readers, DropInput(r)
  PROVE  ComInv'
  <1>. USE ProcessesOfActs
  <1>1. input[r] # NoGuard /\ ~Writing
    BY ReaderApart DEF DropInput, ComInv
  <1>2. Payload(r) = sent /\ sent \in Payloads
    BY <1>1 DEF ComInv, TypeOK, Fresh, Payload
  <1>3. /\ got' = [got EXCEPT ![r] = sent] /\ seen' = [seen EXCEPT ![r] = sent]
        /\ input' = [input EXCEPT ![r] = NoGuard]
        /\ lock' = IF Shm THEN [lock EXCEPT ![ProcessOf[r]] = @ - 1] ELSE lock
        /\ UNCHANGED <<backend, cycle, stepped, queue, panicked, memory, out, sample, sent>>
    BY <1>2 DEF DropInput, writerVars
  <1>4. ~Writing'
    BY <1>1, <1>3 DEF Writing
  <1>5. LockCounts' /\ (lock' \in [Processes -> Int]) /\ \A p \in Processes : lock'[p] >= -1
    <2>1. CASE Shm
      <3>1. \A p \in Processes : lock[p] = Cardinality(Holders(p))
        BY <2>1, <1>1 DEF ComInv, LockCounts
      <3>2. ASSUME NEW p \in Processes
            PROVE  lock'[p] = Cardinality(Holders(p)') /\ lock'[p] \in Nat
        <4>1. CASE p = ProcessOf[r]
          <5>1. Holders(p)' = Holders(p) \ {r} /\ r \in Holders(p)
            BY <4>1, <1>1, <1>3 DEF ComInv, TypeOK, Holders
          <5>2. Cardinality(Holders(p) \ {r}) = Cardinality(Holders(p)) - 1
            BY <5>1, HoldersFinite, FS_RemoveElement
          <5>3. IsFiniteSet(Holders(p) \ {r})
            BY HoldersFinite, FS_RemoveElement
          <5>4. Cardinality(Holders(p) \ {r}) \in Nat
            BY <5>3, FS_CardinalityType
          <5>. QED  BY <5>1, <5>2, <5>4, <4>1, <3>1, <2>1, <1>3 DEF ComInv, TypeOK
        <4>2. CASE p # ProcessOf[r]
          <5>1. Holders(p)' = Holders(p)
            BY <4>2, <1>3 DEF ComInv, TypeOK, Holders
          <5>. QED  BY <5>1, <4>2, <3>1, <2>1, <1>3, HoldersFinite DEF ComInv, TypeOK
        <4>. QED  BY <4>1, <4>2
      <3>3. Shm'
        BY <2>1, <1>3 DEF Shm
      <3>4. LockCounts'
        BY <3>2, <3>3, <1>4 DEF LockCounts
      <3>5. lock' \in [Processes -> Int]
        BY <2>1, <1>3 DEF ComInv, TypeOK
      <3>. QED  BY <3>2, <3>4, <3>5
    <2>2. CASE ~Shm
      BY <2>2, <1>3 DEF ComInv, TypeOK, LockCounts, Shm
    <2>. QED  BY <2>1, <2>2
  <1>6. TypeOK'
    BY <1>2, <1>3, <1>5 DEF ComInv, TypeOK
  <1>7. InTurn'
    BY <1>1, <1>3, <1>4 DEF ComInv, TypeOK, InTurn, Writing, Shm
  <1>8. NoConflict' /\ ReadsLatestSent'
    BY <1>3 DEF ComInv, TypeOK, NoConflict, ReadsLatestSent
  <1>9. EmptyOnlyIfSeen'
    BY <1>3 DEF ComInv, TypeOK, EmptyOnlyIfSeen
  <1>10. Fresh'
    BY <1>1, <1>3 DEF ComInv, TypeOK, Fresh, Shm, Writing
  <1>. QED  BY <1>5, <1>6, <1>7, <1>8, <1>9, <1>10 DEF ComInv

-----------------------------------------------------------------------------
LEMMA StepEndsStep ==
  ASSUME ComInv, NEW a \in Acts, StepEnds(a)
  PROVE  ComInv'
  <1>. USE ProcessesOfActs
  <1>1. /\ MayStep(a) /\ stepped' = stepped \cup {a}
        /\ a = Writer => out = "none"
        /\ a # Writer => a \in Readers /\ input[a] = NoGuard
        /\ UNCHANGED <<backend, cycle, lock, queue, panicked, memory, out, sample, sent,
                       input, got, seen>>
    BY DEF StepEnds, EndStep, Acts, writerVars, readerVars
  <1>2. Writing' = Writing
    BY <1>1 DEF Writing
  <1>3. TypeOK' /\ NoConflict' /\ Fresh'
    BY <1>1, <1>2 DEF ComInv, TypeOK, NoConflict, Fresh, Shm
  <1>4. InTurn'
    <2>1. a = Writer => ~Writing
      BY <1>1 DEF MayStep, Writing
    <2>. QED  BY <2>1, <1>1, <1>2 DEF ComInv, InTurn, Shm
  <1>5. LockCounts'
    BY <1>1, <1>2, LocksKept DEF ComInv
  <1>6. ReadsLatestSent' /\ EmptyOnlyIfSeen'
    BY <1>1 DEF ComInv, ReadsLatestSent, EmptyOnlyIfSeen
  <1>. QED  BY <1>3, <1>4, <1>5, <1>6 DEF ComInv

LEMMA NextCycleStep ==
  ASSUME ComInv, NextCycle
  PROVE  ComInv'
  <1>. USE ProcessesOfActs
  <1>1. /\ stepped = Acts /\ cycle < MaxCycles /\ cycle' = cycle + 1 /\ stepped' = {}
        /\ got' = [r \in Readers |-> NoGuard]
        /\ UNCHANGED <<backend, lock, queue, panicked, input, seen, memory, out, sample, sent>>
    BY DEF NextCycle, writerVars
  <1>2. ~Writing /\ ~Writing' /\ \A r \in Readers : input[r] = NoGuard
    BY <1>1 DEF ComInv, InTurn, Writing
  <1>3. TypeOK'
    BY <1>1, ComAssumption DEF ComInv, TypeOK
  <1>4. InTurn' /\ NoConflict' /\ Fresh'
    BY <1>1, <1>2 DEF ComInv, InTurn, NoConflict, Fresh, Shm, Writing
  <1>5. LockCounts'
    <2>1. Writing' = Writing
      BY <1>1 DEF Writing
    <2>. QED  BY <2>1, <1>1, LocksKept DEF ComInv
  <1>6. ReadsLatestSent' /\ EmptyOnlyIfSeen'
    BY <1>1 DEF ReadsLatestSent, EmptyOnlyIfSeen, NoGuard, None
  <1>. QED  BY <1>3, <1>4, <1>5, <1>6 DEF ComInv

LEMMA StutterStep ==
  ASSUME ComInv, UNCHANGED vars
  PROVE  ComInv'
  <1>1. UNCHANGED <<backend, cycle, stepped, lock, queue, panicked, memory, out, sample, sent,
                    input, got, seen>>
    BY DEF vars, writerVars, readerVars
  <1>2. TypeOK' /\ InTurn' /\ NoConflict' /\ Fresh' /\ ReadsLatestSent' /\ EmptyOnlyIfSeen'
    BY <1>1 DEF ComInv, TypeOK, InTurn, NoConflict, Fresh, ReadsLatestSent, EmptyOnlyIfSeen,
                Writing, Shm
  <1>3. LockCounts'
    BY <1>1, LocksKept DEF ComInv, Writing
  <1>. QED  BY <1>2, <1>3 DEF ComInv

-----------------------------------------------------------------------------
(***************************************************************************)
(* The invariant of a topic in a task chain: the phase of the cycle an     *)
(* activity steps in decides who may hold a guard, the lock of a process   *)
(* (linux_shm/shared_memory.rs) counts exactly those guards, and the       *)
(* segment or the queues hold what was sent last.                          *)
(***************************************************************************)
THEOREM TopicInvariant == Spec => []ComInv
  <1>1. Init => ComInv
    BY InitInvariant
  <1>2. ComInv /\ [Next]_vars => ComInv'
    <2>. SUFFICES ASSUME ComInv, [Next]_vars PROVE ComInv'
      OBVIOUS
    <2>1. CASE WriteUninit \/ WriteInit
      BY <2>1, BeginStep
    <2>2. CASE WritePayload \/ InitDefault \/ Modify
      BY <2>2, StoreStep
    <2>3. CASE Send
      BY <2>3, SendStep
    <2>4. CASE DropOutput
      BY <2>4, DropOutputStep
    <2>5. CASE NextCycle
      BY <2>5, NextCycleStep
    <2>6. ASSUME NEW r \in Readers, ReadShm(r) \/ ReadNothing(r) \/ ReadSample(r) \/ DropInput(r)
          PROVE  ComInv'
      BY <2>6, ReadShmStep, ReadNothingStep, ReadSampleStep, DropInputStep
    <2>7. ASSUME NEW a \in Acts, StepEnds(a)
          PROVE  ComInv'
      BY <2>7, StepEndsStep
    <2>8. CASE UNCHANGED vars
      BY <2>8, StutterStep
    <2>. QED  BY <2>1, <2>2, <2>3, <2>4, <2>5, <2>6, <2>7, <2>8 DEF Next
  <1>. QED  BY <1>1, <1>2, PTL DEF Spec

(***************************************************************************)
(* Whatever the backend and however many cycles a reader has skipped, it   *)
(* reads the payload that was sent last.                                   *)
(***************************************************************************)
THEOREM LatestIsRead == Spec => []ReadsLatestSent
  <1>1. ComInv => ReadsLatestSent
    BY DEF ComInv
  <1>. QED  BY <1>1, TopicInvariant, PTL

(***************************************************************************)
(* The error of Iox2, and the panic of MwCom, for want of a sample mean    *)
(* that the reader has received everything that was sent.                  *)
(***************************************************************************)
THEOREM EmptyMeansSeen == Spec => []EmptyOnlyIfSeen
  <1>1. ComInv => EmptyOnlyIfSeen
    BY DEF ComInv
  <1>. QED  BY <1>1, TopicInvariant, PTL

(***************************************************************************)
(* In a task chain with one writer no activity ever meets the lock of      *)
(* another one, for any placement of the activities in processes, and no   *)
(* lock is left behind except by a writer that dropped its guard unsent.   *)
(***************************************************************************)
THEOREM NobodyMeetsALock == Spec => []NoAccessConflict
  <1>1. ComInv => NoAccessConflict
    <2>. SUFFICES ASSUME ComInv PROVE NoAccessConflict
      OBVIOUS
    <2>1. TypeOK /\ \A a \in Acts : panicked[a] # "conflict"
      BY DEF ComInv, NoConflict
    <2>2. ASSUME NEW p \in Processes, lock[p] # 0
          PROVE  \/ p = ProcessOf[Writer] /\ Writing
                 \/ \E r \in Readers : ProcessOf[r] = p /\ input[r] # NoGuard
      <3>1. CASE Shm /\ Writing /\ p = ProcessOf[Writer]
        BY <3>1
      <3>2. CASE ~(Shm /\ Writing /\ p = ProcessOf[Writer])
        <4>1. Cardinality(Holders(p)) # 0
          BY <2>2, <3>2 DEF ComInv, LockCounts
        <4>2. Holders(p) # {}
          BY <4>1, FS_EmptySet
        <4>. QED  BY <4>2 DEF Holders
      <3>. QED  BY <3>1, <3>2
    <2>. QED  BY <2>1, <2>2 DEF NoAccessConflict, Writing
  <1>. QED  BY <1>1, TopicInvariant, PTL
=============================================================================
