------------------------------- MODULE ComTopic -------------------------------
(***************************************************************************)
(* One topic of feo-com as activities use it: the ActivityOutput of its    *)
(* writer and the ActivityInputs of its readers (feo-com/src/interface.rs) *)
(* on each backend.  LinuxShm writes straight into the shared segment and  *)
(* guards it with a lock of each process's own; Iox2 and MwCom loan a      *)
(* sample and deliver it to the readers when it is sent.  Activities step  *)
(* in the order of a task chain, once per cycle, and may well use the      *)
(* topic in some cycles only.                                              *)
(*                                                                         *)
(* A payload is the number of the cycle it was written in, or 0 for the    *)
(* type's default value.                                                   *)
(***************************************************************************)
EXTENDS Integers, Sequences, FiniteSets

CONSTANTS
  Backends,    \* subset of {"LinuxShm", "Iox2", "MwCom"}
  Writer,
  Readers,
  Before,      \* the readers that step before the writer; the others after
  ProcessOf,   \* activity -> process
  MaxCycles    \* bound on the cycles

Acts == Readers \cup {Writer}
Processes == {ProcessOf[a] : a \in Acts}

ASSUME ComAssumption ==
  /\ Backends \subseteq {"LinuxShm", "Iox2", "MwCom"}
  /\ Writer \notin Readers /\ Before \subseteq Readers /\ IsFiniteSet(Readers)
  /\ DOMAIN ProcessOf = Acts
  /\ MaxCycles \in Nat \ {0}

VARIABLES
  backend,    \* ComBackend
  cycle,
  stepped,    \* activities whose step in this cycle has ended
  memory,     \* LinuxShm: the shared segment
  lock,       \* LinuxShm: process -> lock_state (-1: locked for writing)
  queue,      \* Iox2, MwCom: reader -> samples delivered and not received
  out,        \* the writer's guard: "none", "uninit" or "init"
  sample,     \* Iox2, MwCom: payload of the loaned sample
  input,      \* reader -> the payload its guard gives access to, or NoGuard
  got,        \* reader -> what it read in this cycle, None or NoGuard
  panicked,   \* activity -> why its worker panicked, or "-"
  sent,       \* the payload that was sent last
  seen        \* reader -> the payload it received last

writerVars == <<memory, out, sample, sent>>
readerVars == <<input, got, seen>>
vars == <<backend, cycle, stepped, lock, queue, panicked, writerVars, readerVars>>

NoGuard == -1
None    == -2    \* Err(NoEmptyBuffer)
Garbage == -3    \* an uninitialised buffer

Init ==
  /\ backend \in Backends
  /\ cycle = 1 /\ stepped = {}
  /\ memory = 0
  /\ lock = [p \in Processes |-> 0]
  /\ queue = [r \in Readers |-> << >>]
  /\ out = "none" /\ sample = Garbage
  /\ input = [r \in Readers |-> NoGuard]
  /\ got = [r \in Readers |-> NoGuard]
  /\ panicked = [a \in Acts |-> "-"]
  /\ sent = 0 /\ seen = [r \in Readers |-> 0]

Shm == backend = "LinuxShm"

(* Mutant: dependencies are ignored.                                       *)
AnyOrder(a) == a \notin stepped /\ panicked[a] = "-"

(* The scheduler lets an activity step after those it depends on.          *)
MayStep(a) ==
  /\ a \notin stepped /\ panicked[a] = "-"
  /\ IF a = Writer THEN Before \subseteq stepped
     ELSE a \in Before \/ Writer \in stepped

Panic(a, why) == panicked' = [panicked EXCEPT ![a] = why]
EndStep(a) == stepped' = stepped \cup {a}

-----------------------------------------------------------------------------
(***************************************************************************)
(* The writer: ActivityOutput, ActivityOutputDefault, OutputUninitGuard    *)
(* and OutputGuard.                                                        *)
(***************************************************************************)
(* Where a guard of the writer writes to.                                  *)
Store(v) ==
  IF Shm THEN memory' = v /\ UNCHANGED sample ELSE sample' = v /\ UNCHANGED memory

LockWrite ==
  lock' = IF Shm THEN [lock EXCEPT ![ProcessOf[Writer]] = -1] ELSE lock
Conflict == Shm /\ lock[ProcessOf[Writer]] # 0

WriteUninit ==
  /\ MayStep(Writer) /\ out = "none"
  /\ IF Conflict THEN Panic(Writer, "conflict") /\ UNCHANGED <<lock, out, sample>>
     ELSE LockWrite /\ out' = "uninit" /\ sample' = Garbage /\ UNCHANGED panicked
  /\ UNCHANGED <<backend, cycle, stepped, queue, memory, sent, readerVars>>

(* write_init overwrites with the default.                                 *)
WriteInit ==
  /\ MayStep(Writer) /\ out = "none"
  /\ IF Conflict THEN Panic(Writer, "conflict") /\ UNCHANGED <<lock, out, sample, memory>>
     ELSE LockWrite /\ out' = "init" /\ Store(0) /\ UNCHANGED panicked
  /\ UNCHANGED <<backend, cycle, stepped, queue, sent, readerVars>>

(* write_payload; assume_init once the caller has written the buffer.      *)
WritePayload ==
  /\ out = "uninit" /\ panicked[Writer] = "-"
  /\ out' = "init" /\ Store(cycle)
  /\ UNCHANGED <<backend, cycle, stepped, lock, queue, panicked, sent, readerVars>>

(* OutputUninitGuard::init.                                                *)
InitDefault ==
  /\ out = "uninit" /\ panicked[Writer] = "-"
  /\ out' = "init" /\ Store(0)
  /\ UNCHANGED <<backend, cycle, stepped, lock, queue, panicked, sent, readerVars>>

(* DerefMut of OutputGuard.                                                *)
Modify ==
  /\ out = "init" /\ panicked[Writer] = "-"
  /\ Store(cycle)
  /\ UNCHANGED <<backend, cycle, stepped, lock, queue, panicked, out, sent, readerVars>>

(* subscriber_max_buffer_size(1), enable_safe_overflow(true).              *)
Deliver(r, v) == <<v>>

Send ==
  /\ out = "init" /\ panicked[Writer] = "-"
  /\ IF Shm
     THEN /\ lock' = [lock EXCEPT ![ProcessOf[Writer]] = 0]
          /\ sent' = memory /\ UNCHANGED queue
     ELSE /\ queue' = [r \in Readers |-> Deliver(r, sample)]
          /\ sent' = sample /\ UNCHANGED lock
  /\ out' = "none" /\ EndStep(Writer)
  /\ UNCHANGED <<backend, cycle, memory, sample, panicked, readerVars>>

(* Mutant: a guard may be dropped without being sent on every backend.     *)
DropQuietly ==
  /\ out # "none" /\ panicked[Writer] = "-"
  /\ out' = "none" /\ lock' = [lock EXCEPT ![ProcessOf[Writer]] = 0]
  /\ EndStep(Writer)
  /\ UNCHANGED <<backend, cycle, queue, panicked, memory, sample, sent, readerVars>>

(* A guard that is dropped without send: LinuxShm panics and stays locked, *)
(* the others give the sample back.                                        *)
DropOutput ==
  /\ out # "none" /\ panicked[Writer] = "-"
  /\ out' = "none"
  /\ IF Shm THEN Panic(Writer, "unsent") /\ UNCHANGED stepped
            ELSE EndStep(Writer) /\ UNCHANGED panicked
  /\ UNCHANGED <<backend, cycle, lock, queue, memory, sample, sent, readerVars>>

-----------------------------------------------------------------------------
(***************************************************************************)
(* A reader: ActivityInput and InputGuard.                                 *)
(***************************************************************************)
(* Only one step in a cycle reads, and it reads once.                      *)
MayRead(r) == MayStep(r) /\ input[r] = NoGuard /\ got[r] = NoGuard

ReadShm(r) ==
  /\ Shm /\ MayRead(r)
  /\ IF lock[ProcessOf[r]] < 0
     THEN Panic(r, "conflict") /\ UNCHANGED <<lock, input>>
     ELSE /\ lock' = [lock EXCEPT ![ProcessOf[r]] = @ + 1]
          /\ input' = [input EXCEPT ![r] = memory]
          /\ UNCHANGED panicked
  /\ UNCHANGED <<backend, cycle, stepped, queue, got, seen, writerVars>>

(* Without a new sample Iox2 returns an error; MwCom panics.               *)
ReadNothing(r) ==
  /\ ~Shm /\ MayRead(r) /\ queue[r] = << >>
  /\ got' = [got EXCEPT ![r] = None]
  /\ IF backend = "MwCom" THEN Panic(r, "nosample") ELSE UNCHANGED panicked
  /\ UNCHANGED <<backend, cycle, stepped, lock, queue, input, seen, writerVars>>

(* Mutant: the subscribers share one buffer.                               *)
ReadShared(r) ==
  /\ ~Shm /\ MayRead(r) /\ queue[r] # << >>
  /\ input' = [input EXCEPT ![r] = Head(queue[r])]
  /\ queue' = [q \in Readers |-> << >>]
  /\ UNCHANGED <<backend, cycle, stepped, lock, got, panicked, seen, writerVars>>

ReadSample(r) ==
  /\ ~Shm /\ MayRead(r) /\ queue[r] # << >>
  /\ input' = [input EXCEPT ![r] = Head(queue[r])]
  /\ queue' = [queue EXCEPT ![r] = Tail(@)]
  /\ UNCHANGED <<backend, cycle, stepped, lock, got, panicked, seen, writerVars>>

(* Deref: LinuxShm looks into the segment.                                 *)
Payload(r) == IF Shm THEN memory ELSE input[r]

(* The reader uses its guard and drops it.                                 *)
DropInput(r) ==
  /\ input[r] # NoGuard
  /\ got' = [got EXCEPT ![r] = Payload(r)]
  /\ seen' = [seen EXCEPT ![r] = Payload(r)]
  /\ input' = [input EXCEPT ![r] = NoGuard]
  /\ lock' = IF Shm THEN [lock EXCEPT ![ProcessOf[r]] = @ - 1] ELSE lock
  /\ UNCHANGED <<backend, cycle, stepped, queue, panicked, writerVars>>

-----------------------------------------------------------------------------
(* A step ends, whether or not the activity has used the topic in it.      *)
StepEnds(a) ==
  /\ MayStep(a)
  /\ IF a = Writer THEN out = "none" ELSE input[a] = NoGuard
  /\ EndStep(a)
  /\ UNCHANGED <<backend, cycle, lock, queue, panicked, writerVars, readerVars>>

NextCycle ==
  /\ stepped = Acts /\ cycle < MaxCycles
  /\ cycle' = cycle + 1 /\ stepped' = {}
  /\ got' = [r \in Readers |-> NoGuard]
  /\ UNCHANGED <<backend, lock, queue, panicked, input, seen, writerVars>>

Next ==
  \/ WriteUninit \/ WriteInit \/ WritePayload \/ InitDefault \/ Modify
  \/ Send \/ DropOutput \/ NextCycle
  \/ \E r \in Readers : ReadShm(r) \/ ReadNothing(r) \/ ReadSample(r) \/ DropInput(r)
  \/ \E a \in Acts : StepEnds(a)

Spec == Init /\ [][Next]_vars

-----------------------------------------------------------------------------
Payloads == 0..MaxCycles

TypeOK ==
  /\ backend \in Backends /\ cycle \in 1..MaxCycles /\ stepped \subseteq Acts
  /\ memory \in Payloads /\ sent \in Payloads
  /\ sample \in Payloads \cup {Garbage}
  /\ lock \in [Processes -> Int]
  /\ \A p \in Processes : lock[p] >= -1
  /\ queue \in [Readers -> Seq(Payloads)] /\ \A r \in Readers : Len(queue[r]) <= 1
  /\ out \in {"none", "uninit", "init"}
  /\ input \in [Readers -> Payloads \cup {NoGuard}]
  /\ got \in [Readers -> Payloads \cup {NoGuard, None}]
  /\ seen \in [Readers -> Payloads]
  /\ panicked \in [Acts -> {"-", "conflict", "unsent", "nosample"}]

(***************************************************************************)
(* Whatever the backend, what an activity reads in the task chain is the   *)
(* payload sent last: never an older one, however many cycles the reader   *)
(* has skipped, and never one that was written but not sent, although      *)
(* LinuxShm writes in place (linux_shm/mod.rs lets the writer panic then). *)
(***************************************************************************)
ReadsLatestSent ==
  \A r \in Readers \ stepped : got[r] >= 0 => got[r] = sent

(***************************************************************************)
(* A read comes back empty-handed (Iox2) or panics (MwCom) only if the     *)
(* reader has already received everything that was sent.                   *)
(***************************************************************************)
EmptyOnlyIfSeen ==
  \A r \in Readers \ stepped : got[r] = None => seen[r] = sent

(***************************************************************************)
(* The assumption linux_shm/mod.rs makes: in a task chain with one writer  *)
(* nobody ever meets the lock of another activity.  A lock that is still   *)
(* held is held by a guard, or by the unsent one of a panicked writer.     *)
(* Readers never see a buffer before it is initialised (TypeOK).           *)
(***************************************************************************)
NoAccessConflict ==
  /\ TypeOK
  /\ \A a \in Acts : panicked[a] # "conflict"
  /\ \A p \in Processes :
       lock[p] # 0 => \/ p = ProcessOf[Writer] /\ (out # "none" \/ panicked[Writer] = "unsent")
                      \/ \E r \in Readers : ProcessOf[r] = p /\ input[r] # NoGuard
=============================================================================
