------------------------------- MODULE FeoTime -------------------------------
(***************************************************************************)
(* The clocks of an agent: feo-time (feo-time/src/lib.rs), which lets time *)
(* run faster or slower from the moment speed() is called, and the startup *)
(* time all agents agree on (feo/src/timestamp.rs).  Each process has its  *)
(* own statics and its own monotonic clock, started when its host booted;  *)
(* the system clocks are synchronised, as timestamp.rs assumes, but may be *)
(* set.  Time is counted in ticks, and reading a clock and using what was  *)
(* read are steps of their own.                                            *)
(***************************************************************************)
EXTENDS Integers

CONSTANTS
  Processes, Primary,
  Threads,       \* the threads of all processes
  ProcessOf,     \* thread -> process
  BootTime,      \* process -> the time its monotonic clock started
  Setters,       \* threads that call speed(), at most one of a process
  Timed,         \* threads that read the scaled clocks
  Starters,      \* threads that initialise the startup time
  ThreadSets,    \* sets of threads; a behaviour is one of the threads of one set
  Factors,       \* arguments of speed()
  MAX_TRIES,
  Jumps,         \* by how much the system clock may be set, once
  MaxTime        \* bound on the time

ASSUME TimeAssumption ==
  /\ Primary \in Processes
  /\ ProcessOf \in [Threads -> Processes]
  /\ ThreadSets \subseteq SUBSET Threads
  /\ BootTime \in [Processes -> Int]
  /\ Setters \cup Timed \cup Starters \subseteq Threads
  /\ \A t, u \in Setters : ProcessOf[t] = ProcessOf[u] => t = u
  /\ Factors \subseteq Int \ {0}
  /\ MAX_TRIES \in Nat \ {0} /\ Jumps \subseteq Int /\ MaxTime \in Nat

VARIABLES
  alive,     \* the threads there are
  time,      \* real time
  jump,      \* by how much the system clock has been set
  START,     \* process -> the start timestamps, or Unset
  FACTOR,    \* process -> factor, 0 if speed() was not called
  STARTUP,   \* process -> STARTUP_TIME, or Unset
  sync,      \* the SyncInfo the primary has sent, or -1
  pc,        \* thread -> where it is
  read,      \* thread -> what it has read from the OS
  tries,     \* thread -> tries_remaining
  last,      \* thread -> the Instant it got last and the factor used
  panicked,  \* thread -> what it panicked in, or "-"
  early      \* threads whose last reading was taken before START was
             \* evaluated in their process (history)

statics == <<START, FACTOR, STARTUP, sync>>
locals  == <<pc, read, tries, last, panicked, early>>
vars == <<alive, time, jump, statics, locals>>

Unset == [sys |-> -99, mono |-> -99]

(* What the OS tells: std::time::Instant, std::time::SystemTime.           *)
Mono(p) == time - BootTime[p]
Sys == 10 + time + jump

Init ==
  /\ alive \in ThreadSets
  /\ time = 0 /\ jump = 0
  /\ START = [p \in Processes |-> Unset]
  /\ FACTOR = [p \in Processes |-> 0]
  /\ STARTUP = [p \in Processes |-> Unset]
  /\ sync = -1
  /\ pc = [t \in Threads |-> "idle"]
  /\ read = [t \in Threads |-> Unset]
  /\ tries = [t \in Threads |-> MAX_TRIES]
  /\ last = [t \in Threads |-> [value |-> -99, factor |-> 0]]
  /\ panicked = [t \in Threads |-> "-"] /\ early = {}

Tick ==
  /\ time < MaxTime /\ time' = time + 1
  /\ UNCHANGED <<jump, statics, locals>>

ClockSet ==
  /\ jump = 0 /\ jump' \in Jumps
  /\ UNCHANGED <<time, statics, locals>>

At(t, label) == pc[t] = label /\ panicked[t] = "-"
Goto(t, label) == pc' = [pc EXCEPT ![t] = label]

(* A call returns, and its local variables are gone.                       *)
Return(t) ==
  /\ Goto(t, "idle")
  /\ read' = [read EXCEPT ![t] = Unset] /\ tries' = [tries EXCEPT ![t] = MAX_TRIES]

Panic(t, what) == panicked' = [panicked EXCEPT ![t] = what]

-----------------------------------------------------------------------------
(***************************************************************************)
(* feo-time                                                                *)
(***************************************************************************)
(* Mutant: START is a plain static, and nothing stops a second speed().    *)
SpeedStartAgain(t) ==
  /\ At(t, "idle") /\ t \in Setters
  /\ START' = [START EXCEPT ![ProcessOf[t]] = [sys |-> Sys, mono |-> Mono(ProcessOf[t])]]
  /\ Goto(t, "speed")
  /\ UNCHANGED <<time, jump, FACTOR, STARTUP, sync, read, tries, last, panicked, early>>

(* speed: INIT is completed, START evaluated, then FACTOR stored.  One     *)
(* thread of a process calls it, and only once: a second call panics.      *)
SpeedStart(t) ==
  /\ At(t, "idle") /\ t \in Setters /\ START[ProcessOf[t]] = Unset
  /\ START' = [START EXCEPT ![ProcessOf[t]] = [sys |-> Sys, mono |-> Mono(ProcessOf[t])]]
  /\ Goto(t, "speed")
  /\ UNCHANGED <<time, jump, FACTOR, STARTUP, sync, read, tries, last, panicked, early>>

SpeedStore(t) ==
  /\ At(t, "speed")
  /\ \E f \in Factors : FACTOR' = [FACTOR EXCEPT ![ProcessOf[t]] = f]
  /\ Return(t)
  /\ UNCHANGED <<time, jump, START, STARTUP, sync, last, panicked, early>>

(* Mutant: the whole time is scaled, not the time elapsed.                 *)
FeoTimeWhole(start, now, f) ==
  IF f > 0 THEN now * f ELSE now \div (-f)

(* The "feo" time: the elapsed time is multiplied or divided.              *)
FeoTimeSince(start, now, f) ==
  IF f > 0 THEN start + (now - start) * f ELSE start + (now - start) \div (-f)

(* Both clocks ask the OS first ...                                        *)
ReadClock(t, clock) ==
  /\ At(t, "idle") /\ t \in Timed
  /\ read' = [read EXCEPT ![t] = [sys |-> Sys, mono |-> Mono(ProcessOf[t])]]
  /\ early' = IF START[ProcessOf[t]] = Unset THEN early \cup {t} ELSE early \ {t}
  /\ Goto(t, clock)
  /\ UNCHANGED <<time, jump, statics, tries, last, panicked>>

(* ... and load the factor then.  Instant::now: duration_since is zero if  *)
(* START is later.                                                         *)
InstantNow(t) ==
  /\ At(t, "instant")
  /\ LET p     == ProcessOf[t]
         start == START[p].mono
         now   == read[t].mono
         value == IF FACTOR[p] = 0 THEN now
                  ELSE IF now < start THEN start
                  ELSE FeoTimeSince(start, now, FACTOR[p])
     IN  last' = [last EXCEPT ![t] = [value |-> value, factor |-> FACTOR[p]]]
  /\ Return(t)
  /\ UNCHANGED <<time, jump, statics, panicked, early>>

EarlierThanStart(t) == read[t].sys < START[ProcessOf[t]].sys

(* SystemTime::now unwraps the time since START.                           *)
SystemTimeNow(t) ==
  /\ At(t, "systime")
  /\ IF FACTOR[ProcessOf[t]] # 0 /\ EarlierThanStart(t)
     THEN Panic(t, "systime") ELSE UNCHANGED panicked
  /\ Return(t)
  /\ UNCHANGED <<time, jump, statics, last, early>>

-----------------------------------------------------------------------------
(***************************************************************************)
(* timestamp.rs                                                            *)
(***************************************************************************)
(* initialize (primary) and initialize_from (secondary): ignored if        *)
(* another thread has already set the time.  time_info_now reads the       *)
(* monotonic clock ...                                                     *)
Initialize(t) ==
  /\ At(t, "idle") /\ t \in Starters /\ STARTUP[ProcessOf[t]] = Unset
  /\ ProcessOf[t] = Primary \/ sync >= 0
  /\ read' = [read EXCEPT ![t] = [sys |-> -99, mono |-> Mono(ProcessOf[t])]]
  /\ Goto(t, "info")
  /\ UNCHANGED <<time, jump, statics, tries, last, panicked, early>>

(* ... then the system clock ...                                           *)
TimeInfoSys(t) ==
  /\ At(t, "info")
  /\ read' = [read EXCEPT ![t].sys = Sys]
  /\ Goto(t, "check")
  /\ UNCHANGED <<time, jump, statics, tries, last, panicked, early>>

(* Mutant: the first reading is taken whatever it took.                    *)
WithinDelayAlways(t) == TRUE

WithinDelay(t) == Mono(ProcessOf[t]) = read[t].mono

(* ... and starts over if that took too long.                              *)
TimeInfoRetry(t) ==
  /\ At(t, "check") /\ ~WithinDelay(t)
  /\ tries' = [tries EXCEPT ![t] = @ - 1]
  /\ IF tries[t] = 1 THEN Panic(t, "tries") /\ UNCHANGED <<pc, read>>
     ELSE /\ read' = [read EXCEPT ![t] = [sys |-> -99, mono |-> Mono(ProcessOf[t])]]
          /\ Goto(t, "info") /\ UNCHANGED panicked
  /\ UNCHANGED <<time, jump, statics, last, early>>

(* OnceLock::set, whose second caller is ignored.                          *)
SetOnce(p, info) ==
  STARTUP' = IF STARTUP[p] = Unset THEN [STARTUP EXCEPT ![p] = info] ELSE STARTUP

InitializePrimary(t) ==
  /\ At(t, "check") /\ WithinDelay(t) /\ ProcessOf[t] = Primary
  /\ SetOnce(Primary, read[t])
  /\ Return(t)
  /\ UNCHANGED <<time, jump, START, FACTOR, sync, last, panicked, early>>

(* sync_info goes to the secondaries with StartupSync, after a while.      *)
SyncInfo ==
  /\ STARTUP[Primary] # Unset /\ sync < 0
  /\ sync' = STARTUP[Primary].sys
  /\ UNCHANGED <<time, jump, START, FACTOR, STARTUP, locals>>

(* The instant of the local clock at which the primary started; both       *)
(* subtractions may fail.                                                  *)
InitializeFrom(t) ==
  /\ At(t, "check") /\ WithinDelay(t) /\ ProcessOf[t] # Primary
  /\ LET elapsed == read[t].sys - sync
     IN  IF elapsed < 0 \/ elapsed > read[t].mono
         THEN Panic(t, "sync") /\ UNCHANGED STARTUP
         ELSE /\ SetOnce(ProcessOf[t], [sys |-> sync, mono |-> read[t].mono - elapsed])
              /\ UNCHANGED panicked
  /\ Return(t)
  /\ UNCHANGED <<time, jump, START, FACTOR, sync, last, early>>

Thread(t) ==
  /\ time >= BootTime[ProcessOf[t]]
  /\ \/ SpeedStart(t) \/ SpeedStore(t)
     \/ ReadClock(t, "instant") \/ InstantNow(t)
     \/ ReadClock(t, "systime") \/ SystemTimeNow(t)
     \/ Initialize(t) \/ TimeInfoSys(t) \/ TimeInfoRetry(t)
     \/ InitializePrimary(t) \/ InitializeFrom(t)

Next ==
  /\ Tick \/ ClockSet \/ SyncInfo \/ \E t \in alive : Thread(t)
  /\ UNCHANGED alive

Spec == Init /\ [][Next]_vars

-----------------------------------------------------------------------------
TypeOK ==
  /\ alive \in ThreadSets
  /\ time \in 0..MaxTime /\ jump \in Jumps \cup {0}
  /\ FACTOR \in [Processes -> Factors \cup {0}]
  /\ \A p \in Processes : FACTOR[p] # 0 => START[p] # Unset
  /\ pc \in [Threads -> {"idle", "speed", "instant", "systime", "info", "check"}]
  /\ tries \in [Threads -> 0..MAX_TRIES]
  /\ panicked \in [Threads -> {"-", "systime", "tries", "sync"}]
  /\ early \subseteq Threads

(***************************************************************************)
(* The Instants a thread sees never go back, although speed() takes effect *)
(* in the middle of its readings; the one exception is a reading between   *)
(* the evaluation of START and the store of a factor that slows down.      *)
(***************************************************************************)
InstantsNeverGoBack ==
  [][\A t \in Threads : last'[t].value < last[t].value =>
       /\ last[t].factor = 0 /\ last'[t].factor < 0
       /\ last[t].value > START[ProcessOf[t]].mono]_vars

(***************************************************************************)
(* SystemTime::now panics only if the system clock was set back, or if the *)
(* thread took its reading before another one evaluated START in speed()   *)
(* and looked at the factor afterwards.  One that reads after START, or    *)
(* calls speed() itself, is safe.                                          *)
(***************************************************************************)
SystemTimePanics ==
  \A t \in Threads : panicked[t] = "systime" => jump < 0 \/ t \in early \ Setters

(***************************************************************************)
(* All processes that have initialised their startup time agree on the     *)
(* moment, however long StartupSync took, whenever their monotonic clocks  *)
(* were started and whichever thread came first, unless the system clock   *)
(* was set in between; a secondary fails to only if its clock started      *)
(* after the primary's startup.  No factor is set before START (TypeOK).   *)
(***************************************************************************)
StartupAgreed ==
  /\ TypeOK
  /\ jump = 0 =>
       /\ \A p, q \in Processes : STARTUP[p] # Unset /\ STARTUP[q] # Unset =>
            STARTUP[p].mono + BootTime[p] = STARTUP[q].mono + BootTime[q]
       /\ \A t \in Threads : panicked[t] = "sync" =>
            BootTime[ProcessOf[t]] > STARTUP[Primary].mono + BootTime[Primary]
=============================================================================
