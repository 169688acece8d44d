----------------------------- MODULE FeoTimeProofs -----------------------------
(***************************************************************************)
(* The clocks of the agents for any number of processes and threads, any   *)
(* factors and any times at which the hosts were booted.                   *)
(***************************************************************************)
EXTENDS FeoTime, TLAPS

-----------------------------------------------------------------------------
(* The inductive invariant.                                                *)
Stamps == [sys : Int, mono : Int]

Types ==
  /\ TypeOK
  /\ START \in [Processes -> Stamps] /\ STARTUP \in [Processes -> Stamps]
  /\ read \in [Threads -> Stamps]
  /\ last \in [Threads -> [value : Int, factor : Int]]
  /\ sync \in Int
  /\ \A t \in Threads : panicked[t] = "-" => tries[t] >= 1

(* A process gets its factor once, from the thread that evaluated START.   *)
OneSpeed ==
  \A t \in Threads : pc[t] = "speed" =>
    t \in Setters /\ START[ProcessOf[t]] # Unset /\ FACTOR[ProcessOf[t]] = 0

(* What Instant::now makes of a reading once there is a factor.            *)
Scaled(p, now) ==
  IF now < START[p].mono THEN START[p].mono ELSE FeoTimeSince(START[p].mono, now, FACTOR[p])

(* An Instant made of a reading from n on is no earlier than the last one. *)
SeenBefore(t, n) ==
  IF last[t].factor = 0 THEN last[t].value < 0 \/ last[t].value <= n
  ELSE last[t].factor = FACTOR[ProcessOf[t]] /\ last[t].value <= Scaled(ProcessOf[t], n)

InstantInv ==
  \A t \in Threads :
    /\ SeenBefore(t, Mono(ProcessOf[t]))
    /\ pc[t] = "instant" => /\ read[t].mono >= 0 /\ read[t].mono <= Mono(ProcessOf[t])
                            /\ SeenBefore(t, read[t].mono)

(* While the system clock has not been set back START is in the past, also *)
(* for the readings in hand, but for those older than START.               *)
StartPassed ==
  jump >= 0 =>
    /\ \A p \in Processes : START[p] # Unset => START[p].sys <= Sys
    /\ \A t \in Threads \ early : pc[t] = "systime" => START[ProcessOf[t]] # Unset
    /\ \A t \in Threads : /\ pc[t] = "systime" /\ START[ProcessOf[t]] # Unset
                          /\ t \notin early \ Setters
                          => START[ProcessOf[t]].sys <= read[t].sys

(* The system time at which a process takes the primary to have started is *)
(* the one its own monotonic clock says, as long as the clock was not set. *)
StartupInv ==
  jump = 0 =>
    /\ \A t \in Threads :
         /\ pc[t] \in {"info", "check"} =>
              read[t].mono <= Mono(ProcessOf[t]) /\ (ProcessOf[t] = Primary \/ sync >= 0)
         /\ pc[t] = "check" =>
              read[t].mono + BootTime[ProcessOf[t]] <= read[t].sys - 10 /\ read[t].sys <= Sys
    /\ \A p \in Processes : STARTUP[p] # Unset =>
         /\ STARTUP[p].sys = 10 + STARTUP[p].mono + BootTime[p]
         /\ p = Primary => STARTUP[p].sys <= Sys
         /\ p # Primary => sync >= 0 /\ STARTUP[p].sys = sync
    /\ sync >= 0 => STARTUP[Primary] # Unset /\ sync = STARTUP[Primary].sys
    /\ \A t \in Threads : panicked[t] = "sync" =>
         sync >= 0 /\ BootTime[ProcessOf[t]] > sync - 10

TimeInv ==
  Types /\ OneSpeed /\ InstantInv /\ StartPassed /\ SystemTimePanics /\ StartupInv

-----------------------------------------------------------------------------
(* Scaling.                                                                *)
LEMMA Multiplied ==
  ASSUME NEW a \in Nat, NEW b \in Nat, a <= b, NEW f \in Int, f > 0
  PROVE  a * f \in Nat /\ a * f <= b * f /\ a <= a * f
  OBVIOUS

LEMMA Divided ==
  ASSUME NEW a \in Nat, NEW b \in Nat, a <= b, NEW f \in Int, f < 0
  PROVE  a \div (-f) \in Nat /\ a \div (-f) <= b \div (-f)
  <1>. DEFINE k == -f
  <1>1. k \in Nat \ {0}
    OBVIOUS
  <1>. HIDE DEF k
  <1>2. a \div k \in Nat /\ a \div k <= b \div k
    BY <1>1
  <1>. QED  BY <1>2 DEF k

(* The scaled time since a start never runs backwards, is never before the *)
(* start, and with a positive factor never behind the clock.               *)
LEMMA FeoTimeMonotone ==
  ASSUME NEW start \in Int, NEW m \in Int, NEW n \in Int, start <= m, m <= n,
         NEW f \in Int \ {0}
  PROVE  /\ FeoTimeSince(start, m, f) \in Int /\ start <= FeoTimeSince(start, m, f)
         /\ FeoTimeSince(start, m, f) <= FeoTimeSince(start, n, f)
         /\ f > 0 => m <= FeoTimeSince(start, m, f)
  <1>. DEFINE a == m - start
              b == n - start
  <1>1. a \in Nat /\ b \in Nat /\ a <= b
    OBVIOUS
  <1>2. CASE f > 0
    <2>1. a * f \in Nat /\ a * f <= b * f /\ a <= a * f /\ b * f \in Nat
      BY <1>1, <1>2, Multiplied
    <2>2. FeoTimeSince(start, m, f) = start + a * f /\ FeoTimeSince(start, n, f) = start + b * f
      BY <1>2 DEF FeoTimeSince
    <2>3. m = start + a
      OBVIOUS
    <2>. HIDE DEF a, b
    <2>. QED  BY <1>1, <2>1, <2>2, <2>3
  <1>3. CASE f < 0
    <2>1. a \div (-f) \in Nat /\ a \div (-f) <= b \div (-f) /\ b \div (-f) \in Nat
      BY <1>1, <1>3, Divided
    <2>2. /\ FeoTimeSince(start, m, f) = start + a \div (-f)
          /\ FeoTimeSince(start, n, f) = start + b \div (-f)
      BY <1>3 DEF FeoTimeSince
    <2>. HIDE DEF a, b
    <2>. QED  BY <1>3, <2>1, <2>2
  <1>. QED  BY <1>2, <1>3

LEMMA Constants ==
  /\ Primary \in Processes
  /\ \A t \in Threads : ProcessOf[t] \in Processes /\ BootTime[ProcessOf[t]] \in Int
  /\ \A p \in Processes : BootTime[p] \in Int
  /\ Unset \in Stamps /\ Unset.mono = -99
  BY TimeAssumption DEF Unset, Stamps

LEMMA Readings ==
  ASSUME Types
  PROVE  /\ time \in Int /\ jump \in Int /\ Sys \in Int
         /\ \A p \in Processes : /\ FACTOR[p] \in Int /\ Mono(p) \in Int /\ START[p].mono \in Int
                                 /\ START[p].sys \in Int /\ STARTUP[p] \in Stamps
                                 /\ STARTUP[p].sys \in Int /\ STARTUP[p].mono \in Int
         /\ \A t \in Threads : /\ read[t] \in Stamps /\ read[t].mono \in Int /\ read[t].sys \in Int
                               /\ last[t].value \in Int /\ last[t].factor \in Int
  <1>1. time \in Int /\ jump \in Int /\ Sys \in Int
    BY TimeAssumption DEF Types, TypeOK, Sys
  <1>2. ASSUME NEW p \in Processes
        PROVE  /\ FACTOR[p] \in Int /\ Mono(p) \in Int /\ START[p] \in Stamps
               /\ STARTUP[p] \in Stamps
    <2>1. FACTOR[p] \in Factors \cup {0} /\ Factors \subseteq Int
      BY TimeAssumption DEF Types, TypeOK
    <2>2. START[p] \in Stamps /\ STARTUP[p] \in Stamps
      BY DEF Types
    <2>3. Mono(p) \in Int
      BY <1>1, Constants DEF Mono
    <2>4. FACTOR[p] \in Int
      <3>1. CASE FACTOR[p] = 0
        BY <3>1
      <3>2. CASE FACTOR[p] \in Factors
        BY <3>2, <2>1
      <3>. QED  BY <2>1, <3>1, <3>2
    <2>. QED  BY <2>2, <2>3, <2>4
  <1>3. ASSUME NEW t \in Threads
        PROVE  read[t] \in Stamps /\ last[t] \in [value : Int, factor : Int]
    BY DEF Types
  <1>. QED  BY <1>1, <1>2, <1>3 DEF Stamps

LEMMA ScaledMonotone ==
  ASSUME Types, NEW p \in Processes, FACTOR[p] # 0, NEW m \in Int, NEW n \in Int, m <= n
  PROVE  /\ Scaled(p, m) \in Int /\ START[p].mono <= Scaled(p, m)
         /\ Scaled(p, m) <= Scaled(p, n)
         /\ FACTOR[p] > 0 => m <= Scaled(p, m)
  <1>. DEFINE start == START[p].mono
              f == FACTOR[p]
  <1>1. start \in Int /\ f \in Int \ {0}
    BY Readings
  <1>2. /\ Scaled(p, m) = IF m < start THEN start ELSE FeoTimeSince(start, m, f)
        /\ Scaled(p, n) = IF n < start THEN start ELSE FeoTimeSince(start, n, f)
    BY DEF Scaled
  <1>. HIDE DEF start, f
  <1>3. CASE start <= m
    <2>1. /\ FeoTimeSince(start, m, f) \in Int /\ start <= FeoTimeSince(start, m, f)
          /\ FeoTimeSince(start, m, f) <= FeoTimeSince(start, n, f)
          /\ f > 0 => m <= FeoTimeSince(start, m, f)
      BY <1>1, <1>3, FeoTimeMonotone
    <2>. QED  BY <1>1, <1>2, <1>3, <2>1 DEF start, f
  <1>4. CASE m < start /\ start <= n
    <2>1. start <= FeoTimeSince(start, n, f)
      BY <1>1, <1>4, FeoTimeMonotone
    <2>. QED  BY <1>1, <1>2, <1>4, <2>1 DEF start, f
  <1>5. CASE n < start
    BY <1>1, <1>2, <1>5 DEF start, f
  <1>. QED  BY <1>1, <1>3, <1>4, <1>5

LEMMA SeenUpward ==
  ASSUME Types, NEW t \in Threads, NEW m \in Int, NEW n \in Int, m <= n, SeenBefore(t, m)
  PROVE  SeenBefore(t, n)
  <1>1. CASE last[t].factor = 0
    BY <1>1, Readings DEF SeenBefore
  <1>2. CASE last[t].factor # 0
    <2>1. /\ last[t].factor = FACTOR[ProcessOf[t]] /\ last[t].value <= Scaled(ProcessOf[t], m)
          /\ FACTOR[ProcessOf[t]] # 0
      BY <1>2 DEF SeenBefore
    <2>2. Scaled(ProcessOf[t], m) <= Scaled(ProcessOf[t], n) /\ Scaled(ProcessOf[t], m) \in Int
          /\ Scaled(ProcessOf[t], n) \in Int
      BY <2>1, Constants, ScaledMonotone
    <2>. QED  BY <1>2, <2>1, <2>2, Readings DEF SeenBefore
  <1>. QED  BY <1>1, <1>2

-----------------------------------------------------------------------------
LEMMA InitInvariant == Init => TimeInv
  <1>. SUFFICES ASSUME Init PROVE TimeInv
    OBVIOUS
  <1>. USE Constants
  <1>1. TypeOK
    BY TimeAssumption DEF Init, TypeOK
  <1>2. Types
    <2>1. sync \in Int /\ START \in [Processes -> Stamps] /\ STARTUP \in [Processes -> Stamps]
          /\ read \in [Threads -> Stamps]
      BY DEF Init
    <2>2. last \in [Threads -> [value : Int, factor : Int]]
      BY DEF Init
    <2>3. \A t \in Threads : tries[t] >= 1
      BY TimeAssumption DEF Init
    <2>. QED  BY <1>1, <2>1, <2>2, <2>3 DEF Types
  <1>3. OneSpeed /\ SystemTimePanics
    BY DEF Init, OneSpeed, SystemTimePanics
  <1>4. InstantInv
    BY DEF Init, InstantInv, SeenBefore
  <1>5. StartPassed
    BY TimeAssumption DEF Init, StartPassed
  <1>6. StartupInv
    BY DEF Init, StartupInv
  <1>. QED  BY <1>2, <1>3, <1>4, <1>5, <1>6 DEF TimeInv

(* A thread leaves the time, the clock and the other threads alone.        *)
LEMMA OthersApart ==
  ASSUME Types, NEW t \in Threads, Thread(t), NEW u \in Threads, u # t
  PROVE  /\ pc'[u] = pc[u] /\ read'[u] = read[u] /\ last'[u] = last[u] /\ panicked'[u] = panicked[u]
         /\ tries'[u] = tries[u] /\ (u \in early' <=> u \in early)
  <1>. USE DEF Types, TypeOK, Goto, Return, Panic
  <1>1. CASE SpeedStart(t) \/ SpeedStore(t)
    BY <1>1 DEF SpeedStart, SpeedStore
  <1>2. CASE ReadClock(t, "instant") \/ ReadClock(t, "systime")
    BY <1>2 DEF ReadClock
  <1>3. CASE InstantNow(t)
    BY <1>3 DEF InstantNow
  <1>4. CASE SystemTimeNow(t)
    BY <1>4 DEF SystemTimeNow
  <1>5. CASE Initialize(t) \/ TimeInfoSys(t)
    BY <1>5 DEF Initialize, TimeInfoSys
  <1>6. CASE TimeInfoRetry(t)
    BY <1>6 DEF TimeInfoRetry
  <1>7. CASE InitializePrimary(t)
    BY <1>7 DEF InitializePrimary
  <1>8. CASE InitializeFrom(t)
    BY <1>8 DEF InitializeFrom
  <1>. QED  BY <1>1, <1>2, <1>3, <1>4, <1>5, <1>6, <1>7, <1>8 DEF Thread

LEMMA ThreadTime ==
  ASSUME NEW t \in Threads, Thread(t)
  PROVE  time' = time /\ jump' = jump /\ time >= BootTime[ProcessOf[t]] /\ At(t, pc[t])
  BY DEF Thread, SpeedStart, SpeedStore, ReadClock, InstantNow, SystemTimeNow, Initialize,
         TimeInfoSys, TimeInfoRetry, InitializePrimary, InitializeFrom, At

-----------------------------------------------------------------------------
(* Types.                                                                  *)
LEMMA StampNow ==
  ASSUME Types, NEW t \in Threads, time >= BootTime[ProcessOf[t]]
  PROVE  /\ [sys |-> Sys, mono |-> Mono(ProcessOf[t])] \in Stamps \ {Unset}
         /\ [sys |-> -99, mono |-> Mono(ProcessOf[t])] \in Stamps
         /\ Mono(ProcessOf[t]) >= 0
  <1>1. Sys \in Int /\ Mono(ProcessOf[t]) \in Int /\ Mono(ProcessOf[t]) >= 0
    BY Readings, Constants DEF Mono
  <1>2. [sys |-> Sys, mono |-> Mono(ProcessOf[t])] # Unset
    BY <1>1 DEF Unset
  <1>. QED  BY <1>1, <1>2 DEF Stamps

LEMMA ReturnTypes ==
  ASSUME Types, NEW t \in Threads, Return(t)
  PROVE  /\ pc' \in [Threads -> {"idle", "speed", "instant", "systime", "info", "check"}]
         /\ tries' \in [Threads -> 0..MAX_TRIES]
         /\ read' \in [Threads -> Stamps]
         /\ \A u \in Threads : tries[u] >= 1 => tries'[u] >= 1
         /\ tries'[t] >= 1
  BY TimeAssumption, Constants DEF Types, TypeOK, Return, Goto

LEMMA TypesStep ==
  ASSUME Types, OneSpeed, Next
  PROVE  Types'
  <1>. USE Constants
  <1>1. alive \subseteq Threads /\ alive' = alive
    BY TimeAssumption DEF Types, TypeOK, Next
  <1>2. CASE Tick \/ ClockSet \/ SyncInfo
    <2>1. /\ time' \in 0..MaxTime /\ jump' \in Jumps \cup {0} /\ sync' \in Int
      BY <1>2, TimeAssumption, Readings DEF Types, TypeOK, Tick, ClockSet, SyncInfo, statics
    <2>2. UNCHANGED <<START, FACTOR, STARTUP, pc, read, tries, last, panicked, early>>
      BY <1>2 DEF Tick, ClockSet, SyncInfo, statics, locals
    <2>. QED  BY <2>1, <2>2, <1>1 DEF Types, TypeOK
  <1>3. ASSUME NEW t \in alive, Thread(t)
        PROVE  Types'
    <2>. DEFINE p == ProcessOf[t]
    <2>1. t \in Threads /\ p \in Processes
      BY <1>1
    <2>2. time' = time /\ jump' = jump /\ time >= BootTime[p]
      BY <1>3, <2>1, ThreadTime
    <2>3. /\ [sys |-> Sys, mono |-> Mono(p)] \in Stamps \ {Unset}
          /\ [sys |-> -99, mono |-> Mono(p)] \in Stamps
      BY <2>1, <2>2, StampNow
    <2>4. CASE SpeedStart(t)
      <3>1. /\ START' = [START EXCEPT ![p] = [sys |-> Sys, mono |-> Mono(p)]]
            /\ pc' = [pc EXCEPT ![t] = "speed"]
            /\ UNCHANGED <<time, jump, FACTOR, STARTUP, sync, read, tries, last, panicked, early>>
        BY <2>4 DEF SpeedStart, Goto
      <3>2. START' \in [Processes -> Stamps] /\ \A q \in Processes : FACTOR'[q] # 0 => START'[q] # Unset
        BY <3>1, <2>1, <2>3 DEF Types, TypeOK
      <3>3. pc' \in [Threads -> {"idle", "speed", "instant", "systime", "info", "check"}]
        BY <3>1, <2>1 DEF Types, TypeOK
      <3>. QED  BY <3>1, <3>2, <3>3, <1>1 DEF Types, TypeOK
    <2>5. CASE SpeedStore(t)
      <3>1. /\ \E f \in Factors : FACTOR' = [FACTOR EXCEPT ![p] = f]
            /\ Return(t) /\ START[p] # Unset
            /\ UNCHANGED <<time, jump, START, STARTUP, sync, last, panicked, early>>
        BY <2>1, <2>5 DEF SpeedStore, OneSpeed, At
      <3>2. FACTOR' \in [Processes -> Factors \cup {0}] /\ \A q \in Processes : FACTOR'[q] # 0 => START[q] # Unset
        BY <3>1, <2>1 DEF Types, TypeOK
      <3>. QED  BY <3>1, <3>2, <2>1, <1>1, ReturnTypes DEF Types, TypeOK
    <2>6. ASSUME NEW c \in {"instant", "systime"}, ReadClock(t, c)
          PROVE  Types'
      BY <2>6, <2>1, <2>3, <1>1 DEF Types, TypeOK, ReadClock, Goto, statics
    <2>7. CASE InstantNow(t)
      <3>1. PICK v : last' = [last EXCEPT ![t] = [value |-> v, factor |-> FACTOR[p]]]
                     /\ v = IF FACTOR[p] = 0 THEN read[t].mono ELSE Scaled(p, read[t].mono)
        BY <2>7 DEF InstantNow, Scaled
      <3>2. v \in Int
        BY <3>1, <2>1, Readings, ScaledMonotone
      <3>3. last' \in [Threads -> [value : Int, factor : Int]]
        BY <3>1, <3>2, <2>1, Readings DEF Types
      <3>4. Return(t) /\ UNCHANGED <<time, jump, START, FACTOR, STARTUP, sync, panicked, early>>
        BY <2>7 DEF InstantNow, statics
      <3>. QED  BY <3>3, <3>4, <2>1, <1>1, ReturnTypes DEF Types, TypeOK
    <2>8. CASE SystemTimeNow(t)
      <3>1. /\ panicked' \in [Threads -> {"-", "systime", "tries", "sync"}]
            /\ \A u \in Threads : panicked'[u] = "-" => panicked[u] = "-"
        BY <2>8, <2>1 DEF SystemTimeNow, Panic, Types, TypeOK
      <3>2. Return(t) /\ UNCHANGED <<time, jump, START, FACTOR, STARTUP, sync, last, early>>
        BY <2>8 DEF SystemTimeNow, statics
      <3>. QED  BY <3>1, <3>2, <2>1, <1>1, ReturnTypes DEF Types, TypeOK
    <2>9. CASE Initialize(t)
      BY <2>9, <2>1, <2>3, <1>1 DEF Types, TypeOK, Initialize, Goto, statics
    <2>10. CASE TimeInfoSys(t)
      <3>1. [read[t] EXCEPT !.sys = Sys] \in Stamps
        BY <2>1, Readings DEF Stamps
      <3>2. /\ read' = [read EXCEPT ![t] = [read[t] EXCEPT !.sys = Sys]]
            /\ pc' = [pc EXCEPT ![t] = "check"]
            /\ UNCHANGED <<time, jump, START, FACTOR, STARTUP, sync, tries, last, panicked, early>>
        BY <2>10 DEF TimeInfoSys, Goto, statics
      <3>. QED  BY <3>1, <3>2, <2>1, <1>1 DEF Types, TypeOK
    <2>11. CASE TimeInfoRetry(t)
      <3>1. /\ tries' = [tries EXCEPT ![t] = tries[t] - 1] /\ tries[t] >= 1
            /\ tries[t] = 1 => panicked' = [panicked EXCEPT ![t] = "tries"] /\ UNCHANGED <<pc, read>>
            /\ tries[t] # 1 => /\ read' = [read EXCEPT ![t] = [sys |-> -99, mono |-> Mono(p)]]
                               /\ pc' = [pc EXCEPT ![t] = "info"] /\ UNCHANGED panicked
            /\ UNCHANGED <<time, jump, START, FACTOR, STARTUP, sync, last, early>>
        BY <2>11, <2>1 DEF TimeInfoRetry, Goto, Panic, statics, At, Types
      <3>2. tries' \in [Threads -> 0..MAX_TRIES]
        BY <3>1, <2>1, TimeAssumption DEF Types, TypeOK
      <3>3. CASE tries[t] = 1
        BY <3>1, <3>2, <3>3, <2>1, <1>1 DEF Types, TypeOK
      <3>4. CASE tries[t] # 1
        <4>1. \A u \in Threads : panicked'[u] = "-" => tries'[u] >= 1
          BY <3>1, <3>4, <2>1 DEF Types, TypeOK
        <4>2. /\ read' \in [Threads -> Stamps]
              /\ pc' \in [Threads -> {"idle", "speed", "instant", "systime", "info", "check"}]
          <5>1. /\ read' = [read EXCEPT ![t] = [sys |-> -99, mono |-> Mono(p)]]
                /\ pc' = [pc EXCEPT ![t] = "info"]
            BY <3>1, <3>4
          <5>2. read' \in [Threads -> Stamps]
            BY <5>1, <2>1, <2>3 DEF Types
          <5>. QED  BY <5>1, <5>2, <2>1 DEF Types, TypeOK
        <4>3. TypeOK'
          BY <4>2, <3>1, <3>2, <3>4, <1>1 DEF Types, TypeOK
        <4>. QED  BY <4>1, <4>2, <4>3, <3>1 DEF Types
      <3>. QED  BY <3>3, <3>4
    <2>12. CASE InitializePrimary(t)
      <3>1. STARTUP' \in [Processes -> Stamps]
        BY <2>12, <2>1, Readings DEF InitializePrimary, SetOnce, Types
      <3>2. Return(t) /\ UNCHANGED <<time, jump, START, FACTOR, sync, last, panicked, early>>
        BY <2>12 DEF InitializePrimary
      <3>. QED  BY <3>1, <3>2, <2>1, <1>1, ReturnTypes DEF Types, TypeOK
    <2>13. CASE InitializeFrom(t)
      <3>1. [sys |-> sync, mono |-> read[t].mono - (read[t].sys - sync)] \in Stamps
        BY <2>1, Readings DEF Types, Stamps
      <3>2. STARTUP' \in [Processes -> Stamps]
        BY <3>1, <2>13, <2>1 DEF InitializeFrom, SetOnce, Types
      <3>3. /\ panicked' \in [Threads -> {"-", "systime", "tries", "sync"}]
            /\ \A u \in Threads : panicked'[u] = "-" => panicked[u] = "-"
        BY <2>13, <2>1 DEF InitializeFrom, Panic, Types, TypeOK
      <3>4. Return(t) /\ UNCHANGED <<time, jump, START, FACTOR, sync, last, early>>
        BY <2>13 DEF InitializeFrom
      <3>. QED  BY <3>2, <3>3, <3>4, <2>1, <1>1, ReturnTypes DEF Types, TypeOK
    <2>. QED  BY <1>3, <2>4, <2>5, <2>6, <2>7, <2>8, <2>9, <2>10, <2>11, <2>12, <2>13 DEF Thread
  <1>. QED  BY <1>2, <1>3 DEF Next

-----------------------------------------------------------------------------
(* The setter of a process.                                                *)
LEMMA OneSpeedStep ==
  ASSUME Types, OneSpeed, Next
  PROVE  OneSpeed'
  <1>. USE Constants
  <1>1. alive \subseteq Threads
    BY TimeAssumption DEF Types, TypeOK
  <1>2. CASE Tick \/ ClockSet \/ SyncInfo
    BY <1>2 DEF OneSpeed, Tick, ClockSet, SyncInfo, statics, locals
  <1>3. ASSUME NEW t \in alive, Thread(t)
        PROVE  OneSpeed'
    <2>1. t \in Threads /\ time >= BootTime[ProcessOf[t]]
      BY <1>1, <1>3, ThreadTime
    <2>2. \A u \in Threads : u # t => pc'[u] = pc[u]
      BY <1>3, <2>1, OthersApart
    <2>3. CASE SpeedStart(t)
      <3>1. /\ START' = [START EXCEPT ![ProcessOf[t]] = [sys |-> Sys, mono |-> Mono(ProcessOf[t])]]
            /\ t \in Setters /\ START[ProcessOf[t]] = Unset /\ FACTOR' = FACTOR
        BY <2>3 DEF SpeedStart
      <3>2. FACTOR[ProcessOf[t]] = 0
        BY <3>1, <2>1 DEF Types, TypeOK
      <3>3. \A q \in Processes : START[q] # Unset => START'[q] # Unset
        BY <3>1, <2>1, StampNow DEF Types
      <3>4. START'[ProcessOf[t]] # Unset
        BY <3>1, <2>1, StampNow DEF Types
      <3>. QED  BY <3>1, <3>2, <3>3, <3>4, <2>2 DEF OneSpeed
    <2>4. CASE SpeedStore(t)
      <3>1. \A u \in Threads : pc[u] = "speed" /\ u # t => ProcessOf[u] # ProcessOf[t]
        BY <2>1, <2>4, TimeAssumption DEF SpeedStore, At, OneSpeed
      <3>2. /\ pc'[t] = "idle" /\ START' = START
            /\ \A q \in Processes : q # ProcessOf[t] => FACTOR'[q] = FACTOR[q]
        BY <2>1, <2>4 DEF SpeedStore, Return, Goto, Types, TypeOK
      <3>. QED  BY <3>1, <3>2, <2>2 DEF OneSpeed
    <2>5. CASE ~SpeedStart(t) /\ ~SpeedStore(t)
      <3>1. pc'[t] # "speed" /\ UNCHANGED <<START, FACTOR>>
        BY <1>3, <2>1, <2>5 DEF Thread, ReadClock, InstantNow, SystemTimeNow, Initialize, TimeInfoSys,
           TimeInfoRetry, InitializePrimary, InitializeFrom, Return, Goto, At, statics, Types, TypeOK
      <3>. QED  BY <3>1, <2>2 DEF OneSpeed
    <2>. QED  BY <2>3, <2>4, <2>5
  <1>. QED  BY <1>2, <1>3 DEF Next

-----------------------------------------------------------------------------
(* Instants.                                                               *)
LEMMA InstantFrame ==
  ASSUME InstantInv, UNCHANGED <<time, START, FACTOR, last>>,
         \A u \in Threads : pc'[u] = "instant" => pc[u] = "instant" /\ read'[u] = read[u]
  PROVE  InstantInv'
  BY DEF InstantInv, SeenBefore, Scaled, Mono

(* SeenBefore does not depend on what another process does, nor, before    *)
(* there is a factor, on START and FACTOR of its own.                      *)
LEMMA SeenFrame ==
  ASSUME NEW t \in Threads, NEW n, SeenBefore(t, n), last'[t] = last[t],
         FACTOR[ProcessOf[t]] # 0 => START'[ProcessOf[t]] = START[ProcessOf[t]]
                                     /\ FACTOR'[ProcessOf[t]] = FACTOR[ProcessOf[t]]
  PROVE  SeenBefore(t, n)'
  BY DEF SeenBefore, Scaled

(* What InstantNow returns is no earlier than what it returned before, but *)
(* for the first reading that slows down.                                  *)
LEMMA NewInstant ==
  ASSUME Types, InstantInv, NEW t \in Threads, InstantNow(t), NEW now \in Int, now = read[t].mono
  PROVE  /\ SeenBefore(t, now)'
         /\ last'[t].value < last[t].value =>
              /\ last[t].factor = 0 /\ last'[t].factor < 0
              /\ last[t].value > START[ProcessOf[t]].mono
  <1>. PICK p \in Processes, f \in Int : p = ProcessOf[t] /\ f = FACTOR[p]
    BY Constants, Readings
  <1>. DEFINE v == IF f = 0 THEN now ELSE Scaled(p, now)
  <1>1. /\ last'[t] = [value |-> v, factor |-> f] /\ FACTOR'[p] = f /\ START' = START
    BY DEF InstantNow, Scaled, statics, Types
  <1>2. last'[t].value = v /\ last'[t].factor = f
    BY <1>1
  <1>3. now >= 0 /\ SeenBefore(t, now)
    BY DEF InstantInv, InstantNow, At
  <1>4. last[t].value \in Int /\ last[t].factor \in Int /\ START[p].mono \in Int
    BY Readings
  <1>5. CASE f = 0
    <2>1. last[t].factor = 0 /\ v = now /\ last[t].value <= now
      BY <1>3, <1>4, <1>5 DEF SeenBefore
    <2>2. SeenBefore(t, now)'
      BY <1>2, <1>5, <2>1 DEF SeenBefore
    <2>3. ~(last'[t].value < last[t].value)
      BY <1>2, <1>4, <2>1
    <2>. QED  BY <2>2, <2>3
  <1>6. CASE f # 0
    <2>1. Scaled(p, now) \in Int /\ START[p].mono <= Scaled(p, now) /\ (f > 0 => now <= Scaled(p, now))
      BY <1>6, ScaledMonotone
    <2>2. v = Scaled(p, now)
      BY <1>6
    <2>3. Scaled(p, now)' = Scaled(p, now)
      BY <1>1 DEF Scaled
    <2>4. SeenBefore(t, now)'
      BY <1>2, <1>1, <1>6, <2>1, <2>2, <2>3 DEF SeenBefore
    <2>5. CASE last[t].factor # 0
      <3>1. last[t].value <= Scaled(p, now)
        BY <1>3, <2>5 DEF SeenBefore
      <3>2. ~(last'[t].value < last[t].value)
        BY <3>1, <1>2, <1>4, <2>1, <2>2
      <3>. QED  BY <2>4, <3>2
    <2>6. CASE last[t].factor = 0
      <3>1. last[t].value <= now
        BY <1>3, <1>4, <2>6 DEF SeenBefore
      <3>2. ASSUME v < last[t].value
            PROVE  f < 0 /\ last[t].value > START[p].mono
        BY <3>1, <3>2, <1>4, <1>6, <2>1, <2>2
      <3>. QED  BY <1>2, <2>4, <2>6, <3>2
    <2>. QED  BY <2>5, <2>6
  <1>. QED  BY <1>5, <1>6

LEMMA InstantStep ==
  ASSUME Types, OneSpeed, InstantInv, Next
  PROVE  InstantInv'
  <1>. USE Constants
  <1>1. alive \subseteq Threads
    BY TimeAssumption DEF Types, TypeOK
  <1>2. CASE Tick
    <2>1. UNCHANGED <<START, FACTOR, last, pc, read>> /\ time' = time + 1
      BY <1>2 DEF Tick, statics, locals
    <2>. SUFFICES ASSUME NEW u \in Threads
                  PROVE  /\ SeenBefore(u, Mono(ProcessOf[u]))'
                         /\ pc[u] = "instant" =>
                              /\ read[u].mono >= 0 /\ read[u].mono <= Mono(ProcessOf[u])'
                              /\ SeenBefore(u, read[u].mono)'
      BY <2>1 DEF InstantInv
    <2>2. PICK m \in Int : m = Mono(ProcessOf[u])
      BY Readings
    <2>3. Mono(ProcessOf[u])' = m + 1
      BY <2>1, <2>2, Readings DEF Mono
    <2>4. SeenBefore(u, m + 1)
      <3>1. m <= m + 1 /\ m + 1 \in Int
        OBVIOUS
      <3>2. SeenBefore(u, m)
        BY <2>2 DEF InstantInv
      <3>. QED  BY <3>1, <3>2, SeenUpward
    <2>5. SeenBefore(u, m + 1)'
      BY <2>4, <2>1 DEF SeenBefore, Scaled
    <2>6. SeenBefore(u, Mono(ProcessOf[u]))'
      BY <2>3, <2>5
    <2>7. ASSUME pc[u] = "instant"
          PROVE  /\ read[u].mono >= 0 /\ read[u].mono <= Mono(ProcessOf[u])'
                 /\ SeenBefore(u, read[u].mono)'
      BY <2>7, <2>1, <2>2, <2>3, Readings DEF InstantInv, SeenBefore, Scaled
    <2>. QED  BY <2>6, <2>7
  <1>3. CASE ClockSet \/ SyncInfo
    BY <1>3, InstantFrame DEF ClockSet, SyncInfo, statics, locals
  <1>4. ASSUME NEW t \in alive, Thread(t)
        PROVE  InstantInv'
    <2>1. t \in Threads /\ time' = time /\ Mono(ProcessOf[t]) >= 0
      BY <1>1, <1>4, ThreadTime, StampNow
    <2>2. \A u \in Threads : u # t => pc'[u] = pc[u] /\ read'[u] = read[u] /\ last'[u] = last[u]
      BY <1>4, <2>1, OthersApart
    <2>3. CASE SpeedStart(t) \/ SpeedStore(t)
      <3>1. pc'[t] # "instant" /\ last' = last
        BY <2>1, <2>3 DEF SpeedStart, SpeedStore, Return, Goto, Types, TypeOK
      <3>2. ASSUME NEW q \in Processes, FACTOR[q] # 0
            PROVE  START'[q] = START[q] /\ FACTOR'[q] = FACTOR[q]
        <4>1. q # ProcessOf[t]
          BY <2>1, <2>3, <3>2 DEF SpeedStart, SpeedStore, At, OneSpeed, Types, TypeOK
        <4>. QED  BY <4>1, <2>3 DEF SpeedStart, SpeedStore, Types, TypeOK
      <3>. SUFFICES ASSUME NEW u \in Threads
                    PROVE  /\ SeenBefore(u, Mono(ProcessOf[u]))'
                           /\ pc'[u] = "instant" =>
                                /\ read'[u].mono >= 0 /\ read'[u].mono <= Mono(ProcessOf[u])'
                                /\ SeenBefore(u, read[u].mono)'
        BY DEF InstantInv
      <3>3. PICK m \in Int, r \in Int : m = Mono(ProcessOf[u]) /\ r = read[u].mono
        BY Readings
      <3>4. Mono(ProcessOf[u])' = m
        BY <3>3, <2>1 DEF Mono
      <3>5. ASSUME NEW n \in Int, SeenBefore(u, n) PROVE SeenBefore(u, n)'
        BY <3>1, <3>2, <3>5, SeenFrame
      <3>6. SeenBefore(u, m)'
        BY <3>3, <3>5 DEF InstantInv
      <3>7. SeenBefore(u, Mono(ProcessOf[u]))'
        BY <3>4, <3>6
      <3>8. ASSUME pc'[u] = "instant"
            PROVE  /\ read'[u].mono >= 0 /\ read'[u].mono <= Mono(ProcessOf[u])'
                   /\ SeenBefore(u, read[u].mono)'
        <4>1. pc[u] = "instant" /\ read'[u] = read[u]
          BY <3>1, <3>8, <2>2
        <4>2. SeenBefore(u, r)' /\ r >= 0 /\ r <= m
          BY <4>1, <3>3, <3>5 DEF InstantInv
        <4>3. read'[u].mono = r
          BY <4>1, <3>3
        <4>4. SeenBefore(u, read[u].mono)'
          BY <4>2, <4>3 DEF SeenBefore
        <4>. QED  BY <4>2, <4>3, <4>4, <3>4
      <3>. QED  BY <3>7, <3>8
    <2>4. CASE ReadClock(t, "instant")
      <3>1. UNCHANGED <<START, FACTOR, last>> /\ read'[t].mono = Mono(ProcessOf[t])
        BY <2>1, <2>4 DEF ReadClock, statics, Types
      <3>. SUFFICES ASSUME NEW u \in Threads
                    PROVE  /\ SeenBefore(u, Mono(ProcessOf[u]))'
                           /\ pc'[u] = "instant" =>
                                /\ read'[u].mono >= 0 /\ read'[u].mono <= Mono(ProcessOf[u])'
                                /\ SeenBefore(u, read[u].mono)'
        BY DEF InstantInv
      <3>2. Mono(ProcessOf[u])' = Mono(ProcessOf[u]) /\ Mono(ProcessOf[u]) \in Int
        BY <2>1, Readings DEF Mono
      <3>3. SeenBefore(u, Mono(ProcessOf[u]))'
        BY <3>1, <3>2 DEF InstantInv, SeenBefore, Scaled
      <3>4. CASE u = t
        <4>1. SeenBefore(u, read[u].mono)'
          BY <3>1, <3>2, <3>4 DEF InstantInv, SeenBefore, Scaled
        <4>. QED  BY <4>1, <3>1, <3>2, <3>3, <3>4, <2>1
      <3>5. CASE u # t
        BY <3>1, <3>2, <3>3, <3>5, <2>2 DEF InstantInv, SeenBefore, Scaled
      <3>. QED  BY <3>4, <3>5
    <2>5. CASE InstantNow(t)
      <3>1. UNCHANGED <<START, FACTOR>> /\ pc'[t] = "idle" /\ pc[t] = "instant"
        BY <2>1, <2>5 DEF InstantNow, Return, Goto, At, statics, Types, TypeOK
      <3>2. ASSUME NEW u \in Threads, u # t
            PROVE  /\ SeenBefore(u, Mono(ProcessOf[u]))'
                   /\ pc'[u] = "instant" =>
                        /\ read'[u].mono >= 0 /\ read'[u].mono <= Mono(ProcessOf[u])'
                        /\ SeenBefore(u, read[u].mono)'
        BY <3>1, <3>2, <2>1, <2>2 DEF InstantInv, SeenBefore, Scaled, Mono
      <3>3. SeenBefore(t, Mono(ProcessOf[t]))'
        <4>1. PICK now \in Int, m \in Int : now = read[t].mono /\ m = Mono(ProcessOf[t])
          BY <2>1, Readings
        <4>2. SeenBefore(t, now)'
          BY <4>1, <2>1, <2>5, NewInstant
        <4>3. now <= m
          BY <4>1, <3>1, <2>1 DEF InstantInv
        <4>4. Types'
          BY TypesStep
        <4>5. SeenBefore(t, m)'
          <5>1. CASE last'[t].factor = 0
            <6>1. last'[t].value \in Int
              BY <4>4, <2>1 DEF Types
            <6>. QED  BY <6>1, <4>2, <4>3, <5>1 DEF SeenBefore
          <5>2. CASE last'[t].factor # 0
            <6>1. /\ last'[t].factor = FACTOR[ProcessOf[t]] /\ FACTOR[ProcessOf[t]] # 0
                  /\ last'[t].value <= Scaled(ProcessOf[t], now)
              BY <4>2, <5>2, <3>1 DEF SeenBefore, Scaled
            <6>2. /\ Scaled(ProcessOf[t], now) <= Scaled(ProcessOf[t], m)
                  /\ Scaled(ProcessOf[t], now) \in Int /\ Scaled(ProcessOf[t], m) \in Int
              BY <6>1, <4>3, <2>1, ScaledMonotone
            <6>3. last'[t].value \in Int
              BY <4>4, <2>1 DEF Types
            <6>4. last'[t].value <= Scaled(ProcessOf[t], m)
              BY <6>1, <6>2, <6>3
            <6>. QED  BY <6>1, <6>4, <5>2, <3>1 DEF SeenBefore, Scaled
          <5>. QED  BY <5>1, <5>2
        <4>6. Mono(ProcessOf[t])' = m
          BY <4>1, <2>1 DEF Mono
        <4>. QED  BY <4>5, <4>6
      <3>. QED  BY <3>1, <3>2, <3>3 DEF InstantInv
    <2>6. CASE /\ ~SpeedStart(t) /\ ~SpeedStore(t)
               /\ ~ReadClock(t, "instant") /\ ~InstantNow(t)
      <3>1. pc'[t] # "instant" /\ UNCHANGED <<START, FACTOR, last>>
        BY <1>4, <2>1, <2>6 DEF Thread, ReadClock, SystemTimeNow, Initialize, TimeInfoSys,
           TimeInfoRetry, InitializePrimary, InitializeFrom, Return, Goto, At, statics, Types, TypeOK
      <3>. QED  BY <3>1, <2>1, <2>2, InstantFrame
    <2>. QED  BY <2>3, <2>4, <2>5, <2>6
  <1>. QED  BY <1>2, <1>3, <1>4 DEF Next

-----------------------------------------------------------------------------
(* The system clock.                                                       *)
LEMMA SumOrdered ==
  ASSUME NEW a \in Int, NEW b \in Int, NEW c \in Int, NEW d \in Int, a >= b, c >= d
  PROVE  10 + a + c >= 10 + b + d
  OBVIOUS

LEMMA StartPassedStep ==
  ASSUME Types, StartPassed, Next
  PROVE  StartPassed'
  <1>1. alive \subseteq Threads /\ Setters \subseteq Threads
    BY TimeAssumption DEF Types, TypeOK
  <1>2. CASE Tick \/ ClockSet \/ SyncInfo
    <2>1. /\ UNCHANGED <<START, pc, read, early>> /\ (time' = time \/ time' = time + 1)
          /\ jump' = jump \/ (jump = 0 /\ jump' \in Jumps)
      BY <1>2 DEF Tick, ClockSet, SyncInfo, statics, locals
    <2>2. time \in Int /\ jump \in Int /\ time' \in Int /\ jump' \in Int
      <3>1. time \in Int /\ jump \in Int
        BY Readings
      <3>2. time' \in Int
        BY <2>1, <3>1
      <3>3. jump' \in Int
        BY <2>1, <3>1, TimeAssumption
      <3>. QED  BY <3>1, <3>2, <3>3
    <2>3. jump' >= 0 => jump >= 0 /\ Sys' >= Sys
      <3>1. Sys = 10 + time + jump /\ Sys' = 10 + time' + jump'
        BY DEF Sys
      <3>2. time' >= time
        BY <2>1, <2>2
      <3>3. jump' >= 0 => jump >= 0 /\ jump' >= jump
        BY <2>1, <2>2
      <3>4. jump' >= 0 => 10 + time' + jump' >= 10 + time + jump
        BY <2>2, <3>2, <3>3, SumOrdered, Zenon
      <3>. QED  BY <3>1, <3>3, <3>4, Zenon
    <2>4. Sys \in Int /\ Sys' \in Int
      BY <2>2 DEF Sys
    <2>5. ASSUME jump' >= 0, NEW q \in Processes, START[q] # Unset
          PROVE  START[q].sys <= Sys'
      BY <2>3, <2>4, <2>5, Readings DEF StartPassed
    <2>. QED  BY <2>1, <2>3, <2>5 DEF StartPassed
  <1>3. ASSUME NEW t \in alive, Thread(t)
        PROVE  StartPassed'
    <2>. USE Constants
    <2>. SUFFICES ASSUME jump' >= 0 PROVE StartPassed'
      BY DEF StartPassed
    <2>1. t \in Threads /\ time' = time /\ jump' = jump /\ Sys' = Sys /\ jump >= 0
      BY <1>1, <1>3, ThreadTime DEF Sys
    <2>2. \A u \in Threads : u # t =>
            pc'[u] = pc[u] /\ read'[u] = read[u] /\ (u \in early' <=> u \in early)
      BY <1>3, <2>1, OthersApart
    <2>3. CASE SpeedStart(t)
      <3>1. /\ START' = [START EXCEPT ![ProcessOf[t]] = [sys |-> Sys, mono |-> Mono(ProcessOf[t])]]
            /\ t \in Setters /\ pc'[t] = "speed" /\ START[ProcessOf[t]] = Unset
        BY <2>1, <2>3 DEF SpeedStart, Goto, Types, TypeOK
      <3>2. \A u \in Setters : u # t => ProcessOf[u] # ProcessOf[t]
        BY <3>1, TimeAssumption
      <3>3. /\ START'[ProcessOf[t]].sys = Sys /\ START'[ProcessOf[t]] # Unset
            /\ \A q \in Processes : q # ProcessOf[t] => START'[q] = START[q]
        BY <3>1, <2>1, <1>3, ThreadTime, StampNow DEF Types
      <3>4. \A u \in Threads \ early' : pc'[u] = "systime" => START'[ProcessOf[u]] # Unset
        BY <3>1, <3>3, <2>1, <2>2 DEF StartPassed
      <3>5. ASSUME NEW u \in Threads, pc'[u] = "systime", START'[ProcessOf[u]] # Unset,
                   u \notin early' \ Setters
            PROVE  START'[ProcessOf[u]].sys <= read'[u].sys
        <4>1. u # t /\ pc[u] = "systime" /\ u \notin early \ Setters /\ read'[u] = read[u]
          BY <3>1, <3>5, <2>2
        <4>2. ProcessOf[u] # ProcessOf[t]
          BY <4>1, <3>1, <3>2, <2>1 DEF StartPassed
        <4>. QED  BY <4>1, <4>2, <3>3, <3>5, <2>1 DEF StartPassed
      <3>6. \A q \in Processes : START'[q] # Unset => START'[q].sys <= Sys'
        BY <3>3, <2>1, Readings DEF StartPassed
      <3>. QED  BY <3>4, <3>5, <3>6 DEF StartPassed
    <2>4. CASE ReadClock(t, "systime")
      <3>1. /\ START' = START /\ read'[t].sys = Sys
            /\ START[ProcessOf[t]] = Unset <=> t \in early'
        BY <2>1, <2>4 DEF ReadClock, statics, Types
      <3>. QED  BY <3>1, <2>1, <2>2 DEF StartPassed
    <2>5. CASE ~SpeedStart(t) /\ ~ReadClock(t, "systime")
      <3>1. pc'[t] # "systime" /\ START' = START
        BY <1>3, <2>1, <2>5 DEF Thread, SpeedStore, ReadClock, InstantNow, SystemTimeNow, Initialize,
           TimeInfoSys, TimeInfoRetry, InitializePrimary, InitializeFrom, Return, Goto, At, statics,
           Types, TypeOK
      <3>. QED  BY <3>1, <2>1, <2>2 DEF StartPassed
    <2>. QED  BY <2>3, <2>4, <2>5
  <1>. QED  BY <1>2, <1>3 DEF Next

LEMMA SystemTimeStep ==
  ASSUME Types, StartPassed, SystemTimePanics, Next
  PROVE  SystemTimePanics'
  <1>1. alive \subseteq Threads
    BY TimeAssumption DEF Types, TypeOK
  <1>2. CASE Tick \/ ClockSet \/ SyncInfo
    BY <1>2 DEF Tick, ClockSet, SyncInfo, locals, SystemTimePanics
  <1>3. ASSUME NEW t \in alive, Thread(t)
        PROVE  SystemTimePanics'
    <2>1. t \in Threads /\ jump' = jump
      BY <1>1, <1>3, ThreadTime
    <2>2. \A u \in Threads : u # t => panicked'[u] = panicked[u] /\ (u \in early' <=> u \in early)
      BY <1>3, <2>1, OthersApart
    <2>3. CASE SystemTimeNow(t) /\ panicked'[t] = "systime" /\ panicked' # panicked
      <3>1. FACTOR[ProcessOf[t]] # 0 /\ EarlierThanStart(t) /\ pc[t] = "systime" /\ early' = early
        BY <2>3 DEF SystemTimeNow, At
      <3>2. START[ProcessOf[t]] # Unset
        BY <3>1, <2>1, Constants DEF Types, TypeOK
      <3>3. jump < 0 \/ t \in early \ Setters
        BY <3>1, <3>2, <2>1, Constants, Readings DEF StartPassed, EarlierThanStart
      <3>. QED  BY <3>1, <3>3, <2>1, <2>2 DEF SystemTimePanics
    <2>4. CASE ~(SystemTimeNow(t) /\ panicked'[t] = "systime" /\ panicked' # panicked)
      <3>1. panicked'[t] # "systime"
        BY <1>3, <2>1, <2>4 DEF Thread, SpeedStart, SpeedStore, ReadClock, InstantNow, SystemTimeNow,
           Initialize, TimeInfoSys, TimeInfoRetry, InitializePrimary, InitializeFrom, Panic, At, statics,
           Types, TypeOK
      <3>. QED  BY <3>1, <2>1, <2>2 DEF SystemTimePanics
    <2>. QED  BY <2>3, <2>4
  <1>. QED  BY <1>2, <1>3 DEF Next

-----------------------------------------------------------------------------
(* The startup time.                                                       *)
LEMMA StartupFrame ==
  ASSUME StartupInv, UNCHANGED <<time, jump, STARTUP, sync>>,
         \A u \in Threads :
           /\ pc'[u] \in {"info", "check"} => pc'[u] = pc[u] /\ read'[u] = read[u]
           /\ panicked'[u] = "sync" => panicked[u] = "sync"
  PROVE  StartupInv'
  BY DEF StartupInv, Mono, Sys

(* A reading that was fast enough is of the present moment.                *)
LEMMA CheckedNow ==
  ASSUME Types, StartupInv, NEW t \in Threads, jump = 0, pc[t] = "check", WithinDelay(t)
  PROVE  /\ read[t].mono = time - BootTime[ProcessOf[t]]
         /\ read[t].sys = 10 + time /\ Sys = 10 + time
  <1>1. /\ read[t].mono = time - BootTime[ProcessOf[t]] /\ Sys = 10 + time
    BY Readings DEF WithinDelay, Mono, Sys
  <1>2. read[t].mono + BootTime[ProcessOf[t]] <= read[t].sys - 10 /\ read[t].sys <= Sys
    BY DEF StartupInv
  <1>. QED  BY <1>1, <1>2, Constants, Readings

LEMMA StartupStep ==
  ASSUME Types, StartupInv, Next
  PROVE  StartupInv'
  <1>. USE Constants
  <1>1. alive \subseteq Threads
    BY TimeAssumption DEF Types, TypeOK
  <1>. SUFFICES ASSUME jump' = 0 PROVE StartupInv'
    BY DEF StartupInv
  <1>2. CASE Tick
    <2>1. /\ UNCHANGED <<jump, STARTUP, sync, pc, read, panicked>> /\ time' = time + 1
      BY <1>2 DEF Tick, statics, locals
    <2>2. Sys' = Sys + 1 /\ \A p \in Processes : Mono(p)' = Mono(p) + 1
      BY <2>1, Readings DEF Sys, Mono
    <2>. QED  BY <2>1, <2>2, Readings DEF StartupInv
  <1>3. CASE ClockSet
    BY <1>3, StartupFrame DEF ClockSet, statics, locals
  <1>4. CASE SyncInfo
    <2>1. /\ STARTUP[Primary] # Unset /\ sync < 0 /\ sync' = STARTUP[Primary].sys
          /\ UNCHANGED <<time, jump, STARTUP, pc, read, panicked>>
      BY <1>4 DEF SyncInfo, locals
    <2>2. jump = 0 /\ Sys' = Sys /\ \A p \in Processes : Mono(p)' = Mono(p)
      BY <2>1 DEF Sys, Mono
    <2>3. ~(sync >= 0)
      BY <2>1 DEF Types
    <2>4. \A t \in Threads : panicked[t] # "sync" /\ (pc[t] \in {"info", "check"} => ProcessOf[t] = Primary)
      BY <2>2, <2>3 DEF StartupInv
    <2>5. \A p \in Processes : STARTUP[p] # Unset => p = Primary
      BY <2>2, <2>3 DEF StartupInv
    <2>. QED  BY <2>1, <2>2, <2>4, <2>5 DEF StartupInv
  <1>5. ASSUME NEW t \in alive, Thread(t)
        PROVE  StartupInv'
    <2>. PICK p \in Processes : p = ProcessOf[t]
      BY <1>1
    <2>1. /\ t \in Threads /\ time' = time /\ jump' = jump /\ jump = 0 /\ time >= BootTime[p]
          /\ Sys' = Sys /\ \A q \in Processes : Mono(q)' = Mono(q)
      BY <1>1, <1>5, ThreadTime DEF Sys, Mono
    <2>2. \A u \in Threads : u # t =>
            pc'[u] = pc[u] /\ read'[u] = read[u] /\ panicked'[u] = panicked[u]
      BY <1>5, <2>1, OthersApart
    <2>3. CASE Initialize(t) \/ TimeInfoRetry(t)
      <3>1. /\ UNCHANGED <<STARTUP, sync>>
            /\ panicked'[t] = "sync" => panicked[t] = "sync"
            /\ pc'[t] = "info" => read'[t].mono = Mono(p)
            /\ pc'[t] = "check" => pc[t] = "check" /\ read'[t] = read[t]
            /\ p = Primary \/ sync >= 0
        BY <2>1, <2>3 DEF Initialize, TimeInfoRetry, Panic, Goto, At, statics, Types, TypeOK, StartupInv
      <3>. QED  BY <3>1, <2>1, <2>2, Readings DEF StartupInv
    <2>4. CASE TimeInfoSys(t)
      <3>1. /\ UNCHANGED <<STARTUP, sync, panicked>>
            /\ pc[t] = "info" /\ pc'[t] = "check"
            /\ read'[t].mono = read[t].mono /\ read'[t].sys = Sys
        BY <2>1, <2>4, Readings DEF TimeInfoSys, Goto, At, statics, Types, TypeOK, Stamps
      <3>2. read[t].mono + BootTime[p] <= Sys - 10
        BY <3>1, <2>1, Readings DEF StartupInv, Mono, Sys
      <3>. QED  BY <3>1, <3>2, <2>1, <2>2, Readings DEF StartupInv
    <2>5. CASE InitializePrimary(t)
      <3>1. /\ p = Primary /\ pc[t] = "check" /\ WithinDelay(t) /\ pc'[t] = "idle"
            /\ UNCHANGED <<sync, panicked>>
            /\ STARTUP' = IF STARTUP[p] = Unset THEN [STARTUP EXCEPT ![p] = read[t]] ELSE STARTUP
        BY <2>1, <2>5 DEF InitializePrimary, SetOnce, Return, Goto, At, Types, TypeOK
      <3>2. /\ read[t].mono = time - BootTime[p] /\ read[t].sys = 10 + time /\ Sys = 10 + time
        BY <3>1, <2>1, CheckedNow
      <3>3. CASE STARTUP[p] = Unset
        <4>1. STARTUP'[p] = read[t] /\ \A q \in Processes : q # p => STARTUP'[q] = STARTUP[q]
          BY <3>1, <3>3 DEF Types
        <4>2. ~(sync >= 0)
          BY <3>1, <3>3, <2>1 DEF StartupInv
        <4>3. read[t].sys = 10 + read[t].mono + BootTime[p] /\ read[t].sys <= Sys
          BY <3>2, Readings
        <4>. QED  BY <4>1, <4>2, <4>3, <3>1, <2>1, <2>2 DEF StartupInv
      <3>4. CASE STARTUP[p] # Unset
        BY <3>4, <3>1, <2>1, <2>2, StartupFrame
      <3>. QED  BY <3>3, <3>4
    <2>6. CASE InitializeFrom(t)
      <3>. PICK elapsed \in Int : elapsed = read[t].sys - sync
        BY <2>1, Readings DEF Types
      <3>1. /\ p # Primary /\ pc[t] = "check" /\ WithinDelay(t) /\ pc'[t] = "idle" /\ sync' = sync
            /\ IF elapsed < 0 \/ elapsed > read[t].mono
               THEN STARTUP' = STARTUP /\ panicked'[t] = "sync"
               ELSE /\ STARTUP' = IF STARTUP[p] = Unset
                                  THEN [STARTUP EXCEPT ![p] = [sys |-> sync, mono |-> read[t].mono - elapsed]]
                                  ELSE STARTUP
                    /\ panicked' = panicked
        BY <2>1, <2>6 DEF InitializeFrom, SetOnce, Panic, Return, Goto, At, Types, TypeOK
      <3>2. /\ read[t].mono = time - BootTime[p] /\ read[t].sys = 10 + time /\ Sys = 10 + time
        BY <3>1, <2>1, CheckedNow
      <3>3. sync \in Int /\ sync >= 0 /\ STARTUP[Primary] # Unset /\ sync = STARTUP[Primary].sys /\ sync <= Sys
        BY <3>1, <2>1 DEF StartupInv, Types
      <3>4. elapsed = 10 + time - sync /\ ~(elapsed < 0)
        BY <3>2, <3>3, Readings
      <3>5. CASE elapsed > read[t].mono
        <4>1. BootTime[p] > sync - 10
          BY <3>2, <3>3, <3>4, <3>5, Readings
        <4>. QED  BY <4>1, <3>1, <3>3, <3>4, <3>5, <2>1, <2>2 DEF StartupInv
      <3>6. CASE ~(elapsed > read[t].mono) /\ STARTUP[p] = Unset
        <4>. PICK mono \in Int : mono = read[t].mono - elapsed
          BY <2>1, Readings
        <4>1. /\ STARTUP'[p] = [sys |-> sync, mono |-> mono] /\ panicked' = panicked
              /\ \A q \in Processes : q # p => STARTUP'[q] = STARTUP[q]
          BY <3>1, <3>4, <3>6 DEF Types
        <4>2. STARTUP'[p].sys = sync /\ STARTUP'[p].mono = mono
          BY <4>1
        <4>3. sync = 10 + mono + BootTime[p]
          BY <3>2, <3>3, <3>4, Readings
        <4>. QED  BY <4>1, <4>2, <4>3, <3>1, <3>3, <2>1, <2>2 DEF StartupInv
      <3>7. CASE ~(elapsed > read[t].mono) /\ STARTUP[p] # Unset
        BY <3>1, <3>4, <3>7, <2>1, <2>2, StartupFrame
      <3>. QED  BY <3>5, <3>6, <3>7
    <2>7. CASE /\ ~Initialize(t) /\ ~TimeInfoRetry(t) /\ ~TimeInfoSys(t)
               /\ ~InitializePrimary(t) /\ ~InitializeFrom(t)
      <3>1. /\ UNCHANGED <<STARTUP, sync>> /\ pc'[t] \notin {"info", "check"}
            /\ panicked'[t] = "sync" => panicked[t] = "sync"
        BY <1>5, <2>1, <2>7 DEF Thread, SpeedStart, SpeedStore, ReadClock, InstantNow, SystemTimeNow,
           Panic, Return, Goto, At, statics, Types, TypeOK
      <3>. QED  BY <3>1, <2>1, <2>2, StartupFrame
    <2>. QED  BY <2>3, <2>4, <2>5, <2>6, <2>7
  <1>. QED  BY <1>2, <1>3, <1>4, <1>5 DEF Next

-----------------------------------------------------------------------------
LEMMA StutterStep ==
  ASSUME TimeInv, UNCHANGED vars
  PROVE  TimeInv'
  <1>1. UNCHANGED <<alive, time, jump, START, FACTOR, STARTUP, sync, pc, read, tries, last, panicked, early>>
    BY DEF vars, statics, locals
  <1>2. Types' /\ OneSpeed' /\ SystemTimePanics'
    BY <1>1 DEF TimeInv, Types, TypeOK, OneSpeed, SystemTimePanics
  <1>3. InstantInv'
    BY <1>1, InstantFrame DEF TimeInv
  <1>4. StartPassed'
    BY <1>1 DEF TimeInv, StartPassed, Sys
  <1>5. StartupInv'
    BY <1>1, StartupFrame DEF TimeInv
  <1>. QED  BY <1>2, <1>3, <1>4, <1>5 DEF TimeInv

(***************************************************************************)
(* The invariant of the clocks: a process scales time by one factor from   *)
(* one start (feo-time), every startup time is that of the primary seen on *)
(* the process's own monotonic clock (timestamp.rs).                       *)
(***************************************************************************)
THEOREM ClockInvariant == Spec => []TimeInv
  <1>1. TimeInv /\ [Next]_vars => TimeInv'
    <2>1. TimeInv /\ Next => TimeInv'
      BY TypesStep, OneSpeedStep, InstantStep, StartPassedStep, SystemTimeStep, StartupStep
         DEF TimeInv
    <2>. QED  BY <2>1, StutterStep
  <1>. QED  BY <1>1, InitInvariant, PTL DEF Spec

(***************************************************************************)
(* The Instants of a thread never go back, whatever the factor and the     *)
(* moment at which speed() is called, except for the first reading with a  *)
(* factor that slows down.                                                 *)
(***************************************************************************)
THEOREM InstantsOrdered == Spec => InstantsNeverGoBack
  <1>. DEFINE Ordered == \A t \in Threads : last'[t].value < last[t].value =>
                           /\ last[t].factor = 0 /\ last'[t].factor < 0
                           /\ last[t].value > START[ProcessOf[t]].mono
  <1>1. TimeInv /\ [Next]_vars => [Ordered]_vars
    <2>. SUFFICES ASSUME TimeInv, Next PROVE Ordered
      OBVIOUS
    <2>1. Types /\ InstantInv /\ alive \subseteq Threads
      BY TimeAssumption DEF TimeInv, Types, TypeOK
    <2>2. CASE Tick \/ ClockSet \/ SyncInfo
      BY <2>1, <2>2, Readings DEF Tick, ClockSet, SyncInfo, locals
    <2>3. ASSUME NEW t \in alive, Thread(t)
          PROVE  Ordered
      <3>1. t \in Threads /\ \A u \in Threads : u # t => last'[u] = last[u]
        BY <2>1, <2>3, OthersApart
      <3>2. CASE InstantNow(t)
        <4>1. PICK now \in Int : now = read[t].mono
          BY <2>1, <3>1, Readings
        <4>2. last'[t].value < last[t].value =>
                /\ last[t].factor = 0 /\ last'[t].factor < 0
                /\ last[t].value > START[ProcessOf[t]].mono
          BY <2>1, <3>1, <3>2, <4>1, NewInstant
        <4>. QED  BY <4>2, <3>1, <2>1, Readings
      <3>3. CASE ~InstantNow(t)
        <4>1. last' = last
          BY <2>3, <3>3 DEF Thread, SpeedStart, SpeedStore, ReadClock, SystemTimeNow, Initialize,
             TimeInfoSys, TimeInfoRetry, InitializePrimary, InitializeFrom
        <4>. QED  BY <4>1, <2>1, Readings
      <3>. QED  BY <3>2, <3>3
    <2>. QED  BY <2>2, <2>3 DEF Next
  <1>2. Spec => [][Ordered]_vars
    <2>. HIDE DEF Ordered
    <2>. QED  BY <1>1, ClockInvariant, PTL DEF Spec
  <1>. QED  BY <1>2 DEF InstantsNeverGoBack

(***************************************************************************)
(* As long as the system clock is not set back, a SystemTime panics only   *)
(* in a thread whose reading is older than START and which did not         *)
(* evaluate START itself, whatever the factors and the boot times.         *)
(***************************************************************************)
THEOREM OnlyEarlyReadingsPanic == Spec => []SystemTimePanics
  <1>1. TimeInv => SystemTimePanics
    BY DEF TimeInv
  <1>. QED  BY <1>1, ClockInvariant, PTL

(***************************************************************************)
(* All agents agree on the moment of startup, however long StartupSync     *)
(* took and whichever thread was first, unless the clock was set.          *)
(***************************************************************************)
THEOREM AgreedOnStartup == Spec => []StartupAgreed
  <1>1. TimeInv => StartupAgreed
    <2>. SUFFICES ASSUME TimeInv PROVE StartupAgreed
      OBVIOUS
    <2>. USE Constants
    <2>1. Types /\ StartupInv /\ TypeOK
      BY DEF TimeInv, Types
    <2>2. ASSUME jump = 0, NEW p \in Processes, NEW q \in Processes,
                 STARTUP[p] # Unset, STARTUP[q] # Unset
          PROVE  STARTUP[p].mono + BootTime[p] = STARTUP[q].mono + BootTime[q]
      <3>1. ASSUME NEW x \in Processes, STARTUP[x] # Unset
            PROVE  /\ STARTUP[Primary] # Unset
                   /\ STARTUP[x].mono + BootTime[x] = STARTUP[Primary].sys - 10
        BY <2>1, <2>2, <3>1, Readings DEF StartupInv
      <3>. QED  BY <2>2, <3>1
    <2>3. ASSUME jump = 0, NEW t \in Threads, panicked[t] = "sync"
          PROVE  BootTime[ProcessOf[t]] > STARTUP[Primary].mono + BootTime[Primary]
      BY <2>1, <2>3, Readings DEF StartupInv, Types
    <2>. QED  BY <2>1, <2>2, <2>3 DEF StartupAgreed
  <1>. QED  BY <1>1, ClockInvariant, PTL
=============================================================================
