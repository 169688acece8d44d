----------------------------- MODULE RelayedProofs -----------------------------
(***************************************************************************)
(* Proofs about relayed signalling: its inductive invariant, that clocks   *)
(* are set before work arrives, and that the relays implement SignalPipe.  *)
(***************************************************************************)
EXTENDS RelayedInvariant, SequenceTheorems, NaturalsInduction, WellFoundedInduction, TLAPS

(***************************************************************************)
(* Only: by induction, as the search for a least counterexample.           *)
(***************************************************************************)
LEMMA Least ==
  ASSUME NEW T \in SUBSET Nat, T # {}
  PROVE  \E n \in T : \A m \in T : n <= m
  <1>1. PICK n \in T : \A m \in T : ~(<<m, n>> \in OpToRel(<, Nat))
    BY WFMin, NatLessThanWellFounded
  <1>2. \A m \in T : m \in Nat /\ n \in Nat /\ ~(m < n)
    BY <1>1 DEF OpToRel
  <1>. QED  BY <1>2

Filters(f, s, S) ==
  f = [i \in 0..Len(s) |-> IF i = 0 THEN << >>
                           ELSE IF s[i] \in S THEN Append(f[i - 1], s[i]) ELSE f[i - 1]]

LEMMA OnlyDef ==
  ASSUME NEW s, NEW S
  PROVE  Only(s, S) = (CHOOSE f : Filters(f, s, S))[Len(s)]
  BY DEF Only, Filters

(* The table that Only computes exists and is unique.                      *)
LEMMA TableExists ==
  ASSUME NEW X, NEW s \in Seq(X), NEW S
  PROVE  \E f \in [0..Len(s) -> Seq(X)] : Filters(f, s, S)
  <1>. DEFINE Table(f, n) ==
                /\ f \in [0..n -> Seq(X)] /\ f[0] = << >>
                /\ \A i \in 1..n : f[i] = IF s[i] \in S THEN Append(f[i - 1], s[i]) ELSE f[i - 1]
              T == {n \in 0..Len(s) : ~ \E f : Table(f, n)}
  <1>1. Len(s) \in Nat /\ \A i \in 1..Len(s) : s[i] \in X
    BY LenProperties
  <1>2. T = {}
    <2>. SUFFICES ASSUME T # {} PROVE FALSE
      OBVIOUS
    <2>1. T \in SUBSET Nat
      OBVIOUS
    <2>. HIDE DEF T
    <2>2. PICK n \in T : \A m \in T : n <= m
      BY <2>1, Least
    <2>3. n \in 0..Len(s)
      BY DEF T
    <2>6. n # 0 => n - 1 \in 0..Len(s) /\ n - 1 \notin T
      BY <1>1, <2>2, <2>3
    <2>. USE DEF T
    <2>4. CASE n = 0
      <3>1. Table([i \in 0..0 |-> << >>], 0)
        BY EmptySeq
      <3>. QED  BY <2>4, <3>1
    <2>5. CASE n # 0
      <3>2. PICK f : Table(f, n - 1)
        BY <2>5, <2>6
      <3>. DEFINE x == IF s[n] \in S THEN Append(f[n - 1], s[n]) ELSE f[n - 1]
                  h == [i \in 0..n |-> IF i = n THEN x ELSE f[i]]
      <3>3. f[n - 1] \in Seq(X) /\ s[n] \in X
        BY <1>1, <2>3, <2>5, <3>2
      <3>4. x \in Seq(X)
        BY <3>3, AppendProperties
      <3>. HIDE DEF x
      <3>5. h \in [0..n -> Seq(X)]
        BY <2>3, <1>1, <3>2, <3>4
      <3>6. h[0] = << >>
        BY <2>3, <2>5, <1>1, <3>2
      <3>7. \A i \in 1..n : h[i] = IF s[i] \in S THEN Append(h[i - 1], s[i]) ELSE h[i - 1]
        <4>. SUFFICES ASSUME NEW i \in 1..n
                      PROVE  h[i] = IF s[i] \in S THEN Append(h[i - 1], s[i]) ELSE h[i - 1]
          OBVIOUS
        <4>1. h[i - 1] = f[i - 1]
          BY <2>3, <1>1
        <4>2. CASE i = n
          BY <4>1, <4>2, <2>3, <1>1 DEF x
        <4>3. CASE i # n
          <5>1. i \in 1..(n - 1) /\ i \in 0..n
            BY <4>3, <2>3, <1>1
          <5>2. h[i] = f[i]
            BY <4>3, <5>1
          <5>. QED  BY <4>1, <5>1, <5>2, <3>2
        <4>. QED  BY <4>2, <4>3
      <3>8. Table(h, n)
        BY <3>5, <3>6, <3>7
      <3>. QED  BY <3>8
    <2>. QED  BY <2>4, <2>5
  <1>3. PICK f : Table(f, Len(s))
    <2>1. Len(s) \in 0..Len(s)
      BY <1>1
    <2>. HIDE DEF Table
    <2>. QED  BY <1>2, <2>1
  <1>4. \A i \in 0..Len(s) : i = 0 \/ i \in 1..Len(s)
    BY <1>1
  <1>5. Filters(f, s, S)
    BY <1>1, <1>3, <1>4 DEF Filters
  <1>. QED  BY <1>3, <1>5

LEMMA TableUnique ==
  ASSUME NEW X, NEW s \in Seq(X), NEW S, NEW f, NEW g, Filters(f, s, S), Filters(g, s, S)
  PROVE  f = g
  <1>. DEFINE T == {i \in 0..Len(s) : f[i] # g[i]}
  <1>1. Len(s) \in Nat
    BY LenProperties
  <1>2. /\ DOMAIN f = 0..Len(s) /\ DOMAIN g = 0..Len(s)
        /\ f = [i \in 0..Len(s) |-> f[i]] /\ g = [i \in 0..Len(s) |-> g[i]]
        /\ f[0] = << >> /\ g[0] = << >>
        /\ \A i \in 1..Len(s) :
             /\ f[i] = IF s[i] \in S THEN Append(f[i - 1], s[i]) ELSE f[i - 1]
             /\ g[i] = IF s[i] \in S THEN Append(g[i - 1], s[i]) ELSE g[i - 1]
    <2>1. /\ DOMAIN f = 0..Len(s) /\ f = [i \in 0..Len(s) |-> f[i]]
          /\ \A i \in 0..Len(s) :
               f[i] = IF i = 0 THEN << >> ELSE IF s[i] \in S THEN Append(f[i - 1], s[i]) ELSE f[i - 1]
      BY DEF Filters
    <2>2. /\ DOMAIN g = 0..Len(s) /\ g = [i \in 0..Len(s) |-> g[i]]
          /\ \A i \in 0..Len(s) :
               g[i] = IF i = 0 THEN << >> ELSE IF s[i] \in S THEN Append(g[i - 1], s[i]) ELSE g[i - 1]
      BY DEF Filters
    <2>3. 0 \in 0..Len(s) /\ \A i \in 1..Len(s) : i \in 0..Len(s) /\ i # 0
      BY <1>1
    <2>. QED  BY <2>1, <2>2, <2>3
  <1>3. ASSUME T # {} PROVE FALSE
    <2>1. T \in SUBSET Nat
      OBVIOUS
    <2>. HIDE DEF T
    <2>2. PICK n \in T : \A m \in T : n <= m
      BY <2>1, <1>3, Least
    <2>. USE DEF T
    <2>3. n \in 1..Len(s)
      BY <1>1, <1>2
    <2>4. n - 1 \in 0..Len(s) /\ n - 1 \notin T
      BY <2>2, <2>3, <1>1
    <2>. QED  BY <2>3, <2>4, <1>2
  <1>. QED  BY <1>2, <1>3

LEMMA OnlyTable ==
  ASSUME NEW X, NEW s \in Seq(X), NEW S
  PROVE  \E f \in [0..Len(s) -> Seq(X)] : Filters(f, s, S) /\ Only(s, S) = f[Len(s)]
  <1>1. PICK f \in [0..Len(s) -> Seq(X)] : Filters(f, s, S)
    BY TableExists
  <1>2. (CHOOSE h : Filters(h, s, S)) = f
    <2>1. Filters(CHOOSE h : Filters(h, s, S), s, S)
      BY <1>1
    <2>. QED  BY <1>1, <2>1, TableUnique
  <1>. QED  BY <1>1, <1>2, OnlyDef

(* What Only does to an empty sequence and to one more entry.              *)
LEMMA OnlyEmpty ==
  ASSUME NEW S
  PROVE  Only(<< >>, S) = << >>
  <1>1. << >> \in Seq({}) /\ Len(<< >>) = 0
    BY EmptySeq
  <1>2. PICK f : Filters(f, << >>, S) /\ Only(<< >>, S) = f[0]
    BY <1>1, OnlyTable
  <1>. QED  BY <1>1, <1>2 DEF Filters

LEMMA OnlyAppend ==
  ASSUME NEW X, NEW s \in Seq(X), NEW x \in X, NEW S
  PROVE  /\ Only(s, S) \in Seq(X)
         /\ x \in S => Only(Append(s, x), S) = Append(Only(s, S), x)
         /\ x \notin S => Only(Append(s, x), S) = Only(s, S)
  <1>. DEFINE t == Append(s, x)
  <1>1. /\ Len(s) \in Nat /\ t \in Seq(X) /\ Len(t) = Len(s) + 1
        /\ \A i \in 1..Len(s) : t[i] = s[i]
        /\ t[Len(s) + 1] = x
    BY LenProperties, AppendProperties
  <1>2. PICK f \in [0..Len(s) -> Seq(X)] : Filters(f, s, S) /\ Only(s, S) = f[Len(s)]
    BY OnlyTable
  <1>3. PICK g : Filters(g, t, S) /\ Only(t, S) = g[Len(t)]
    BY <1>1, OnlyTable
  <1>. HIDE DEF t
  <1>. DEFINE h == [i \in 0..Len(s) |-> g[i]]
  <1>4. \A i \in 0..Len(s) : g[i] = IF i = 0 THEN << >>
                                    ELSE IF s[i] \in S THEN Append(g[i - 1], s[i]) ELSE g[i - 1]
    <2>. SUFFICES ASSUME NEW i \in 0..Len(s)
                  PROVE  g[i] = IF i = 0 THEN << >>
                                ELSE IF s[i] \in S THEN Append(g[i - 1], s[i]) ELSE g[i - 1]
      OBVIOUS
    <2>1. i \in 0..Len(t) /\ (i # 0 => t[i] = s[i])
      BY <1>1
    <2>. QED  BY <1>3, <2>1 DEF Filters
  <1>5. \A i \in 0..Len(s) : i # 0 => h[i - 1] = g[i - 1]
    BY <1>1
  <1>6. Filters(h, s, S)
    BY <1>4, <1>5 DEF Filters
  <1>7. h = f
    BY <1>2, <1>6, TableUnique
  <1>8. g[Len(s)] = f[Len(s)]
    BY <1>1, <1>7
  <1>9. g[Len(s) + 1] = IF x \in S THEN Append(g[Len(s)], x) ELSE g[Len(s)]
    <2>1. Len(s) + 1 \in 0..Len(t) /\ Len(s) + 1 # 0 /\ (Len(s) + 1) - 1 = Len(s)
      BY <1>1
    <2>2. g[Len(s) + 1] = IF t[Len(s) + 1] \in S THEN Append(g[(Len(s) + 1) - 1], t[Len(s) + 1])
                                                 ELSE g[(Len(s) + 1) - 1]
      BY <1>3, <2>1 DEF Filters
    <2>. QED  BY <1>1, <2>1, <2>2
  <1>10. f[Len(s)] \in Seq(X)
    BY <1>1
  <1>. QED  BY <1>1, <1>2, <1>3, <1>8, <1>9, <1>10 DEF t

(* Appending to the second of two sequences appends to both together.      *)
Across(a, b, x) == Append(a \o b, x) = a \o Append(b, x)

LEMMA AppendAcross ==
  ASSUME NEW X, NEW a \in Seq(X), NEW b \in Seq(X), NEW x \in X
  PROVE  Across(a, b, x)
  <1>. DEFINE ab == a \o b
              e == <<x>>
  <1>1. ab \in Seq(X) /\ e \in Seq(X)
    BY ConcatProperties
  <1>2. ab \o e = a \o (b \o e)
    <2>. HIDE DEF e
    <2>. QED  BY <1>1, ConcatAssociative
  <1>. HIDE DEF ab
  <1>3. Append(ab, x) = ab \o e /\ Append(b, x) = b \o e
    BY <1>1, AppendIsConcat
  <1>4. Append(ab, x) = a \o Append(b, x)
    BY <1>2, <1>3
  <1>. QED  BY <1>4 DEF ab, Across

(* What Only does to the first entry: another induction, over the length.  *)
First(s, S) == IF Head(s) \in S THEN <<Head(s)>> ELSE << >>

LEMMA OnlyFirst ==
  ASSUME NEW X, NEW S
  PROVE  \A s \in Seq(X) : s # << >> => Only(s, S) = First(s, S) \o Only(Tail(s), S)
  <1>. DEFINE P(s) == Only(s, S) = First(s, S) \o Only(Tail(s), S)
              Wrong(n) == \E s \in Seq(X) : Len(s) = n /\ s # << >> /\ ~P(s)
              T == {n \in Nat : Wrong(n)}
  <1>1. T = {}
    <2>. SUFFICES ASSUME T # {} PROVE FALSE
      OBVIOUS
    <2>. HIDE DEF Wrong
    <2>1. T \in SUBSET Nat
      OBVIOUS
    <2>2. PICK n \in Nat : Wrong(n) /\ \A m \in Nat : Wrong(m) => n <= m
      <3>1. PICK n \in T : \A m \in T : n <= m
        BY <2>1, Least
      <3>. QED  BY <3>1
    <2>. HIDE DEF P, T
    <2>3. PICK s \in Seq(X) : Len(s) = n /\ s # << >> /\ ~P(s)
      BY <2>2 DEF Wrong
    <2>4. PICK f \in Seq(X), x \in X : s = Append(f, x)
      BY <2>3, SequenceEmptyOrAppend
    <2>5. /\ Len(f) \in Nat /\ n = Len(f) + 1
          /\ Head(s) = IF f = << >> THEN x ELSE Head(f)
          /\ Tail(s) = IF f = << >> THEN << >> ELSE Append(Tail(f), x)
      BY <2>3, <2>4, AppendProperties, HeadTailAppend, LenProperties
    <2>6. /\ Only(f, S) \in Seq(X)
          /\ Only(s, S) = IF x \in S THEN Append(Only(f, S), x) ELSE Only(f, S)
      <3>1. /\ Only(f, S) \in Seq(X)
            /\ x \in S => Only(Append(f, x), S) = Append(Only(f, S), x)
            /\ x \notin S => Only(Append(f, x), S) = Only(f, S)
        BY OnlyAppend
      <3>. QED  BY <2>4, <3>1
    <2>7. CASE f = << >>
      <3>1. Only(f, S) = << >> /\ Only(Tail(s), S) = << >> /\ Head(s) = x
        BY <2>5, <2>7, OnlyEmpty
      <3>2. Append(<< >>, x) = <<x>> /\ << >> \o << >> = << >> /\ <<x>> \o << >> = <<x>>
        OBVIOUS
      <3>3. P(s)
        BY <2>6, <3>1, <3>2 DEF P, First
      <3>. QED  BY <2>3, <3>3
    <2>8. CASE f # << >>
      <3>1. P(f)
        <4>1. ~Wrong(Len(f))
          BY <2>2, <2>5
        <4>. QED  BY <2>8, <4>1 DEF Wrong
      <3>2. Tail(f) \in Seq(X) /\ Head(s) = Head(f) /\ Tail(s) = Append(Tail(f), x) /\ Head(f) \in X
        BY <2>5, <2>8, HeadTailProperties
      <3>3. /\ Only(Tail(f), S) \in Seq(X)
            /\ Only(Tail(s), S) = IF x \in S THEN Append(Only(Tail(f), S), x) ELSE Only(Tail(f), S)
        <4>. DEFINE u == Tail(f)
        <4>1. u \in Seq(X)
          BY <3>2
        <4>. HIDE DEF u
        <4>2. /\ Only(u, S) \in Seq(X)
              /\ x \in S => Only(Append(u, x), S) = Append(Only(u, S), x)
              /\ x \notin S => Only(Append(u, x), S) = Only(u, S)
          BY SMTT(30), <4>1, OnlyAppend
        <4>. QED  BY <3>2, <4>2 DEF u
      <3>4. First(s, S) = First(f, S) /\ First(f, S) \in Seq(X)
        BY <3>2, EmptySeq DEF First
      <3>5. Append(First(f, S) \o Only(Tail(f), S), x) = First(f, S) \o Append(Only(Tail(f), S), x)
        <4>. DEFINE a == First(f, S)
                    b == Only(Tail(f), S)
        <4>1. a \in Seq(X) /\ b \in Seq(X)
          BY <3>3, <3>4
        <4>. HIDE DEF a, b
        <4>2. Across(a, b, x)
          BY <4>1, AppendAcross
        <4>. QED  BY <4>2 DEF a, b, Across
      <3>6. P(s)
        BY <2>6, <3>1, <3>3, <3>4, <3>5 DEF P
      <3>. QED  BY <2>3, <3>6
    <2>. QED  BY <2>7, <2>8
  <1>2. ASSUME NEW s \in Seq(X), s # << >> PROVE P(s)
    <2>1. Len(s) \in Nat
      BY LenProperties
    <2>. HIDE DEF P
    <2>. QED  BY <1>1, <1>2, <2>1
  <1>. QED  BY <1>2

LEMMA OnlyTail ==
  ASSUME NEW X, NEW s \in Seq(X), s # << >>, NEW S
  PROVE  /\ Only(s, S) \in Seq(X) /\ Only(Tail(s), S) \in Seq(X)
         /\ Head(s) \notin S => Only(Tail(s), S) = Only(s, S)
         /\ Head(s) \in S => /\ Only(s, S) = <<Head(s)>> \o Only(Tail(s), S)
                             /\ Only(s, S) # << >> /\ Tail(Only(s, S)) = Only(Tail(s), S)
  <1>1. Head(s) \in X /\ Tail(s) \in Seq(X)
    BY HeadTailProperties
  <1>2. Only(s, S) \in Seq(X) /\ Only(Tail(s), S) \in Seq(X)
    BY <1>1, OnlyTable, LenProperties, OnlyAppend
  <1>3. Only(s, S) = First(s, S) \o Only(Tail(s), S)
    BY OnlyFirst
  <1>. DEFINE t == Only(Tail(s), S)
              h == Head(s)
  <1>4. t \in Seq(X) /\ h \in X
    BY <1>1, <1>2
  <1>. HIDE DEF t, h
  <1>5. << >> \o t = t /\ <<h>> \o t # << >> /\ Tail(<<h>> \o t) = t
    <2>1. << >> \o t = t
      BY <1>4, ConcatEmptySeq
    <2>2. /\ <<h>> \o t \in Seq(X) /\ Len(<<h>> \o t) = 1 + Len(t) /\ Len(t) \in Nat
          /\ \A i \in 1..1 + Len(t) : (<<h>> \o t)[i] = IF i <= 1 THEN <<h>>[i] ELSE t[i - 1]
      BY <1>4, ConcatProperties, LenProperties
    <2>3. <<h>> \o t # << >>
      BY <2>2, EmptySeq
    <2>4. /\ Tail(<<h>> \o t) \in Seq(X) /\ Len(Tail(<<h>> \o t)) = Len(t)
          /\ \A i \in 1..Len(t) : Tail(<<h>> \o t)[i] = (<<h>> \o t)[i + 1]
      BY <2>2, <2>3, HeadTailProperties
    <2>5. \A i \in 1..Len(t) : Tail(<<h>> \o t)[i] = t[i]
      BY <2>2, <2>4
    <2>6. Tail(<<h>> \o t) = t
      BY <1>4, <2>4, <2>5, SeqEqual
    <2>. QED  BY <2>1, <2>3, <2>6
  <1>. QED  BY <1>2, <1>3, <1>5 DEF First, t, h

-----------------------------------------------------------------------------
(***************************************************************************)
(* Types.                                                                  *)
(***************************************************************************)
LEMMA Configuration ==
  /\ \A w \in Workers : /\ AgentOf[w] \in Agents
                        /\ w \notin LocalWorkers => AgentOf[w] \in RemoteAgents
                        /\ w \in LocalWorkers <=> AgentOf[w] = PrimaryAgent
  /\ \A a \in Activities : WorkerOf[a] \in Workers /\ AgentOf[WorkerOf[a]] \in Agents
  /\ RemoteAgents \subseteq Agents \ {PrimaryAgent} /\ PrimaryAgent \in Agents
  /\ \A g \in Agents : g # PrimaryAgent => g \in RemoteAgents
  /\ \A g : WorkersOf(g) \subseteq Workers /\ \A w \in WorkersOf(g) : AgentOf[w] = g
  /\ LocalWorkers \subseteq Workers /\ LocalWorkers = WorkersOf(PrimaryAgent)
  /\ Workers \subseteq Nat /\ Agents \subseteq Nat /\ Activities \subseteq Nat
  /\ RelayChannel \notin Workers /\ RelayChannel \notin Agents /\ RelayChannel \in Nat
  /\ LocalChannels \subseteq Nat
  <1>. USE RelayAssumption
  <1>1. \A w \in Workers : AgentOf[w] \in Agents /\ w \in Nat /\ w # 0
    OBVIOUS
  <1>2. \A a \in Activities : WorkerOf[a] \in Workers
    OBVIOUS
  <1>3. RemoteAgents = Agents \ {PrimaryAgent}
    BY <1>1 DEF RemoteAgents
  <1>4. 0 \notin Workers /\ 0 \notin Agents /\ Workers \subseteq Nat /\ Agents \subseteq Nat
    OBVIOUS
  <1>5. \A g : WorkersOf(g) \subseteq Workers /\ \A w \in WorkersOf(g) : AgentOf[w] = g
    BY DEF WorkersOf
  <1>6. LocalWorkers = WorkersOf(PrimaryAgent)
    BY DEF LocalWorkers
  <1>7. \A w \in Workers : /\ w \notin LocalWorkers => AgentOf[w] \in RemoteAgents
                           /\ w \in LocalWorkers <=> AgentOf[w] = PrimaryAgent
    BY <1>1, <1>3, <1>6 DEF WorkersOf
  <1>8. LocalChannels \subseteq Nat
    <2>1. LocalWorkers \subseteq Nat
      BY <1>4 DEF LocalWorkers, WorkersOf
    <2>2. {RelayChannel} \subseteq Nat
      BY DEF RelayChannel
    <2>. QED  BY <2>1, <2>2 DEF LocalChannels
  <1>. QED  BY <1>1, <1>2, <1>3, <1>4, <1>5, <1>6, <1>7, <1>8 DEF RelayChannel

LEMMA SignalTypes ==
  /\ \A n \in Nat : /\ Activity(n) \in Signals /\ Ready(n) \in Signals
                    /\ TerminateAck(n) \in Signals /\ Connect(n) \in Signals
                    /\ ChannelHello(n) \in Signals
  /\ Terminate \in Signals /\ StartupSync \in Signals
  /\ \A sig \in Signals : sig.id \in Nat
  BY DEF Signals, Activity, Ready, TerminateAck, Connect, ChannelHello, Terminate, StartupSync

LEMMA QueueTypes ==
  /\ << >> \in Seq(Signals)
  /\ \A s \in Seq(Signals) : /\ \A x \in Signals : Append(s, x) \in Seq(Signals)
                             /\ s # << >> => Head(s) \in Signals /\ Tail(s) \in Seq(Signals)
  BY EmptySeq, AppendProperties, HeadTailProperties

LEMMA TypeInit == Init => TypeOK
  <1>. SUFFICES ASSUME Init PROVE TypeOK
    OBVIOUS
  <1>1. missing \in [Agents \cup {RelayChannel} -> SUBSET Nat]
    BY Configuration DEF Init, Expected
  <1>. QED  BY <1>1, QueueTypes, SMT
         DEF Init, TypeOK, NewChannels, PrimaryInit, SecondaryInit

LEMMA TypeEnds ==
  ASSUME TypeOK, NEW g \in Agents, ProcessEnds(g)
  PROVE  /\ worker' \in [Workers -> {"start", "await", "run", "linger", "gone"}]
         /\ workerQ' \in [Workers -> Seq(Signals)]
         /\ inbox' \in Seq(Signals) /\ hello' \subseteq RemoteAgents
         /\ sockUp' \in [RemoteAgents -> Seq(Signals)]
         /\ agentQ' \in [RemoteAgents -> Seq(Signals)]
         /\ sockDown' \in [RemoteAgents -> Seq(Signals)]
  BY ZenonT(40), QueueTypes DEF TypeOK, ProcessEnds

LEMMA TypePrimaryEnds ==
  ASSUME TypeOK, NEW how \in {"failed", "exited"}, PrimaryEnds(how)
  PROVE  TypeOK'
  BY TypeEnds, Configuration DEF TypeOK, PrimaryEnds, secondaryVars

(* The helpers of RelayChannels.                                           *)
LEMMA TypeHelpers ==
  ASSUME TypeOK
  PROVE  /\ \A g \in RemoteAgents, sig \in Signals :
              SendToAgent(g, sig) => sockDown' \in [RemoteAgents -> Seq(Signals)]
         /\ \A w \in Workers, sig \in Signals :
              SendToWorker(w, sig) => workerQ' \in [Workers -> Seq(Signals)]
         /\ \A g \in RemoteAgents, sig \in Signals :
              SendToPrimary(g, sig) => sockUp' \in [RemoteAgents -> Seq(Signals)]
         /\ \A ws : ConnectReceivers(ws) => workerQ' \in [Workers -> Seq(Signals)]
         /\ \A ws, sig : sig \in Signals /\ BroadcastToWorkers(ws, sig) =>
              workerQ' \in [Workers -> Seq(Signals)]
         /\ \A g \in Agents : \A q, c : ConnectSender(g, q, c) =>
              q # << >> /\ missing' \in [Agents \cup {RelayChannel} -> SUBSET Nat]
  <1>. USE Configuration, QueueTypes, SignalTypes DEF TypeOK
  <1>1. \A g \in RemoteAgents, sig \in Signals :
          SendToAgent(g, sig) => sockDown' \in [RemoteAgents -> Seq(Signals)]
    BY DEF SendToAgent
  <1>2. \A w \in Workers, sig \in Signals :
          SendToWorker(w, sig) => workerQ' \in [Workers -> Seq(Signals)]
    BY DEF SendToWorker
  <1>3. \A g \in RemoteAgents, sig \in Signals :
          SendToPrimary(g, sig) => sockUp' \in [RemoteAgents -> Seq(Signals)]
    BY DEF SendToPrimary
  <1>4. ASSUME NEW ws, ConnectReceivers(ws) PROVE workerQ' \in [Workers -> Seq(Signals)]
    <2>1. \A w \in Workers : Append(workerQ[w], Connect(w)) \in Seq(Signals)
      OBVIOUS
    <2>. QED  BY <1>4, <2>1 DEF ConnectReceivers
  <1>5. ASSUME NEW ws, NEW sig \in Signals, BroadcastToWorkers(ws, sig)
        PROVE  workerQ' \in [Workers -> Seq(Signals)]
    BY <1>5 DEF BroadcastToWorkers
  <1>6. ASSUME NEW g \in Agents, NEW q, NEW c, ConnectSender(g, q, c)
        PROVE  q # << >> /\ missing' \in [Agents \cup {RelayChannel} -> SUBSET Nat]
    <2>1. PICK left \in SUBSET missing[g] : missing' = [missing EXCEPT ![g] = left] /\ q # << >>
      BY <1>6 DEF ConnectSender
    <2>. QED  BY <2>1
  <1>. QED  BY <1>1, <1>2, <1>3, <1>4, <1>5, <1>6

LEMMA TypePrimary ==
  ASSUME TypeOK, PrimaryMain \/ ReceiveRelayThread \/ StartTerminate \/ PrimaryKilled
  PROVE  TypeOK'
  <1>. USE Configuration, QueueTypes, SignalTypes
       DEF TypeOK, primaryVars, secondaryVars, channelVars, workerVars
  <1>1. CASE SpawnReceiveRelay
    BY <1>1 DEF SpawnReceiveRelay, IfRemote
  <1>2. CASE ConnectLocalSenders
    BY <1>2, TypeHelpers DEF ConnectLocalSenders
  <1>3. CASE ConnectTimesOut
    BY <1>3, TypePrimaryEnds DEF ConnectTimesOut
  <1>4. CASE ConnectLocalWorkers
    <2>1. CASE PrimaryEnds("failed")
      BY <2>1, TypePrimaryEnds
    <2>2. CASE ~PrimaryEnds("failed")
      BY <1>4, <2>2, TypeHelpers DEF ConnectLocalWorkers, IfRemote
    <2>. QED  BY <2>1, <2>2
  <1>5. CASE Receive
    BY <1>5 DEF Receive
  <1>6. CASE BroadcastLocal
    BY <1>6, TypeHelpers DEF BroadcastLocal, IfRemote
  <1>7. CASE AckTimeout
    BY <1>7 DEF AckTimeout
  <1>8. CASE JoinWorkers
    <2>1. CASE PrimaryEnds("exited")
      BY <2>1, TypePrimaryEnds
    <2>2. CASE ~PrimaryEnds("exited")
      BY <1>8, <2>2 DEF JoinWorkers
    <2>. QED  BY <2>1, <2>2
  <1>9. CASE JoinRelay
    BY <1>9, TypePrimaryEnds DEF JoinRelay
  <1>10. ASSUME NEW g \in RemoteAgents, ConnectAgent(g) PROVE TypeOK'
    BY <1>10 DEF ConnectAgent
  <1>11. ASSUME NEW g \in RemoteAgents, SyncTime(g) PROVE TypeOK'
    <2>1. CASE PrimaryEnds("failed")
      BY <2>1, TypePrimaryEnds
    <2>2. CASE ~PrimaryEnds("failed")
      BY <1>11, <2>2, TypeHelpers DEF SyncTime
    <2>. QED  BY <2>1, <2>2
  <1>12. ASSUME NEW g \in RemoteAgents, BroadcastRemote(g) PROVE TypeOK'
    BY <1>12, TypeHelpers DEF BroadcastRemote
  <1>13. CASE AcceptTimesOut
    BY <1>13 DEF AcceptTimesOut
  <1>14. CASE ConnectToScheduler
    BY <1>14 DEF ConnectToScheduler
  <1>15. CASE ReceiveRelayEnds
    BY <1>15 DEF ReceiveRelayEnds
  <1>16. ASSUME NEW g \in RemoteAgents, AcceptAgent(g) PROVE TypeOK'
    BY <1>16 DEF AcceptAgent
  <1>17. ASSUME NEW g \in RemoteAgents, RelayToScheduler(g) PROVE TypeOK'
    BY <1>17 DEF RelayToScheduler
  <1>18. CASE StartTerminate
    BY <1>18 DEF StartTerminate, IfRemote
  <1>19. CASE PrimaryKilled
    BY <1>19, TypePrimaryEnds DEF PrimaryKilled
  <1>. QED  BY <1>1, <1>2, <1>3, <1>4, <1>5, <1>6, <1>7, <1>8, <1>9, <1>10, <1>11, <1>12, <1>13,
               <1>14, <1>15, <1>16, <1>17, <1>18, <1>19 DEF PrimaryMain, ReceiveRelayThread

LEMMA TypeSecondaryEnds ==
  ASSUME TypeOK, NEW g \in RemoteAgents, SecondaryEnds(g),
         crashed' \in {crashed, crashed \cup WorkersOf(g)}
  PROVE  TypeOK'
  BY TypeEnds, Configuration DEF TypeOK, SecondaryEnds, primaryVars

LEMMA TypeSecondary ==
  ASSUME TypeOK, NEW g \in RemoteAgents,
         SecondaryMain(g) \/ SecondaryReceiveRelay(g) \/ SecondaryKilled(g)
  PROVE  TypeOK'
  <1>. USE Configuration, QueueTypes, SignalTypes
       DEF TypeOK, primaryVars, secondaryVars, channelVars, workerVars
  <1>1. CASE ConnectAgentSenders(g)
    <2>1. agentQ[g] # << >> /\ missing' \in [Agents \cup {RelayChannel} -> SUBSET Nat]
      BY <1>1, TypeHelpers DEF ConnectAgentSenders
    <2>. QED  BY <1>1, <2>1 DEF ConnectAgentSenders
  <1>2. CASE ConnectSendersTimesOut(g)
    BY <1>2, TypeSecondaryEnds DEF ConnectSendersTimesOut
  <1>3. CASE ConnectUp(g)
    <2>1. <<ChannelHello(g)>> \in Seq(Signals)
      OBVIOUS
    <2>. QED  BY <1>3, <2>1 DEF ConnectUp
  <1>4. CASE ForwardToPrimary(g)
    <2>1. Head(agentQ[g]) \in Signals /\ agentQ' \in [RemoteAgents -> Seq(Signals)]
      BY <1>4 DEF ForwardToPrimary
    <2>2. sockUp' \in [RemoteAgents -> Seq(Signals)]
      BY <1>4, <2>1, TypeHelpers DEF ForwardToPrimary
    <2>. QED  BY ZenonT(40), <1>4, <2>1, <2>2 DEF ForwardToPrimary
  <1>5. CASE SendRelayEnds(g)
    BY <1>5 DEF SendRelayEnds
  <1>6. CASE JoinAndExit(g)
    BY <1>6, TypeSecondaryEnds DEF JoinAndExit
  <1>7. CASE ConnectWorkers(g)
    <2>1. workerQ' \in [Workers -> Seq(Signals)]
      BY <1>7, TypeHelpers DEF ConnectWorkers
    <2>2. /\ ipc_to_local' \in {[ipc_to_local EXCEPT ![g] = "inter"],
                               [ipc_to_local EXCEPT ![g] = "ended"]}
          /\ UNCHANGED <<primaryVars, local_to_ipc, inbox, sockDown, sockUp, agentQ,
                         hello, missing, workerVars>>
      BY <1>7 DEF ConnectWorkers
    <2>. QED  BY <2>1, <2>2
  <1>8. CASE ConnectDown(g)
    BY <1>8 DEF ConnectDown
  <1>9. CASE WaitStartupSync(g)
    <2>1. sockDown' \in [RemoteAgents -> Seq(Signals)]
      BY <1>9 DEF WaitStartupSync, TakeDown
    <2>2. /\ synced' \subseteq synced \cup {g}
          /\ ipc_to_local' \in {ipc_to_local, [ipc_to_local EXCEPT ![g] = "run"]}
          /\ UNCHANGED <<primaryVars, local_to_ipc, inbox, sockUp, workerQ, agentQ,
                         hello, missing, worker, crashed>>
      BY <1>9 DEF WaitStartupSync
    <2>3. synced' \subseteq Agents
      BY <2>2
    <2>4. ipc_to_local' \in [RemoteAgents -> {"intra", "inter", "sync", "run", "ended"}]
      BY <2>2
    <2>. QED  BY <2>1, <2>2, <2>3, <2>4
  <1>10. CASE ForwardToWorker(g)
    <2>1. Head(sockDown[g]) \in Signals /\ sockDown' \in [RemoteAgents -> Seq(Signals)]
      BY <1>10 DEF ForwardToWorker, TakeDown
    <2>2. workerQ' \in [Workers -> Seq(Signals)]
      BY <1>10, <2>1 DEF ForwardToWorker, SendToWorker
    <2>. QED  BY <1>10, <2>1, <2>2 DEF ForwardToWorker
  <1>11. CASE ForwardBroadcast(g)
    <2>1. Head(sockDown[g]) \in Signals /\ sockDown' \in [RemoteAgents -> Seq(Signals)]
      BY <1>11 DEF ForwardBroadcast, TakeDown
    <2>2. workerQ' \in [Workers -> Seq(Signals)]
      BY <1>11, <2>1, TypeHelpers DEF ForwardBroadcast
    <2>. QED  BY <1>11, <2>1, <2>2 DEF ForwardBroadcast
  <1>12. CASE LosePrimary(g)
    BY <1>12 DEF LosePrimary
  <1>13. CASE SecondaryKilled(g)
    BY <1>13, TypeSecondaryEnds DEF SecondaryKilled
  <1>. QED  BY <1>1, <1>2, <1>3, <1>4, <1>5, <1>6, <1>7, <1>8, <1>9, <1>10, <1>11, <1>12, <1>13
            DEF SecondaryMain, SecondaryReceiveRelay

LEMMA TypeSend ==
  ASSUME TypeOK, NEW w \in Workers, NEW sig \in Signals, SendFromWorker(w, sig)
  PROVE  inbox' \in Seq(Signals) /\ agentQ' \in [RemoteAgents -> Seq(Signals)]
  <1>1. CASE AgentOf[w] = PrimaryAgent
    BY <1>1, QueueTypes DEF TypeOK, SendFromWorker
  <1>2. CASE AgentOf[w] # PrimaryAgent
    <2>1. AgentOf[w] \in RemoteAgents
      BY <1>2, Configuration
    <2>2. /\ agentQ' = [agentQ EXCEPT ![AgentOf[w]] = Append(@, sig)] /\ inbox' = inbox
          /\ agentQ \in [RemoteAgents -> Seq(Signals)] /\ inbox \in Seq(Signals)
      BY <1>2 DEF SendFromWorker, TypeOK
    <2>3. Append(agentQ[AgentOf[w]], sig) \in Seq(Signals)
      BY <2>1, <2>2, QueueTypes
    <2>. QED  BY <2>2, <2>3
  <1>. QED  BY <1>1, <1>2

LEMMA TypeWorker ==
  ASSUME TypeOK, NEW w \in Workers, WorkerThread(w)
  PROVE  TypeOK'
  <1>. USE Configuration, QueueTypes, SignalTypes
       DEF TypeOK, primaryVars, secondaryVars, channelVars, workerVars
  <1>1. CASE WorkerConnects(w)
    <2>1. Connect(w) \in Signals
      OBVIOUS
    <2>. QED  BY <1>1, <2>1, TypeSend DEF WorkerConnects
  <1>2. CASE WorkerConnected(w)
    BY <1>2 DEF WorkerConnected
  <1>3. CASE WorkerConnectFails(w)
    BY <1>3 DEF WorkerConnectFails
  <1>4. CASE RunActivity(w)
    <2>1. Ready(Head(workerQ[w]).id) \in Signals
      BY <1>4 DEF RunActivity
    <2>2. inbox' \in Seq(Signals) /\ agentQ' \in [RemoteAgents -> Seq(Signals)]
      BY <1>4, <2>1, TypeSend DEF RunActivity
    <2>. QED  BY <1>4, <2>2 DEF RunActivity
  <1>5. CASE RunTerminate(w)
    <2>1. TerminateAck(AgentOf[w]) \in Signals
      OBVIOUS
    <2>2. inbox' \in Seq(Signals) /\ agentQ' \in [RemoteAgents -> Seq(Signals)]
      BY <1>5, <2>1, TypeSend DEF RunTerminate
    <2>. QED  BY <1>5, <2>2 DEF RunTerminate
  <1>6. CASE WorkerExits(w)
    BY <1>6 DEF WorkerExits
  <1>. QED  BY <1>1, <1>2, <1>3, <1>4, <1>5, <1>6 DEF WorkerThread

LEMMA TypeSendToActivity ==
  ASSUME TypeOK, NEW a \in Activities, SendToActivity(a)
  PROVE  TypeOK'
  <1>1. CASE PrimaryEnds("failed")
    BY <1>1, TypePrimaryEnds
  <1>2. CASE ~PrimaryEnds("failed")
    <2>. PICK w \in Workers : w = WorkerOf[a]
      BY Configuration
    <2>1. Activity(a) \in Signals
      BY Configuration, SignalTypes
    <2>2. /\ \/ w \in LocalWorkers /\ SendToWorker(w, Activity(a)) /\ UNCHANGED sockDown
             \/ w \notin LocalWorkers /\ SendToAgent(AgentOf[w], Activity(a)) /\ UNCHANGED workerQ
          /\ sent' = sent + 1
          /\ UNCHANGED <<pc, receiveRelay, todo, secondaryVars, inbox, sockUp,
                         agentQ, hello, missing, workerVars>>
      BY <1>2 DEF SendToActivity
    <2>3. /\ sockDown' \in [RemoteAgents -> Seq(Signals)]
          /\ workerQ' \in [Workers -> Seq(Signals)]
      BY <2>1, <2>2, TypeHelpers, Configuration DEF TypeOK
    <2>. QED  BY <2>2, <2>3 DEF TypeOK, secondaryVars, workerVars
  <1>. QED  BY <1>1, <1>2

LEMMA TypeStep == TypeOK /\ [Next]_vars => TypeOK'
  <1>. SUFFICES ASSUME TypeOK, [Next]_vars PROVE TypeOK'
    OBVIOUS
  <1>1. CASE UNCHANGED vars
    BY <1>1 DEF vars, TypeOK, primaryVars, secondaryVars, channelVars, workerVars
  <1>. QED  BY <1>1, TypePrimary, TypeSecondary, TypeWorker, TypeSendToActivity DEF Next

-----------------------------------------------------------------------------
(***************************************************************************)
(* Addressed: what a step does to a queue.                                 *)
(***************************************************************************)
Moves(new, old, S) ==
  \/ new = old \/ new = << >>
  \/ old # << >> /\ new = Tail(old)
  \/ \E x \in S : new = Append(old, x) \/ new = <<x>>

LEMMA RangeMoves ==
  ASSUME NEW old \in Seq(Signals), NEW new, NEW S, NEW B,
         Moves(new, old, S), Range(old) \subseteq B, S \subseteq B, B \subseteq Signals
  PROVE  Range(new) \subseteq B
  <1>. USE DEF Range
  <1>1. CASE new = << >>
    BY <1>1, EmptySeq
  <1>2. CASE old # << >> /\ new = Tail(old)
    <2>1. /\ Len(old) \in Nat /\ DOMAIN old = 1..Len(old)
          /\ DOMAIN new = 1..(Len(old) - 1)
          /\ \A i \in 1..(Len(old) - 1) : new[i] = old[i + 1]
      BY <1>2, HeadTailProperties, LenProperties
    <2>. QED  BY <2>1
  <1>3. ASSUME NEW x \in S, new = Append(old, x) PROVE Range(new) \subseteq B
    <2>1. /\ Len(old) \in Nat /\ DOMAIN old = 1..Len(old) /\ DOMAIN new = 1..(Len(old) + 1)
          /\ \A i \in 1..Len(old) : new[i] = old[i]
          /\ new[Len(old) + 1] = x
      BY <1>3, AppendProperties, LenProperties
    <2>2. \A i \in 1..(Len(old) + 1) : i \in 1..Len(old) \/ i = Len(old) + 1
      BY <2>1
    <2>. QED  BY <2>1, <2>2
  <1>4. ASSUME NEW x \in S, new = <<x>> PROVE Range(new) \subseteq B
    BY <1>4
  <1>. QED  BY <1>1, <1>2, <1>3, <1>4 DEF Moves

LEMMA HeadInRange ==
  ASSUME NEW s \in Seq(Signals), s # << >>
  PROVE  Head(s) \in Range(s)
  BY HeadTailProperties, LenProperties, EmptySeq DEF Range

(* The sets of Addressed only grow.                                        *)
Later == /\ pc \notin Starting => pc' \notin Starting
         /\ synced \subseteq synced'

LEMMA SetsGrow ==
  ASSUME Later
  PROVE  /\ \A g \in RemoteAgents : /\ DownSet(g) \subseteq DownSet(g)'
                                    /\ UpSet(g) \subseteq UpSet(g)'
                                    /\ AgentSet(g) \subseteq AgentSet(g)'
         /\ \A w \in Workers : WorkSet(w) \subseteq WorkSet(w)'
         /\ InSet \subseteq InSet'
  BY DEF Later, DownSet, UpSet, AgentSet, WorkSet, InSet

SetsTyped ==
  /\ \A g \in Agents : From(g) \subseteq Signals
  /\ \A w \in Workers : For(w) \subseteq Signals
  /\ \A g \in RemoteAgents : /\ DownSet(g) \subseteq Signals
                             /\ UpSet(g) \subseteq Signals
                             /\ AgentSet(g) \subseteq Signals
  /\ \A w \in Workers : WorkSet(w) \subseteq Signals
  /\ InSet \subseteq Signals

LEMMA SetTypes == SetsTyped
  <1>. USE Configuration, SignalTypes
  <1>1. \A g \in Agents : From(g) \subseteq Signals
    BY DEF From
  <1>2. \A w \in Workers : For(w) \subseteq Signals
    BY DEF For
  <1>3. ASSUME NEW g \in RemoteAgents
        PROVE  /\ DownSet(g) \subseteq Signals
               /\ UpSet(g) \subseteq Signals
               /\ AgentSet(g) \subseteq Signals
    <2>1. g \in Agents /\ g \in Nat /\ \A w \in WorkersOf(g) : w \in Workers /\ w \in Nat
      OBVIOUS
    <2>2. \A w \in WorkersOf(g) : For(w) \subseteq Signals /\ Connect(w) \in Signals
      BY <1>2, <2>1
    <2>3. From(g) \subseteq Signals
      BY <1>1, <2>1
    <2>4. DownSet(g) \subseteq Signals
      BY <2>1, <2>2 DEF DownSet
    <2>5. UpSet(g) \subseteq Signals
      BY <2>1, <2>3 DEF UpSet
    <2>6. AgentSet(g) \subseteq Signals
      BY <2>2, <2>3 DEF AgentSet
    <2>. QED  BY <2>4, <2>5, <2>6
  <1>4. ASSUME NEW w \in Workers PROVE WorkSet(w) \subseteq Signals
    <2>1. Connect(w) \in Signals
      OBVIOUS
    <2>. QED  BY <1>2, <2>1 DEF WorkSet
  <1>5. InSet \subseteq Signals
    BY <1>1 DEF InSet
  <1>. QED  BY <1>1, <1>2, <1>3, <1>4, <1>5 DEF SetsTyped

QueuesMove ==
  /\ \A g \in RemoteAgents : /\ Moves(sockDown'[g], sockDown[g], DownSet(g)')
                             /\ Moves(sockUp'[g], sockUp[g], UpSet(g)')
                             /\ Moves(agentQ'[g], agentQ[g], AgentSet(g)')
  /\ \A w \in Workers : Moves(workerQ'[w], workerQ[w], WorkSet(w)')
  /\ Moves(inbox', inbox, InSet')

LEMMA AddressedMoves ==
  ASSUME TypeOK, Addressed, Later, QueuesMove
  PROVE  Addressed'
  <1>0. SetsTyped'
    BY SetTypes, PTL
  <1>1. ASSUME NEW g \in RemoteAgents
        PROVE  /\ Range(sockDown'[g]) \subseteq DownSet(g)'
               /\ Range(sockUp'[g]) \subseteq UpSet(g)'
               /\ Range(agentQ'[g]) \subseteq AgentSet(g)'
    <2>1. /\ sockDown[g] \in Seq(Signals) /\ sockUp[g] \in Seq(Signals) /\ agentQ[g] \in Seq(Signals)
      BY DEF TypeOK
    <2>2. /\ DownSet(g)' \subseteq Signals /\ UpSet(g)' \subseteq Signals /\ AgentSet(g)' \subseteq Signals
      BY <1>0 DEF SetsTyped
    <2>3. /\ Range(sockDown[g]) \subseteq DownSet(g)' /\ Range(sockUp[g]) \subseteq UpSet(g)'
          /\ Range(agentQ[g]) \subseteq AgentSet(g)'
      BY SetsGrow DEF Addressed
    <2>. QED  BY <2>1, <2>2, <2>3, RangeMoves DEF QueuesMove
  <1>2. ASSUME NEW w \in Workers PROVE Range(workerQ'[w]) \subseteq WorkSet(w)'
    <2>1. WorkSet(w)' \subseteq Signals
      BY <1>0 DEF SetsTyped
    <2>2. /\ workerQ[w] \in Seq(Signals) /\ Range(workerQ[w]) \subseteq WorkSet(w)'
          /\ Moves(workerQ'[w], workerQ[w], WorkSet(w)')
      BY SetsGrow DEF QueuesMove, Addressed, TypeOK
    <2>. QED  BY <2>1, <2>2, RangeMoves
  <1>3. Range(inbox') \subseteq InSet'
    <2>1. InSet' \subseteq Signals
      BY <1>0 DEF SetsTyped
    <2>. QED  BY <2>1, SetsGrow, RangeMoves DEF QueuesMove, Addressed, TypeOK
  <1>. QED  BY <1>1, <1>2, <1>3 DEF Addressed

LEMMA LaterStep == TypeOK /\ [Next]_vars => Later
  <1>. SUFFICES ASSUME TypeOK, [Next]_vars PROVE Later
    OBVIOUS
  <1>. USE DEF Later, Starting, Early, primaryVars, secondaryVars, channelVars, workerVars
  <1>1. CASE UNCHANGED vars
    BY <1>1 DEF vars
  <1>2. ASSUME NEW how \in {"failed", "exited"}, PrimaryEnds(how) PROVE Later
    BY <1>2 DEF PrimaryEnds
  <1>3. CASE PrimaryMain
    BY <1>2, <1>3
       DEF PrimaryMain, SpawnReceiveRelay, ConnectLocalSenders, ConnectTimesOut, ConnectLocalWorkers,
           Receive, BroadcastLocal, AckTimeout, JoinWorkers, JoinRelay, ConnectAgent, SyncTime,
           BroadcastRemote, IfRemote
  <1>4. CASE ReceiveRelayThread
    BY <1>4 DEF ReceiveRelayThread, AcceptTimesOut, ConnectToScheduler, ReceiveRelayEnds,
                AcceptAgent, RelayToScheduler
  <1>5. CASE StartTerminate
    BY <1>5 DEF StartTerminate, IfRemote
  <1>6. ASSUME NEW a \in Activities, SendToActivity(a) PROVE Later
    BY <1>2, <1>6 DEF SendToActivity
  <1>7. ASSUME NEW g \in RemoteAgents, SecondaryMain(g) PROVE Later
    BY <1>7 DEF SecondaryMain, ConnectAgentSenders, ConnectSendersTimesOut, ConnectUp,
                ForwardToPrimary, SendRelayEnds, JoinAndExit, SecondaryEnds
  <1>8. ASSUME NEW g \in RemoteAgents, SecondaryReceiveRelay(g) PROVE Later
    BY <1>8 DEF SecondaryReceiveRelay, ConnectWorkers, ConnectDown, WaitStartupSync,
                ForwardToWorker, ForwardBroadcast, LosePrimary
  <1>9. ASSUME NEW w \in Workers, WorkerThread(w) PROVE Later
    BY <1>9 DEF WorkerThread, WorkerConnects, WorkerConnected, WorkerConnectFails, RunActivity,
                RunTerminate, WorkerExits
  <1>10. CASE PrimaryKilled
    BY <1>2, <1>10 DEF PrimaryKilled
  <1>11. ASSUME NEW g \in RemoteAgents, SecondaryKilled(g) PROVE Later
    BY <1>11 DEF SecondaryKilled, SecondaryEnds
  <1>. QED  BY <1>1, <1>3, <1>4, <1>5, <1>6, <1>7, <1>8, <1>9, <1>10, <1>11 DEF Next

LEMMA EndsMove ==
  ASSUME TypeOK, NEW g \in Agents, ProcessEnds(g)
  PROVE  QueuesMove
  <1>1. \A w \in Workers : workerQ'[w] \in {workerQ[w], << >>}
    BY DEF ProcessEnds
  <1>2. inbox' \in {inbox, << >>}
    BY DEF ProcessEnds
  <1>3. \A h \in RemoteAgents : sockUp'[h] \in {sockUp[h], << >>}
    BY DEF ProcessEnds
  <1>4. \A h \in RemoteAgents : agentQ'[h] \in {agentQ[h], << >>} /\ sockDown'[h] \in {sockDown[h], << >>}
    BY DEF ProcessEnds, TypeOK
  <1>. QED  BY <1>1, <1>2, <1>3, <1>4 DEF QueuesMove, Moves

LEMMA PrimaryEndsMove ==
  ASSUME TypeOK, NEW how, PrimaryEnds(how)
  PROVE  QueuesMove
  BY EndsMove, Configuration DEF PrimaryEnds

(* The sets hold what is sent.                                             *)
SetsHold ==
  /\ \A g \in RemoteAgents :
       /\ StartupSync \in DownSet(g) /\ ChannelHello(g) \in UpSet(g)
       /\ \A w \in WorkersOf(g) : Connect(w) \in AgentSet(g)
       /\ pc \notin Starting => /\ Terminate \in DownSet(g)
                                /\ \A w \in WorkersOf(g) : For(w) \subseteq DownSet(g)
                                /\ From(g) \subseteq UpSet(g) /\ From(g) \subseteq AgentSet(g)
  /\ \A w \in Workers :
       /\ StartupSync \in WorkSet(w) /\ Connect(w) \in WorkSet(w)
       /\ pc \notin Starting => /\ Terminate \in WorkSet(w)
                                /\ AgentOf[w] \in synced => For(w) \subseteq WorkSet(w)
  /\ \A c \in LocalChannels : Connect(c) \in InSet
  /\ pc \notin Starting => \A g \in Agents : From(g) \subseteq InSet

LEMMA SetMembers == SetsHold
  <1>1. \A g \in RemoteAgents : \E w \in WorkersOf(g) : Terminate \in For(w)
    BY DEF RemoteAgents, WorkersOf, For
  <1>2. \A w \in Workers : Terminate \in For(w)
    BY DEF For
  <1>. QED  BY <1>1, <1>2 DEF SetsHold, DownSet, UpSet, AgentSet, WorkSet, InSet

LEMMA PrimaryMoves ==
  ASSUME TypeOK, TypeOK', Addressed, ClocksSet, Later,
         PrimaryMain \/ ReceiveRelayThread \/ StartTerminate \/ PrimaryKilled
  PROVE  QueuesMove
  <1>. USE Configuration DEF primaryVars, secondaryVars, channelVars, workerVars
  <1>0. SetsHold'
    BY SetMembers, PTL
  <1>1. CASE SpawnReceiveRelay
    BY <1>1 DEF SpawnReceiveRelay, QueuesMove, Moves
  <1>2. CASE ConnectLocalSenders
    <2>1. inbox # << >>
      BY <1>2 DEF ConnectLocalSenders, ConnectSender
    <2>. QED  BY <1>2, <2>1 DEF ConnectLocalSenders, QueuesMove, Moves
  <1>3. CASE ConnectTimesOut
    BY <1>3, PrimaryEndsMove DEF ConnectTimesOut
  <1>4. CASE ConnectLocalWorkers
    <2>1. CASE PrimaryEnds("failed")
      BY <2>1, PrimaryEndsMove
    <2>2. CASE ConnectReceivers(LocalWorkers) /\ UNCHANGED <<inbox, sockDown, sockUp, agentQ>>
      <3>1. \A w \in Workers : workerQ'[w] = workerQ[w] \/ workerQ'[w] = Append(workerQ[w], Connect(w))
        BY <2>2 DEF ConnectReceivers
      <3>. QED  BY <1>0, <2>2, <3>1 DEF SetsHold, QueuesMove, Moves
    <2>. QED  BY <1>4, <2>1, <2>2 DEF ConnectLocalWorkers
  <1>5. CASE Receive
    BY <1>5 DEF Receive, QueuesMove, Moves
  <1>6. CASE BroadcastLocal
    <2>1. \A w \in Workers : workerQ'[w] = workerQ[w] \/ workerQ'[w] = Append(workerQ[w], Terminate)
      BY <1>6 DEF BroadcastLocal, BroadcastToWorkers
    <2>2. pc' \notin Starting
      BY <1>6 DEF BroadcastLocal, IfRemote, Starting, Early
    <2>3. \A w \in Workers : Terminate \in WorkSet(w)'
      BY <1>0, <2>2 DEF SetsHold
    <2>. QED  BY <1>6, <2>1, <2>3 DEF BroadcastLocal, QueuesMove, Moves
  <1>7. CASE AckTimeout
    BY <1>7 DEF AckTimeout, QueuesMove, Moves
  <1>8. CASE JoinWorkers
    BY <1>8, PrimaryEndsMove DEF JoinWorkers, QueuesMove, Moves
  <1>9. CASE JoinRelay
    BY <1>9, PrimaryEndsMove DEF JoinRelay
  <1>10. ASSUME NEW g \in RemoteAgents, ConnectAgent(g) PROVE QueuesMove
    BY <1>10 DEF ConnectAgent, QueuesMove, Moves
  <1>11. ASSUME NEW g \in RemoteAgents, SyncTime(g) PROVE QueuesMove
    <2>1. CASE PrimaryEnds("failed")
      BY <2>1, PrimaryEndsMove
    <2>2. CASE SendToAgent(g, StartupSync) /\ UNCHANGED <<inbox, sockUp, workerQ, agentQ>>
      <3>1. \A h \in RemoteAgents :
              sockDown'[h] = sockDown[h] \/ sockDown'[h] = Append(sockDown[h], StartupSync)
        BY <2>2 DEF SendToAgent, TypeOK
      <3>. QED  BY <1>0, <2>2, <3>1 DEF SetsHold, QueuesMove, Moves
    <2>. QED  BY <1>11, <2>1, <2>2 DEF SyncTime
  <1>12. ASSUME NEW g \in RemoteAgents, BroadcastRemote(g) PROVE QueuesMove
    <2>1. \A h \in RemoteAgents :
            sockDown'[h] = sockDown[h] \/ sockDown'[h] = Append(sockDown[h], Terminate)
      BY <1>12 DEF BroadcastRemote, SendToAgent, TypeOK
    <2>2. pc' \notin Starting
      BY <1>12 DEF BroadcastRemote, Starting, Early, Later
    <2>3. \A h \in RemoteAgents : Terminate \in DownSet(h)'
      BY <1>0, <2>2 DEF SetsHold
    <2>. QED  BY <1>12, <2>1, <2>3 DEF BroadcastRemote, QueuesMove, Moves
  <1>13. CASE AcceptTimesOut
    BY <1>13 DEF AcceptTimesOut, QueuesMove, Moves
  <1>14. CASE ConnectToScheduler
    <2>1. Connect(RelayChannel) \in InSet'
      BY <1>0 DEF SetsHold, LocalChannels
    <2>. QED  BY <1>14, <2>1 DEF ConnectToScheduler, QueuesMove, Moves
  <1>15. CASE ReceiveRelayEnds
    BY <1>15 DEF ReceiveRelayEnds, QueuesMove, Moves
  <1>16. ASSUME NEW g \in RemoteAgents, AcceptAgent(g) PROVE QueuesMove
    <2>1. \A h \in RemoteAgents : sockUp'[h] = sockUp[h] \/ (sockUp[h] # << >> /\ sockUp'[h] = Tail(sockUp[h]))
      BY <1>16 DEF AcceptAgent, TypeOK
    <2>. QED  BY <1>16, <2>1 DEF AcceptAgent, QueuesMove, Moves
  <1>17. ASSUME NEW g \in RemoteAgents, RelayToScheduler(g) PROVE QueuesMove
    <2>1. \A h \in RemoteAgents : sockUp'[h] = sockUp[h] \/ (sockUp[h] # << >> /\ sockUp'[h] = Tail(sockUp[h]))
      BY <1>17 DEF RelayToScheduler, TypeOK
    <2>2. Head(sockUp[g]) \in UpSet(g)
      BY <1>17, HeadInRange DEF RelayToScheduler, Addressed, TypeOK
    <2>3. Core(Head(sockUp[g])) => Head(sockUp[g]) \in InSet'
      <3>1. SUFFICES ASSUME Core(Head(sockUp[g])) PROVE Head(sockUp[g]) \in InSet'
        OBVIOUS
      <3>2. Head(sockUp[g]) # ChannelHello(g)
        BY <3>1 DEF Core, ChannelHello
      <3>3. pc \notin Starting /\ Head(sockUp[g]) \in From(g)
        BY <2>2, <3>2 DEF UpSet
      <3>4. pc' \notin Starting /\ From(g)' = From(g)
        BY <3>3 DEF Later, From
      <3>. QED  BY <1>0, <3>3, <3>4 DEF SetsHold
    <2>. QED  BY <1>17, <2>1, <2>3 DEF RelayToScheduler, QueuesMove, Moves
  <1>18. CASE StartTerminate
    BY <1>18 DEF StartTerminate, QueuesMove, Moves
  <1>19. CASE PrimaryKilled
    BY <1>19, PrimaryEndsMove DEF PrimaryKilled
  <1>. QED  BY <1>1, <1>2, <1>3, <1>4, <1>5, <1>6, <1>7, <1>8, <1>9, <1>10, <1>11, <1>12, <1>13,
               <1>14, <1>15, <1>16, <1>17, <1>18, <1>19 DEF PrimaryMain, ReceiveRelayThread

LEMMA SendToActivityMoves ==
  ASSUME TypeOK, TypeOK', ClocksSet, Later, NEW a \in Activities, SendToActivity(a)
  PROVE  QueuesMove
  <1>1. CASE PrimaryEnds("failed")
    BY <1>1, PrimaryEndsMove
  <1>2. CASE ~PrimaryEnds("failed")
    <2>. PICK w \in Workers : w = WorkerOf[a]
      BY Configuration
    <2>1. /\ \/ w \in LocalWorkers /\ SendToWorker(w, Activity(a)) /\ UNCHANGED sockDown
             \/ w \notin LocalWorkers /\ SendToAgent(AgentOf[w], Activity(a)) /\ UNCHANGED workerQ
          /\ UNCHANGED <<pc, inbox, sockUp, agentQ, workerVars>> /\ pc = "run"
      BY <1>2 DEF SendToActivity
    <2>2. SetsHold' /\ pc' \notin Starting
      <3>1. SetsHold'
        BY SetMembers, PTL
      <3>. QED  BY <2>1, <3>1 DEF Starting, Early
    <2>3. Activity(a) \in For(w) /\ For(w)' = For(w)
      BY DEF For
    <2>4. CASE w \in LocalWorkers /\ SendToWorker(w, Activity(a)) /\ UNCHANGED sockDown
      <3>1. \A v \in Workers : workerQ'[v] = workerQ[v] \/ (v = w /\ workerQ'[v] = Append(workerQ[v], Activity(a)))
        BY <2>4 DEF SendToWorker, TypeOK
      <3>2. AgentOf[w] \in synced'
        BY <2>1, <2>4, Configuration DEF ClocksSet, Started, workerVars
      <3>3. Activity(a) \in WorkSet(w)'
        BY <2>2, <2>3, <3>2 DEF SetsHold
      <3>. QED  BY <2>1, <2>4, <3>1, <3>3 DEF QueuesMove, Moves
    <2>5. CASE w \notin LocalWorkers /\ SendToAgent(AgentOf[w], Activity(a)) /\ UNCHANGED workerQ
      <3>1. AgentOf[w] \in RemoteAgents /\ w \in WorkersOf(AgentOf[w])
        BY <2>5, Configuration DEF WorkersOf
      <3>2. \A h \in RemoteAgents :
              \/ sockDown'[h] = sockDown[h]
              \/ h = AgentOf[w] /\ sockDown'[h] = Append(sockDown[h], Activity(a))
        BY <2>5, <3>1 DEF SendToAgent, TypeOK
      <3>3. Activity(a) \in DownSet(AgentOf[w])'
        BY <2>2, <2>3, <3>1 DEF SetsHold
      <3>. QED  BY <2>1, <2>5, <3>2, <3>3 DEF QueuesMove, Moves
    <2>. QED  BY <2>1, <2>4, <2>5
  <1>. QED  BY <1>1, <1>2

(* What can be taken from a socket or a channel, and what answers it.      *)
LEMMA Taken ==
  ASSUME TypeOK, Addressed
  PROVE  /\ \A g \in RemoteAgents : sockDown[g] # << >> =>
              /\ Head(sockDown[g]) \in DownSet(g)
              /\ Head(sockDown[g]).type = "Activity" =>
                   /\ pc \notin Starting
                   /\ WorkerOf[Head(sockDown[g]).id] \in WorkersOf(g)
                   /\ Head(sockDown[g]) \in For(WorkerOf[Head(sockDown[g]).id])
              /\ Head(sockDown[g]) = Terminate => pc \notin Starting
         /\ \A g \in RemoteAgents : agentQ[g] # << >> =>
              /\ Head(agentQ[g]) \in AgentSet(g)
              /\ Core(Head(agentQ[g])) => pc \notin Starting /\ Head(agentQ[g]) \in From(g)
         /\ \A w \in Workers : workerQ[w] # << >> =>
              /\ Head(workerQ[w]) \in WorkSet(w)
              /\ Head(workerQ[w]).type = "Activity" =>
                   /\ pc \notin Starting
                   /\ Head(workerQ[w]).id \in Activities
                   /\ WorkerOf[Head(workerQ[w]).id] = w
                   /\ Ready(Head(workerQ[w]).id) \in From(AgentOf[w])
              /\ Head(workerQ[w]) = Terminate => pc \notin Starting
  <1>1. ASSUME NEW g \in RemoteAgents, sockDown[g] # << >>
        PROVE  /\ Head(sockDown[g]) \in DownSet(g)
               /\ Head(sockDown[g]).type = "Activity" =>
                    /\ pc \notin Starting
                    /\ WorkerOf[Head(sockDown[g]).id] \in WorkersOf(g)
                    /\ Head(sockDown[g]) \in For(WorkerOf[Head(sockDown[g]).id])
               /\ Head(sockDown[g]) = Terminate => pc \notin Starting
    <2>1. PICK sig : sig = Head(sockDown[g]) /\ sig \in DownSet(g)
      BY <1>1, HeadInRange DEF TypeOK, Addressed
    <2>2. CASE sig = StartupSync
      BY <2>1, <2>2 DEF StartupSync, Terminate
    <2>3. CASE sig # StartupSync
      <3>1. pc \notin Starting
        BY <2>1, <2>3 DEF DownSet
      <3>2. PICK w \in WorkersOf(g) : sig \in For(w)
        BY <2>1, <2>3 DEF DownSet
      <3>3. ASSUME sig.type = "Activity"
            PROVE  WorkerOf[sig.id] \in WorkersOf(g) /\ sig \in For(WorkerOf[sig.id])
        <4>1. PICK a \in Activities : WorkerOf[a] = w /\ sig = Activity(a)
          BY <3>2, <3>3 DEF For, Terminate
        <4>2. sig.id = a
          BY <4>1 DEF Activity
        <4>. QED  BY <3>2, <4>1, <4>2
      <3>. QED  BY <2>1, <3>1, <3>3
    <2>. QED  BY <2>2, <2>3
  <1>2. ASSUME NEW g \in RemoteAgents, agentQ[g] # << >>
        PROVE  /\ Head(agentQ[g]) \in AgentSet(g)
               /\ Core(Head(agentQ[g])) => pc \notin Starting /\ Head(agentQ[g]) \in From(g)
    <2>1. PICK sig : sig = Head(agentQ[g]) /\ sig \in AgentSet(g)
      BY <1>2, HeadInRange DEF TypeOK, Addressed
    <2>. QED  BY <2>1 DEF AgentSet, Core, Connect
  <1>3. ASSUME NEW w \in Workers, workerQ[w] # << >>
        PROVE  /\ Head(workerQ[w]) \in WorkSet(w)
               /\ Head(workerQ[w]).type = "Activity" =>
                    /\ pc \notin Starting
                    /\ Head(workerQ[w]).id \in Activities
                    /\ WorkerOf[Head(workerQ[w]).id] = w
                    /\ Ready(Head(workerQ[w]).id) \in From(AgentOf[w])
               /\ Head(workerQ[w]) = Terminate => pc \notin Starting
    <2>1. PICK sig : sig = Head(workerQ[w]) /\ sig \in WorkSet(w)
      BY <1>3, HeadInRange DEF TypeOK, Addressed
    <2>2. CASE sig \in {StartupSync, Connect(w)}
      BY <2>1, <2>2 DEF StartupSync, Terminate, Connect
    <2>3. CASE sig \notin {StartupSync, Connect(w)}
      <3>1. pc \notin Starting /\ sig \in For(w)
        BY <2>1, <2>3 DEF WorkSet
      <3>2. ASSUME sig.type = "Activity"
            PROVE  sig.id \in Activities /\ WorkerOf[sig.id] = w /\ Ready(sig.id) \in From(AgentOf[w])
        <4>1. PICK a \in Activities : WorkerOf[a] = w /\ sig = Activity(a)
          BY <3>1, <3>2 DEF For, Terminate
        <4>2. sig.id = a
          BY <4>1 DEF Activity
        <4>. QED  BY <4>1, <4>2 DEF From
      <3>. QED  BY <2>1, <3>1, <3>2
    <2>. QED  BY <2>2, <2>3
  <1>. QED  BY <1>1, <1>2, <1>3

LEMMA SecondaryMoves ==
  ASSUME TypeOK, TypeOK', Addressed, ClocksSet, Later, NEW g \in RemoteAgents,
         SecondaryMain(g) \/ SecondaryReceiveRelay(g) \/ SecondaryKilled(g)
  PROVE  QueuesMove
  <1>. USE Configuration DEF primaryVars, secondaryVars, channelVars, workerVars
  <1>0. SetsHold'
    BY SetMembers, PTL
  <1>a. SecondaryEnds(g) => QueuesMove
    BY EndsMove DEF SecondaryEnds
  <1>b. \A s : TakeDown(g, s) =>
          /\ sockDown[g] # << >>
          /\ \A h \in RemoteAgents : \/ sockDown'[h] = sockDown[h]
                                     \/ sockDown[h] # << >> /\ sockDown'[h] = Tail(sockDown[h])
    BY DEF TakeDown, TypeOK
  <1>c. /\ \A w \in Workers : For(w)' = For(w)
        /\ \A h \in Agents : From(h)' = From(h)
    BY DEF For, From
  <1>1. CASE ConnectAgentSenders(g)
    <2>1. agentQ[g] # << >>
      BY <1>1 DEF ConnectAgentSenders, ConnectSender
    <2>2. \A h \in RemoteAgents : agentQ'[h] = agentQ[h] \/ (agentQ[h] # << >> /\ agentQ'[h] = Tail(agentQ[h]))
      BY <1>1, <2>1 DEF ConnectAgentSenders, TypeOK
    <2>. QED  BY <1>1, <2>2 DEF ConnectAgentSenders, QueuesMove, Moves
  <1>2. CASE ConnectSendersTimesOut(g)
    BY <1>2, <1>a DEF ConnectSendersTimesOut
  <1>3. CASE ConnectUp(g)
    <2>1. \A h \in RemoteAgents : sockUp'[h] = sockUp[h] \/ sockUp'[h] = <<ChannelHello(h)>>
      BY <1>3 DEF ConnectUp, TypeOK
    <2>. QED  BY <1>0, <1>3, <2>1 DEF ConnectUp, SetsHold, QueuesMove, Moves
  <1>4. CASE ForwardToPrimary(g)
    <2>1. \A h \in RemoteAgents : agentQ'[h] = agentQ[h] \/ (agentQ[h] # << >> /\ agentQ'[h] = Tail(agentQ[h]))
      BY <1>4 DEF ForwardToPrimary, TypeOK
    <2>2. \A h \in RemoteAgents : \/ sockUp'[h] = sockUp[h]
                                  \/ /\ h = g /\ Core(Head(agentQ[g]))
                                     /\ sockUp'[h] = Append(sockUp[h], Head(agentQ[g]))
      BY <1>4 DEF ForwardToPrimary, SendToPrimary, TypeOK
    <2>3. Core(Head(agentQ[g])) => Head(agentQ[g]) \in UpSet(g)'
      BY <1>0, <1>4, <1>c, Taken DEF ForwardToPrimary, SetsHold, Later
    <2>. QED  BY <1>4, <2>1, <2>2, <2>3 DEF ForwardToPrimary, QueuesMove, Moves
  <1>5. CASE SendRelayEnds(g)
    BY <1>5 DEF SendRelayEnds, QueuesMove, Moves
  <1>6. CASE JoinAndExit(g)
    BY <1>6, <1>a DEF JoinAndExit
  <1>7. CASE ConnectWorkers(g)
    <2>1. \A w \in Workers : workerQ'[w] = workerQ[w] \/ workerQ'[w] = Append(workerQ[w], Connect(w))
      BY <1>7 DEF ConnectWorkers, ConnectReceivers
    <2>. QED  BY <1>0, <1>7, <2>1 DEF ConnectWorkers, SetsHold, QueuesMove, Moves
  <1>8. CASE ConnectDown(g)
    BY <1>8 DEF ConnectDown, QueuesMove, Moves
  <1>9. CASE WaitStartupSync(g)
    BY <1>9, <1>b DEF WaitStartupSync, QueuesMove, Moves
  <1>10. CASE ForwardToWorker(g)
    <2>1. PICK sig, w : sig = Head(sockDown[g]) /\ w = WorkerOf[sig.id]
      OBVIOUS
    <2>2. pc \notin Starting /\ w \in WorkersOf(g) /\ sig \in For(w)
      BY <1>10, <1>b, <2>1, Taken DEF ForwardToWorker
    <2>3. g \in synced
      BY <1>10 DEF ForwardToWorker, TakeDown, ClocksSet
    <2>4. sig \in WorkSet(w)'
      BY SMTT(30), <1>0, <1>c, <2>2, <2>3 DEF SetsHold, Later
    <2>5. \A v \in Workers : workerQ'[v] = workerQ[v] \/ (v = w /\ workerQ'[v] = Append(workerQ[v], sig))
      BY <1>10, <2>1, <2>2 DEF ForwardToWorker, SendToWorker, TypeOK
    <2>. QED  BY <1>10, <1>b, <2>4, <2>5 DEF ForwardToWorker, QueuesMove, Moves
  <1>11. CASE ForwardBroadcast(g)
    <2>1. PICK sig : sig = Head(sockDown[g])
      OBVIOUS
    <2>2. sig = StartupSync \/ (sig = Terminate /\ pc \notin Starting)
      BY <1>11, <1>b, <2>1, Taken DEF ForwardBroadcast
    <2>3. \A w \in Workers : sig \in WorkSet(w)'
      BY <1>0, <2>2 DEF SetsHold, Later
    <2>4. \A v \in Workers : workerQ'[v] = workerQ[v] \/ workerQ'[v] = Append(workerQ[v], sig)
      BY <1>11, <2>1 DEF ForwardBroadcast, BroadcastToWorkers
    <2>. QED  BY <1>11, <1>b, <2>3, <2>4 DEF ForwardBroadcast, QueuesMove, Moves
  <1>12. CASE LosePrimary(g)
    BY <1>12 DEF LosePrimary, QueuesMove, Moves
  <1>13. CASE SecondaryKilled(g)
    BY <1>13, <1>a DEF SecondaryKilled
  <1>. QED  BY <1>1, <1>2, <1>3, <1>4, <1>5, <1>6, <1>7, <1>8, <1>9, <1>10, <1>11, <1>12, <1>13
            DEF SecondaryMain, SecondaryReceiveRelay

LEMMA SendMoves ==
  ASSUME TypeOK, NEW w \in Workers, NEW sig, SendFromWorker(w, sig)
  PROVE  /\ \A h \in RemoteAgents : \/ agentQ'[h] = agentQ[h]
                                    \/ h = AgentOf[w] /\ agentQ'[h] = Append(agentQ[h], sig)
         /\ \/ inbox' = inbox
            \/ w \in LocalWorkers /\ inbox' = Append(inbox, sig)
  BY Configuration DEF SendFromWorker, TypeOK

LEMMA WorkerMoves ==
  ASSUME TypeOK, TypeOK', Addressed, Later, NEW w \in Workers, WorkerThread(w)
  PROVE  QueuesMove
  <1>. USE Configuration DEF primaryVars, secondaryVars, channelVars, workerVars
  <1>0. SetsHold' /\ From(AgentOf[w])' = From(AgentOf[w])
    <2>1. SetsHold'
      BY SetMembers, PTL
    <2>. QED  BY <2>1 DEF From
  <1>a. workerQ[w] # << >> /\ workerQ' = [workerQ EXCEPT ![w] = Tail(@)] =>
          \A v \in Workers : \/ workerQ'[v] = workerQ[v]
                             \/ workerQ[v] # << >> /\ workerQ'[v] = Tail(workerQ[v])
    BY DEF TypeOK
  <1>b. ASSUME NEW sig \in From(AgentOf[w]), SendFromWorker(w, sig), pc' \notin Starting
        PROVE  /\ \A h \in RemoteAgents : Moves(agentQ'[h], agentQ[h], AgentSet(h)')
               /\ Moves(inbox', inbox, InSet')
    BY <1>0, <1>b, SendMoves DEF SetsHold, Moves
  <1>1. CASE WorkerConnects(w)
    <2>1. /\ \A h \in RemoteAgents : \/ agentQ'[h] = agentQ[h]
                                     \/ h = AgentOf[w] /\ agentQ'[h] = Append(agentQ[h], Connect(w))
          /\ inbox' = inbox \/ (w \in LocalWorkers /\ inbox' = Append(inbox, Connect(w)))
      BY <1>1, SendMoves DEF WorkerConnects
    <2>2. w \in LocalWorkers => Connect(w) \in InSet'
      BY <1>0 DEF SetsHold, LocalChannels
    <2>3. w \in WorkersOf(AgentOf[w])
      BY DEF WorkersOf
    <2>. QED  BY <1>0, <1>1, <2>1, <2>2, <2>3 DEF WorkerConnects, SetsHold, QueuesMove, Moves
  <1>2. CASE WorkerConnected(w)
    BY <1>2, <1>a DEF WorkerConnected, QueuesMove, Moves
  <1>3. CASE WorkerConnectFails(w)
    BY <1>3 DEF WorkerConnectFails, QueuesMove, Moves
  <1>4. CASE RunActivity(w)
    <2>1. Ready(Head(workerQ[w]).id) \in From(AgentOf[w]) /\ pc' \notin Starting
      BY <1>4, Taken DEF RunActivity, Later
    <2>2. CASE SendFromWorker(w, Ready(Head(workerQ[w]).id))
      BY <1>4, <1>a, <1>b, <2>1, <2>2 DEF RunActivity, QueuesMove, Moves
    <2>3. CASE UNCHANGED <<inbox, agentQ>>
      BY <1>4, <1>a, <2>3 DEF RunActivity, QueuesMove, Moves
    <2>. QED  BY <1>4, <2>2, <2>3 DEF RunActivity
  <1>5. CASE RunTerminate(w)
    <2>1. TerminateAck(AgentOf[w]) \in From(AgentOf[w]) /\ pc' \notin Starting
      BY <1>5, Taken DEF RunTerminate, Later, From
    <2>2. CASE SendFromWorker(w, TerminateAck(AgentOf[w]))
      BY <1>5, <1>a, <1>b, <2>1, <2>2 DEF RunTerminate, QueuesMove, Moves
    <2>3. CASE UNCHANGED <<inbox, agentQ>>
      BY <1>5, <1>a, <2>3 DEF RunTerminate, QueuesMove, Moves
    <2>. QED  BY <1>5, <2>2, <2>3 DEF RunTerminate
  <1>6. CASE WorkerExits(w)
    BY <1>6 DEF WorkerExits, QueuesMove, Moves
  <1>. QED  BY <1>1, <1>2, <1>3, <1>4, <1>5, <1>6 DEF WorkerThread

LEMMA AddressedStep ==
  ASSUME TypeOK, Addressed, ClocksSet, [Next]_vars
  PROVE  Addressed'
  <1>1. TypeOK' /\ Later
    BY TypeStep, LaterStep
  <1>2. CASE UNCHANGED vars
    BY <1>1, <1>2, AddressedMoves
       DEF vars, QueuesMove, Moves, primaryVars, secondaryVars, channelVars, workerVars
  <1>3. CASE Next
    BY <1>1, <1>3, AddressedMoves, PrimaryMoves, SendToActivityMoves, SecondaryMoves, WorkerMoves
       DEF Next
  <1>. QED  BY <1>2, <1>3

LEMMA AddressedInit == Init => Addressed
  <1>. SUFFICES ASSUME Init PROVE Addressed
    OBVIOUS
  <1>1. Range(<< >>) = {}
    BY EmptySeq DEF Range
  <1>2. /\ \A g \in RemoteAgents : sockDown[g] = << >> /\ sockUp[g] = << >> /\ agentQ[g] = << >>
        /\ \A w \in Workers : workerQ[w] = << >>
        /\ inbox = << >>
    BY DEF Init, NewChannels
  <1>. QED  BY <1>1, <1>2 DEF Addressed

-----------------------------------------------------------------------------
(***************************************************************************)
(* ClocksSet, and with it that no worker is given work too early.          *)
(***************************************************************************)
LEMMA ClocksInit == Init => ClocksSet
  BY DEF Init, PrimaryInit, SecondaryInit, ClocksSet, Started

LEMMA ClocksStep ==
  ASSUME TypeOK, ClocksSet, [Next]_vars
  PROVE  ClocksSet'
  <1>. USE DEF ClocksSet, Started, primaryVars, secondaryVars, channelVars, workerVars
  <1>0. synced \subseteq synced'
    BY LaterStep DEF Later
  <1>1. CASE UNCHANGED vars
    BY <1>1 DEF vars
  <1>2. ASSUME NEW how \in {"failed", "exited"}, PrimaryEnds(how) PROVE ClocksSet'
    BY <1>2 DEF PrimaryEnds
  <1>3. CASE PrimaryMain
    BY <1>0, <1>2, <1>3
       DEF PrimaryMain, SpawnReceiveRelay, ConnectLocalSenders, ConnectTimesOut, ConnectLocalWorkers,
           Receive, BroadcastLocal, AckTimeout, JoinWorkers, JoinRelay, ConnectAgent, SyncTime,
           BroadcastRemote, IfRemote
  <1>4. CASE ReceiveRelayThread
    BY <1>4 DEF ReceiveRelayThread, AcceptTimesOut, ConnectToScheduler, ReceiveRelayEnds,
                AcceptAgent, RelayToScheduler
  <1>5. CASE StartTerminate
    BY <1>5 DEF StartTerminate, IfRemote
  <1>6. ASSUME NEW a \in Activities, SendToActivity(a) PROVE ClocksSet'
    BY <1>2, <1>6 DEF SendToActivity
  <1>7. ASSUME NEW g \in RemoteAgents, SecondaryEnds(g) PROVE ClocksSet'
    BY <1>7 DEF SecondaryEnds, TypeOK
  <1>8. ASSUME NEW g \in RemoteAgents, SecondaryMain(g) PROVE ClocksSet'
    BY <1>7, <1>8 DEF SecondaryMain, ConnectAgentSenders, ConnectSendersTimesOut, ConnectUp,
                      ForwardToPrimary, SendRelayEnds, JoinAndExit
  <1>9. ASSUME NEW g \in RemoteAgents, SecondaryReceiveRelay(g) PROVE ClocksSet'
    BY <1>0, <1>9 DEF SecondaryReceiveRelay, ConnectWorkers, ConnectDown, WaitStartupSync,
                      ForwardToWorker, ForwardBroadcast, LosePrimary, TypeOK
  <1>10. ASSUME NEW w \in Workers, WorkerThread(w) PROVE ClocksSet'
    BY <1>10 DEF WorkerThread, WorkerConnects, WorkerConnected, WorkerConnectFails, RunActivity,
                 RunTerminate, WorkerExits
  <1>11. CASE PrimaryKilled
    BY <1>2, <1>11 DEF PrimaryKilled
  <1>12. ASSUME NEW g \in RemoteAgents, SecondaryKilled(g) PROVE ClocksSet'
    BY <1>7, <1>12 DEF SecondaryKilled
  <1>. QED  BY <1>1, <1>3, <1>4, <1>5, <1>6, <1>8, <1>9, <1>10, <1>11, <1>12 DEF Next

(***************************************************************************)
(* No activity signal waits for a worker before the clock of its process   *)
(* is initialised, with any agents, workers and faults.                    *)
(***************************************************************************)
THEOREM ClockBeforeWorkForAll == Spec => []ClockBeforeWork
  <1>. DEFINE Inv == TypeOK /\ Addressed /\ ClocksSet
  <1>1. Init => Inv
    BY TypeInit, AddressedInit, ClocksInit
  <1>2. Inv /\ [Next]_vars => Inv'
    BY TypeStep, AddressedStep, ClocksStep
  <1>3. Inv => ClockBeforeWork
    <2>. SUFFICES ASSUME Inv, NEW w \in Workers, AgentOf[w] \notin synced,
                         NEW i \in DOMAIN workerQ[w]
                  PROVE  workerQ[w][i].type # "Activity"
      BY DEF ClockBeforeWork
    <2>1. workerQ[w][i] \in WorkSet(w)
      BY DEF Addressed, Range
    <2>. QED  BY <2>1 DEF WorkSet, StartupSync, Connect, Terminate
  <1>. QED  BY <1>1, <1>2, <1>3, PTL DEF Spec

-----------------------------------------------------------------------------
(***************************************************************************)
(* How the threads of the relays move.                                     *)
(***************************************************************************)
ControlMoves ==
  /\ missing'[RelayChannel] \subseteq missing[RelayChannel]
  /\ \/ receiveRelay' = receiveRelay
     \/ pc = "spawn" /\ pc' # "spawn" /\ receiveRelay' \in {"accept", "none"}
     \/ /\ receiveRelay = "accept" /\ receiveRelay' \in {"connect", "ended"}
        /\ receiveRelay' = "connect" => missing'[RelayChannel] = {}
     \/ receiveRelay = "connect" /\ receiveRelay' = "run"
     \/ receiveRelay = "run" /\ receiveRelay' = "ended"
  /\ \A g \in RemoteAgents :
       \/ local_to_ipc'[g] = local_to_ipc[g]
       \/ local_to_ipc'[g] = "exited"
       \/ local_to_ipc[g] = "run" /\ local_to_ipc'[g] = "join"
       \/ local_to_ipc[g] = "intra" /\ local_to_ipc'[g] = "inter"
       \/ local_to_ipc[g] = "inter" /\ local_to_ipc'[g] = "run" /\ UpListening
  /\ \A g \in RemoteAgents :
       \/ ipc_to_local'[g] = ipc_to_local[g]
       \/ ipc_to_local'[g] = "ended"
       \/ ipc_to_local[g] = "intra" /\ ipc_to_local'[g] = "inter" /\ ConnectWorkers(g)
       \/ ipc_to_local[g] = "inter" /\ ipc_to_local'[g] = "sync"
       \/ ipc_to_local[g] = "sync" /\ ipc_to_local'[g] = "run" /\ WaitStartupSync(g)
  /\ \A g \in RemoteAgents :
       local_to_ipc'[g] \in {"intra", "inter"} /\ sockUp[g] = << >> =>
         sockUp'[g] = << >> /\ (g \in missing[RelayChannel] => g \in missing'[RelayChannel])
  /\ pc' = "spawn" => pc = "spawn"
  /\ PrimaryDown => PrimaryDown'

LEMMA ControlStep ==
  ASSUME TypeOK, [Next]_vars
  PROVE  ControlMoves
  <1>. USE Configuration DEF ControlMoves, PrimaryDown, primaryVars, secondaryVars, channelVars, workerVars
  <1>0. ASSUME NEW g \in Agents, NEW q, NEW c, ConnectSender(g, q, c)
        PROVE  missing'[RelayChannel] = missing[RelayChannel]
    BY <1>0 DEF ConnectSender, TypeOK
  <1>1. CASE UNCHANGED vars
    BY <1>1 DEF vars
  <1>2. ASSUME NEW how \in {"failed", "exited"}, PrimaryEnds(how) PROVE ControlMoves
    BY <1>2 DEF PrimaryEnds, ProcessEnds
  <1>3. CASE PrimaryMain
    <2>1. CASE SpawnReceiveRelay
      BY <2>1 DEF SpawnReceiveRelay, IfRemote
    <2>2. CASE ConnectLocalSenders
      <3>1. missing'[RelayChannel] = missing[RelayChannel]
        BY <2>2, <1>0 DEF ConnectLocalSenders
      <3>. QED  BY <2>2, <3>1 DEF ConnectLocalSenders
    <2>3. CASE ConnectTimesOut \/ ConnectLocalWorkers
      BY <1>2, <2>3 DEF ConnectTimesOut, ConnectLocalWorkers, IfRemote
    <2>4. CASE Receive
      BY <2>4 DEF Receive
    <2>5. CASE BroadcastLocal
      BY <2>5 DEF BroadcastLocal, IfRemote
    <2>6. CASE AckTimeout \/ JoinWorkers \/ JoinRelay
      BY <1>2, <2>6 DEF AckTimeout, JoinWorkers, JoinRelay
    <2>7. ASSUME NEW g \in RemoteAgents, ConnectAgent(g) \/ SyncTime(g) \/ BroadcastRemote(g)
          PROVE  ControlMoves
      BY <1>2, <2>7 DEF ConnectAgent, SyncTime, BroadcastRemote
    <2>. QED  BY <1>3, <2>1, <2>2, <2>3, <2>4, <2>5, <2>6, <2>7 DEF PrimaryMain
  <1>4. CASE ReceiveRelayThread
    <2>1. CASE AcceptTimesOut \/ ConnectToScheduler \/ ReceiveRelayEnds
      BY <2>1 DEF AcceptTimesOut, ConnectToScheduler, ReceiveRelayEnds
    <2>2. ASSUME NEW g \in RemoteAgents, AcceptAgent(g) PROVE ControlMoves
      <3>1. missing'[RelayChannel] \subseteq missing[RelayChannel]
        BY <2>2 DEF AcceptAgent, TypeOK
      <3>. QED  BY <2>2, <3>1 DEF AcceptAgent
    <2>3. ASSUME NEW g \in RemoteAgents, RelayToScheduler(g) PROVE ControlMoves
      BY <2>3 DEF RelayToScheduler, TypeOK
    <2>. QED  BY <1>4, <2>1, <2>2, <2>3 DEF ReceiveRelayThread
  <1>5. CASE StartTerminate
    BY <1>5 DEF StartTerminate, IfRemote
  <1>6. ASSUME NEW a \in Activities, SendToActivity(a) PROVE ControlMoves
    BY <1>2, <1>6 DEF SendToActivity
  <1>7. ASSUME NEW g \in RemoteAgents, SecondaryEnds(g) PROVE ControlMoves
    BY <1>7 DEF SecondaryEnds, ProcessEnds, TypeOK
  <1>8. ASSUME NEW g \in RemoteAgents, SecondaryMain(g) PROVE ControlMoves
    <2>1. CASE ConnectAgentSenders(g)
      <3>1. missing'[RelayChannel] = missing[RelayChannel]
        BY <2>1, <1>0 DEF ConnectAgentSenders
      <3>. QED  BY <2>1, <3>1 DEF ConnectAgentSenders, TypeOK
    <2>2. CASE ConnectUp(g)
      BY <2>2 DEF ConnectUp, TypeOK
    <2>3. CASE ForwardToPrimary(g) \/ SendRelayEnds(g)
      BY <2>3 DEF ForwardToPrimary, SendRelayEnds, SendToPrimary, TypeOK
    <2>. QED  BY <1>7, <1>8, <2>1, <2>2, <2>3 DEF SecondaryMain, ConnectSendersTimesOut, JoinAndExit
  <1>9. ASSUME NEW g \in RemoteAgents, SecondaryReceiveRelay(g) PROVE ControlMoves
    <2>1. CASE ConnectWorkers(g)
      BY <2>1 DEF ConnectWorkers, TypeOK
    <2>2. CASE ConnectDown(g) \/ LosePrimary(g)
      BY <2>2 DEF ConnectDown, LosePrimary, TypeOK
    <2>3. CASE WaitStartupSync(g)
      BY <2>3 DEF WaitStartupSync, TakeDown, TypeOK
    <2>4. CASE ForwardToWorker(g) \/ ForwardBroadcast(g)
      BY <2>4 DEF ForwardToWorker, ForwardBroadcast
    <2>. QED  BY <1>9, <2>1, <2>2, <2>3, <2>4 DEF SecondaryReceiveRelay
  <1>10. ASSUME NEW w \in Workers, WorkerThread(w) PROVE ControlMoves
    BY <1>10 DEF WorkerThread, WorkerConnects, WorkerConnected, WorkerConnectFails, RunActivity,
                 RunTerminate, WorkerExits
  <1>11. CASE PrimaryKilled
    BY <1>2, <1>11 DEF PrimaryKilled
  <1>12. ASSUME NEW g \in RemoteAgents, SecondaryKilled(g) PROVE ControlMoves
    BY <1>7, <1>12 DEF SecondaryKilled
  <1>. QED  BY <1>1, <1>3, <1>4, <1>5, <1>6, <1>8, <1>9, <1>10, <1>11, <1>12 DEF Next

-----------------------------------------------------------------------------
(***************************************************************************)
(* Handshake.                                                              *)
(***************************************************************************)
Handshaken == {"workers", "sync"} \cup Started

(* Only ConnectToScheduler puts the relay's Connect into the inbox.        *)
LEMMA InboxStep ==
  ASSUME TypeOK, [Next]_vars, Connect(RelayChannel) \in Range(inbox')
  PROVE  \/ Connect(RelayChannel) \in Range(inbox)
         \/ receiveRelay = "connect" /\ receiveRelay' = "run"
  <1>. USE Configuration DEF primaryVars, secondaryVars, channelVars, workerVars
  <1>. DEFINE Other == {sig \in Signals : sig # Connect(RelayChannel)}
              Goal  == \/ Connect(RelayChannel) \in Range(inbox)
                       \/ receiveRelay = "connect" /\ receiveRelay' = "run"
  <1>. SUFFICES Goal
    OBVIOUS
  <1>0. ASSUME Moves(inbox', inbox, Other) PROVE Goal
    <2>1. inbox \in Seq(Signals) /\ Range(inbox) \subseteq Signals
      BY LenProperties DEF TypeOK, Range
    <2>2. Other \subseteq Range(inbox) \cup Other /\ Range(inbox) \cup Other \subseteq Signals
      BY <2>1
    <2>. HIDE DEF Other
    <2>3. PICK B : B = Range(inbox) \cup Other
      OBVIOUS
    <2>4. Range(inbox') \subseteq B
      BY <1>0, <2>1, <2>2, <2>3, RangeMoves
    <2>5. Connect(RelayChannel) \notin Other
      BY DEF Other
    <2>. QED  BY <2>3, <2>4, <2>5
  <1>a. ASSUME inbox' = inbox PROVE Goal
    BY <1>a
  <1>b. ASSUME NEW w \in Workers, NEW sig \in Signals, SendFromWorker(w, sig),
               sig # Connect(RelayChannel)
        PROVE  Goal
    <2>1. sig \in Other
      BY <1>b
    <2>. QED  BY <1>0, <1>b, <2>1, SendMoves DEF Moves
  <1>c. ASSUME inbox' = << >> PROVE Goal
    BY <1>0, <1>c DEF Moves
  <1>d. ASSUME inbox # << >>, inbox' = Tail(inbox) PROVE Goal
    BY <1>0, <1>d DEF Moves
  <1>. HIDE DEF Goal, Other
  <1>1. CASE UNCHANGED vars
    BY <1>1, <1>a DEF vars
  <1>2. ASSUME NEW how \in {"failed", "exited"}, PrimaryEnds(how) PROVE Goal
    BY <1>2, <1>c DEF PrimaryEnds, ProcessEnds
  <1>3. CASE PrimaryMain
    <2>1. ConnectLocalSenders => inbox # << >>
      BY DEF ConnectLocalSenders, ConnectSender
    <2>. QED  BY <1>2, <1>3, <1>a, <1>d, <2>1
         DEF PrimaryMain, SpawnReceiveRelay, ConnectLocalSenders, ConnectTimesOut, ConnectLocalWorkers,
             Receive, BroadcastLocal, AckTimeout, JoinWorkers, JoinRelay, ConnectAgent, SyncTime,
             BroadcastRemote
  <1>4. CASE ReceiveRelayThread
    <2>1. CASE ConnectToScheduler
      BY <2>1 DEF ConnectToScheduler, Goal
    <2>2. ASSUME NEW g \in RemoteAgents, RelayToScheduler(g) PROVE Goal
      <3>1. PICK sig : sig = Head(sockUp[g])
        OBVIOUS
      <3>2. Core(sig) => sig \in Other
        BY <2>2, <3>1, QueueTypes DEF RelayToScheduler, TypeOK, Core, Connect, Other
      <3>3. Moves(inbox', inbox, Other)
        BY <2>2, <3>1, <3>2 DEF RelayToScheduler, Moves
      <3>. QED  BY <1>0, <3>3
    <2>. QED  BY <1>4, <1>a, <2>1, <2>2
         DEF ReceiveRelayThread, AcceptTimesOut, ReceiveRelayEnds, AcceptAgent
  <1>5. CASE StartTerminate
    BY <1>5, <1>a DEF StartTerminate
  <1>6. ASSUME NEW a \in Activities, SendToActivity(a) PROVE Goal
    BY <1>2, <1>6, <1>a DEF SendToActivity
  <1>7. ASSUME NEW g \in RemoteAgents, SecondaryEnds(g) PROVE Goal
    BY <1>7, <1>a DEF SecondaryEnds, ProcessEnds
  <1>8. ASSUME NEW g \in RemoteAgents, SecondaryMain(g) PROVE Goal
    BY <1>7, <1>8, <1>a DEF SecondaryMain, ConnectAgentSenders, ConnectSendersTimesOut, ConnectUp,
                            ForwardToPrimary, SendRelayEnds, JoinAndExit
  <1>9. ASSUME NEW g \in RemoteAgents, SecondaryReceiveRelay(g) PROVE Goal
    BY <1>9, <1>a DEF SecondaryReceiveRelay, ConnectWorkers, ConnectDown, WaitStartupSync,
                      ForwardToWorker, ForwardBroadcast, LosePrimary
  <1>10. ASSUME NEW w \in Workers, WorkerThread(w) PROVE Goal
    <2>1. /\ Connect(w) \in Signals /\ Connect(w) # Connect(RelayChannel)
          /\ TerminateAck(AgentOf[w]) \in Signals /\ TerminateAck(AgentOf[w]) # Connect(RelayChannel)
      BY SignalTypes DEF Connect, TerminateAck
    <2>2. CASE RunActivity(w)
      <3>1. /\ Ready(Head(workerQ[w]).id) \in Signals
            /\ Ready(Head(workerQ[w]).id) # Connect(RelayChannel)
        BY <2>2, QueueTypes, SignalTypes DEF RunActivity, TypeOK, Ready, Connect
      <3>2. SendFromWorker(w, Ready(Head(workerQ[w]).id)) \/ inbox' = inbox
        BY <2>2 DEF RunActivity
      <3>. QED  BY <1>a, <1>b, <3>1, <3>2
    <2>3. CASE RunTerminate(w)
      BY <1>a, <1>b, <2>1, <2>3 DEF RunTerminate
    <2>4. CASE WorkerConnects(w)
      BY <1>b, <2>1, <2>4 DEF WorkerConnects
    <2>. QED  BY <1>10, <1>a, <2>2, <2>3, <2>4
         DEF WorkerThread, WorkerConnected, WorkerConnectFails, WorkerExits
  <1>11. CASE PrimaryKilled
    BY <1>2, <1>11 DEF PrimaryKilled
  <1>12. ASSUME NEW g \in RemoteAgents, SecondaryKilled(g) PROVE Goal
    BY <1>7, <1>12 DEF SecondaryKilled
  <1>. QED  BY <1>1, <1>3, <1>4, <1>5, <1>6, <1>8, <1>9, <1>10, <1>11, <1>12 DEF Next

(* Only ConnectLocalSenders passes the point where the primary waits for   *)
(* the local channels.                                                     *)
LEMMA PrimaryWaits ==
  ASSUME TypeOK, [Next]_vars
  PROVE  \/ ConnectLocalSenders
         \/ /\ missing'[PrimaryAgent] = missing[PrimaryAgent]
            /\ pc' \in Handshaken => pc \in Handshaken
  <1>. USE Configuration DEF Handshaken, Started, primaryVars, secondaryVars, channelVars, workerVars
  <1>. DEFINE Goal == /\ missing'[PrimaryAgent] = missing[PrimaryAgent]
                      /\ pc' \in Handshaken => pc \in Handshaken
  <1>1. CASE UNCHANGED vars
    BY <1>1 DEF vars
  <1>2. ASSUME NEW how \in {"failed", "exited"}, PrimaryEnds(how) PROVE Goal
    BY <1>2 DEF PrimaryEnds
  <1>3. CASE PrimaryMain /\ ~ConnectLocalSenders
    BY <1>2, <1>3
       DEF PrimaryMain, SpawnReceiveRelay, ConnectTimesOut, ConnectLocalWorkers,
           Receive, BroadcastLocal, AckTimeout, JoinWorkers, JoinRelay, ConnectAgent, SyncTime,
           BroadcastRemote, IfRemote
  <1>4. CASE ReceiveRelayThread
    BY <1>4 DEF ReceiveRelayThread, AcceptTimesOut, ConnectToScheduler, ReceiveRelayEnds,
                AcceptAgent, RelayToScheduler, TypeOK
  <1>5. CASE StartTerminate
    BY <1>5 DEF StartTerminate, IfRemote
  <1>6. ASSUME NEW a \in Activities, SendToActivity(a) PROVE Goal
    BY <1>2, <1>6 DEF SendToActivity
  <1>7. ASSUME NEW g \in RemoteAgents, SecondaryEnds(g) PROVE Goal
    BY <1>7 DEF SecondaryEnds
  <1>8. ASSUME NEW g \in RemoteAgents, SecondaryMain(g) PROVE Goal
    <2>1. CASE ConnectAgentSenders(g)
      BY <2>1 DEF ConnectAgentSenders, ConnectSender, TypeOK
    <2>. QED  BY <1>7, <1>8, <2>1 DEF SecondaryMain, ConnectSendersTimesOut, ConnectUp,
                      ForwardToPrimary, SendRelayEnds, JoinAndExit
  <1>9. ASSUME NEW g \in RemoteAgents, SecondaryReceiveRelay(g) PROVE Goal
    BY <1>9 DEF SecondaryReceiveRelay, ConnectWorkers, ConnectDown, WaitStartupSync,
                ForwardToWorker, ForwardBroadcast, LosePrimary
  <1>10. ASSUME NEW w \in Workers, WorkerThread(w) PROVE Goal
    BY <1>10 DEF WorkerThread, WorkerConnects, WorkerConnected, WorkerConnectFails, RunActivity,
                 RunTerminate, WorkerExits
  <1>11. CASE PrimaryKilled
    BY <1>2, <1>11 DEF PrimaryKilled
  <1>12. ASSUME NEW g \in RemoteAgents, SecondaryKilled(g) PROVE Goal
    BY <1>7, <1>12 DEF SecondaryKilled
  <1>. QED  BY <1>1, <1>3, <1>4, <1>5, <1>6, <1>8, <1>9, <1>10, <1>11, <1>12 DEF Next

LEMMA HandshakeInit == Init => Handshake
  <1>. SUFFICES ASSUME Init PROVE Handshake
    OBVIOUS
  <1>1. /\ pc = "spawn" /\ receiveRelay = "none" /\ inbox = << >>
        /\ \A g \in RemoteAgents : sockUp[g] = << >> /\ local_to_ipc[g] = "intra"
    BY DEF Init, PrimaryInit, SecondaryInit, NewChannels
  <1>2. Connect(RelayChannel) \notin Range(inbox)
    BY <1>1, EmptySeq DEF Range
  <1>3. missing[RelayChannel] = RemoteAgents /\ missing[PrimaryAgent] = LocalChannels
    BY Configuration DEF Init, Expected
  <1>4. RelayChannel \in LocalChannels
    BY DEF LocalChannels
  <1>. QED  BY <1>1, <1>2, <1>3, <1>4 DEF Handshake, Started

LEMMA HandshakeStep ==
  ASSUME TypeOK, TypeOK', Handshake, [Next]_vars
  PROVE  Handshake'
  <1>1. ControlMoves
    BY ControlStep
  <1>2. RelayReady => RelayReady'
    BY <1>1 DEF RelayReady, ControlMoves, Handshake
  <1>3. /\ pc' = "spawn" => receiveRelay' = "none"
        /\ receiveRelay' \in {"connect", "run"} => missing'[RelayChannel] = {}
        /\ \A g \in RemoteAgents :
             /\ local_to_ipc'[g] \in {"intra", "inter"} =>
                  sockUp'[g] = << >> /\ g \in missing'[RelayChannel]
             /\ local_to_ipc'[g] = "run" => receiveRelay' # "none"
    <2>1. /\ pc' = "spawn" => receiveRelay' = "none"
          /\ receiveRelay' \in {"connect", "run"} => missing'[RelayChannel] = {}
      BY <1>1 DEF ControlMoves, Handshake
    <2>2. ASSUME NEW g \in RemoteAgents, local_to_ipc'[g] \in {"intra", "inter"}
          PROVE  sockUp'[g] = << >> /\ g \in missing'[RelayChannel]
      <3>1. local_to_ipc[g] \in {"intra", "inter"}
        BY <1>1, <2>2 DEF ControlMoves
      <3>. QED  BY <1>1, <2>2, <3>1 DEF ControlMoves, Handshake
    <2>3. ASSUME NEW g \in RemoteAgents, local_to_ipc'[g] = "run"
          PROVE  receiveRelay' # "none"
      <3>1. receiveRelay # "none"
        BY <1>1, <2>3 DEF ControlMoves, Handshake, UpListening
      <3>. QED  BY <1>1, <3>1 DEF ControlMoves, Handshake
    <2>. QED  BY <2>1, <2>2, <2>3
  <1>4. Connect(RelayChannel) \in Range(inbox') => RelayReady'
    <2>1. CASE receiveRelay = "connect" /\ receiveRelay' = "run"
      <3>1. \A g \in RemoteAgents : g \notin missing[RelayChannel]
        BY <2>1 DEF Handshake
      <3>2. \A g \in RemoteAgents : local_to_ipc'[g] \notin {"intra", "inter"}
        BY <1>1, <1>3, <2>1
      <3>. QED  BY <1>3, <2>1, <3>2 DEF RelayReady
    <2>2. CASE Connect(RelayChannel) \in Range(inbox)
      BY <1>2, <2>2 DEF Handshake
    <2>. QED  BY <2>1, <2>2, InboxStep
  <1>5. /\ RelayChannel \notin missing'[PrimaryAgent] => RelayReady'
        /\ pc' \in Handshaken => RelayReady' \/ Incomplete(PrimaryAgent)'
    <2>1. CASE ConnectLocalSenders
      <3>1. PICK complete \in BOOLEAN :
              /\ ConnectSender(PrimaryAgent, inbox, complete)
              /\ pc' = IF complete THEN "workers" ELSE pc
        BY <2>1 DEF ConnectLocalSenders
      <3>2. /\ inbox # << >> /\ pc = "intra"
            /\ missing'[PrimaryAgent] = IF Head(inbox).type = "Connect"
                                        THEN missing[PrimaryAgent] \ {Head(inbox).id}
                                        ELSE missing[PrimaryAgent]
        BY <2>1, <3>1, Configuration DEF ConnectLocalSenders, ConnectSender, TypeOK
      <3>3. Head(inbox) \in Signals /\ Head(inbox) \in Range(inbox)
        BY <3>2, QueueTypes, HeadInRange DEF TypeOK
      <3>4. Head(inbox).type = "Connect" /\ Head(inbox).id = RelayChannel => Head(inbox) = Connect(RelayChannel)
        BY <3>3 DEF Signals, Connect
      <3>5. RelayChannel \notin missing'[PrimaryAgent] => RelayReady'
        <4>1. CASE RelayChannel \notin missing[PrimaryAgent]
          BY <1>2, <4>1 DEF Handshake
        <4>2. CASE RelayChannel \in missing[PrimaryAgent] /\ RelayChannel \notin missing'[PrimaryAgent]
          BY <1>2, <3>2, <3>3, <3>4, <4>2 DEF Handshake
        <4>. QED  BY <4>1, <4>2
      <3>6. ASSUME pc' \in Handshaken, RelayChannel \in missing'[PrimaryAgent]
            PROVE  Incomplete(PrimaryAgent)'
        BY <3>6 DEF Incomplete, Handshaken, Started
      <3>. QED  BY <3>5, <3>6
    <2>2. CASE /\ missing'[PrimaryAgent] = missing[PrimaryAgent]
               /\ pc' \in Handshaken => pc \in Handshaken
      <3>1. ASSUME Incomplete(PrimaryAgent), pc' \in Handshaken PROVE Incomplete(PrimaryAgent)'
        BY <2>2, <3>1 DEF Incomplete, Handshaken, Started
      <3>. QED  BY <1>2, <2>2, <3>1 DEF Handshake, Handshaken
    <2>. QED  BY <2>1, <2>2, PrimaryWaits
  <1>. QED  BY <1>3, <1>4, <1>5 DEF Handshake, Handshaken

-----------------------------------------------------------------------------
(***************************************************************************)
(* What the steps do to the socket of one agent, and to the channel of one *)
(* worker.                                                                 *)
(***************************************************************************)
DownStep(g) ==
  \/ sockDown'[g] = sockDown[g]
  \/ SyncTime(g) /\ DownOpen(g) /\ sockDown'[g] = Append(sockDown[g], StartupSync)
  \/ \E a \in Activities : /\ SendToActivity(a) /\ pc = "run" /\ pc' = "run"
                           /\ g = AgentOf[WorkerOf[a]]
                           /\ sockDown'[g] = Append(sockDown[g], Activity(a))
  \/ BroadcastRemote(g) /\ sockDown'[g] = Append(sockDown[g], Terminate)
  \/ WaitStartupSync(g) \/ ForwardToWorker(g) \/ ForwardBroadcast(g)
  \/ SecondaryEnds(g)

LEMMA DownSteps ==
  ASSUME TypeOK, [Next]_vars, NEW g \in RemoteAgents
  PROVE  DownStep(g)
  <1>. USE Configuration DEF primaryVars, secondaryVars, channelVars, workerVars
  <1>a. ASSUME sockDown' = sockDown PROVE DownStep(g)
    BY <1>a DEF DownStep
  <1>1. CASE UNCHANGED vars
    BY <1>1, <1>a DEF vars
  <1>2. ASSUME NEW how \in {"failed", "exited"}, PrimaryEnds(how) PROVE DownStep(g)
    BY <1>2, <1>a DEF PrimaryEnds, ProcessEnds
  <1>3. ASSUME NEW h \in RemoteAgents, SendToAgent(h, StartupSync), SyncTime(h) PROVE DownStep(g)
    BY <1>3 DEF SendToAgent, DownStep, TypeOK
  <1>4. ASSUME NEW h \in RemoteAgents, BroadcastRemote(h) PROVE DownStep(g)
    BY <1>4 DEF BroadcastRemote, SendToAgent, DownStep, TypeOK
  <1>5. CASE PrimaryMain
    BY <1>2, <1>3, <1>4, <1>5, <1>a
       DEF PrimaryMain, SpawnReceiveRelay, ConnectLocalSenders, ConnectTimesOut, ConnectLocalWorkers,
           Receive, BroadcastLocal, AckTimeout, JoinWorkers, JoinRelay, ConnectAgent, SyncTime
  <1>6. CASE ReceiveRelayThread
    BY <1>6, <1>a DEF ReceiveRelayThread, AcceptTimesOut, ConnectToScheduler, ReceiveRelayEnds,
                      AcceptAgent, RelayToScheduler
  <1>7. CASE StartTerminate
    BY <1>7, <1>a DEF StartTerminate
  <1>8. ASSUME NEW a \in Activities, SendToActivity(a) PROVE DownStep(g)
    <2>1. CASE PrimaryEnds("failed") \/ sockDown' = sockDown
      BY <1>2, <1>a, <2>1
    <2>2. CASE ~(PrimaryEnds("failed") \/ sockDown' = sockDown)
      <3>1. /\ SendToAgent(AgentOf[WorkerOf[a]], Activity(a)) /\ WorkerOf[a] \notin LocalWorkers
            /\ pc = "run" /\ pc' = "run"
        BY <1>8, <2>2 DEF SendToActivity
      <3>2. AgentOf[WorkerOf[a]] \in RemoteAgents
        BY <3>1
      <3>3. \/ sockDown'[g] = sockDown[g]
            \/ g = AgentOf[WorkerOf[a]] /\ sockDown'[g] = Append(sockDown[g], Activity(a))
        BY <3>1, <3>2 DEF SendToAgent, TypeOK
      <3>. QED  BY <1>8, <3>1, <3>3 DEF DownStep
    <2>. QED  BY <2>1, <2>2
  <1>9. ASSUME NEW h \in RemoteAgents, SecondaryEnds(h) PROVE DownStep(g)
    BY <1>9 DEF SecondaryEnds, ProcessEnds, DownStep, TypeOK
  <1>10. ASSUME NEW h \in RemoteAgents, SecondaryMain(h) PROVE DownStep(g)
    BY <1>9, <1>10, <1>a DEF SecondaryMain, ConnectAgentSenders, ConnectSendersTimesOut, ConnectUp,
                             ForwardToPrimary, SendRelayEnds, JoinAndExit
  <1>11. ASSUME NEW h \in RemoteAgents, SecondaryReceiveRelay(h) PROVE DownStep(g)
    <2>1. ASSUME NEW s, TakeDown(h, s) PROVE h = g \/ sockDown'[g] = sockDown[g]
      BY <2>1 DEF TakeDown, TypeOK
    <2>2. CASE WaitStartupSync(h) \/ ForwardToWorker(h) \/ ForwardBroadcast(h)
      <3>1. h = g \/ sockDown'[g] = sockDown[g]
        BY <2>1, <2>2 DEF WaitStartupSync, ForwardToWorker, ForwardBroadcast
      <3>. QED  BY <2>2, <3>1 DEF DownStep
    <2>. QED  BY <1>11, <1>a, <2>2 DEF SecondaryReceiveRelay, ConnectWorkers, ConnectDown, LosePrimary
  <1>12. ASSUME NEW w \in Workers, WorkerThread(w) PROVE DownStep(g)
    BY <1>12, <1>a DEF WorkerThread, WorkerConnects, WorkerConnected, WorkerConnectFails, RunActivity,
                       RunTerminate, WorkerExits
  <1>13. CASE PrimaryKilled
    BY <1>2, <1>13 DEF PrimaryKilled
  <1>14. ASSUME NEW h \in RemoteAgents, SecondaryKilled(h) PROVE DownStep(g)
    BY <1>9, <1>14 DEF SecondaryKilled
  <1>. QED  BY <1>1, <1>5, <1>6, <1>7, <1>8, <1>10, <1>11, <1>12, <1>13, <1>14 DEF Next

WorkStep(w) ==
  \/ workerQ'[w] = workerQ[w]
  \/ workerQ'[w] = << >> /\ AgentDown(AgentOf[w])'
  \/ /\ ConnectLocalWorkers /\ w \in LocalWorkers /\ pc' \in {"sync"} \cup Started
     /\ workerQ'[w] = Append(workerQ[w], Connect(w))
  \/ /\ w \notin LocalWorkers /\ ConnectWorkers(AgentOf[w]) /\ ipc_to_local'[AgentOf[w]] = "inter"
     /\ workerQ'[w] = Append(workerQ[w], Connect(w))
  \/ \E a \in Activities : /\ SendToActivity(a) /\ pc = "run" /\ pc' = "run"
                           /\ w = WorkerOf[a] /\ w \in LocalWorkers
                           /\ workerQ'[w] = Append(workerQ[w], Activity(a))
  \/ BroadcastLocal /\ w \in LocalWorkers /\ workerQ'[w] = Append(workerQ[w], Terminate)
  \/ /\ w \notin LocalWorkers
     /\ ForwardToWorker(AgentOf[w]) \/ ForwardBroadcast(AgentOf[w])
     /\ workerQ'[w] = Append(workerQ[w], Head(sockDown[AgentOf[w]]))
  \/ WorkerConnected(w) \/ RunActivity(w) \/ RunTerminate(w)

LEMMA WorkSteps ==
  ASSUME TypeOK, Addressed, [Next]_vars, NEW w \in Workers
  PROVE  WorkStep(w)
  <1>. USE Configuration DEF primaryVars, secondaryVars, channelVars, workerVars
  <1>a. ASSUME workerQ' = workerQ PROVE WorkStep(w)
    BY <1>a DEF WorkStep
  <1>1. CASE UNCHANGED vars
    BY <1>1, <1>a DEF vars
  <1>2. ASSUME NEW how \in {"failed", "exited"}, PrimaryEnds(how) PROVE WorkStep(w)
    BY <1>2 DEF PrimaryEnds, ProcessEnds, WorkStep, AgentDown, PrimaryDown, WorkersOf
  <1>3. CASE ConnectLocalWorkers
    <2>1. CASE PrimaryEnds("failed")
      BY <1>2, <2>1
    <2>2. CASE ConnectReceivers(LocalWorkers) /\ pc' = IfRemote("sync", "run")
      BY <1>3, <2>2 DEF ConnectReceivers, WorkStep, IfRemote, Started
    <2>. QED  BY <1>3, <2>1, <2>2 DEF ConnectLocalWorkers
  <1>4. CASE BroadcastLocal
    <2>1. \/ workerQ'[w] = workerQ[w]
          \/ w \in LocalWorkers /\ workerQ'[w] = Append(workerQ[w], Terminate)
      BY <1>4 DEF BroadcastLocal, BroadcastToWorkers, BroadcastReach
    <2>. QED  BY <1>4, <2>1 DEF WorkStep
  <1>5. CASE PrimaryMain
    BY <1>2, <1>3, <1>4, <1>5, <1>a
       DEF PrimaryMain, SpawnReceiveRelay, ConnectLocalSenders, ConnectTimesOut,
           Receive, AckTimeout, JoinWorkers, JoinRelay, ConnectAgent, SyncTime, BroadcastRemote
  <1>6. CASE ReceiveRelayThread
    BY <1>6, <1>a DEF ReceiveRelayThread, AcceptTimesOut, ConnectToScheduler, ReceiveRelayEnds,
                      AcceptAgent, RelayToScheduler
  <1>7. CASE StartTerminate
    BY <1>7, <1>a DEF StartTerminate
  <1>8. ASSUME NEW a \in Activities, SendToActivity(a) PROVE WorkStep(w)
    <2>1. CASE PrimaryEnds("failed") \/ workerQ' = workerQ
      BY <1>2, <1>a, <2>1
    <2>2. CASE ~(PrimaryEnds("failed") \/ workerQ' = workerQ)
      <3>1. /\ SendToWorker(WorkerOf[a], Activity(a)) /\ WorkerOf[a] \in LocalWorkers
            /\ pc = "run" /\ pc' = "run"
        BY <1>8, <2>2 DEF SendToActivity
      <3>2. \/ workerQ'[w] = workerQ[w]
            \/ w = WorkerOf[a] /\ workerQ'[w] = Append(workerQ[w], Activity(a))
        BY <3>1 DEF SendToWorker, TypeOK
      <3>. QED  BY <1>8, <3>1, <3>2 DEF WorkStep
    <2>. QED  BY <2>1, <2>2
  <1>9. ASSUME NEW g \in RemoteAgents, SecondaryEnds(g) PROVE WorkStep(w)
    BY <1>9 DEF SecondaryEnds, ProcessEnds, WorkStep, AgentDown, WorkersOf, TypeOK
  <1>10. ASSUME NEW g \in RemoteAgents, SecondaryMain(g) PROVE WorkStep(w)
    BY <1>9, <1>10, <1>a DEF SecondaryMain, ConnectAgentSenders, ConnectSendersTimesOut, ConnectUp,
                             ForwardToPrimary, SendRelayEnds, JoinAndExit
  <1>11. ASSUME NEW g \in RemoteAgents, SecondaryReceiveRelay(g) PROVE WorkStep(w)
    <2>1. w \in WorkersOf(g) => AgentOf[w] = g /\ w \notin LocalWorkers
      OBVIOUS
    <2>2. CASE ConnectWorkers(g)
      <3>1. \/ workerQ' = workerQ
            \/ ConnectReceivers(WorkersOf(g)) /\ ipc_to_local'[g] = "inter"
        BY <2>2 DEF ConnectWorkers, TypeOK
      <3>. QED  BY <1>a, <2>1, <2>2, <3>1 DEF ConnectReceivers, WorkStep
    <2>3. CASE ForwardToWorker(g)
      <3>1. sockDown[g] # << >> /\ Head(sockDown[g]).type = "Activity"
        BY <2>3 DEF ForwardToWorker, TakeDown
      <3>2. WorkerOf[Head(sockDown[g]).id] \in WorkersOf(g)
        BY SMTT(30), <3>1, Taken
      <3>3. \/ workerQ'[w] = workerQ[w]
            \/ w = WorkerOf[Head(sockDown[g]).id] /\ workerQ'[w] = Append(workerQ[w], Head(sockDown[g]))
        BY <2>3, <3>2 DEF ForwardToWorker, SendToWorker, TypeOK
      <3>. QED  BY <2>1, <2>3, <3>2, <3>3 DEF WorkStep
    <2>4. CASE ForwardBroadcast(g)
      <3>1. \/ workerQ'[w] = workerQ[w]
            \/ w \in WorkersOf(g) /\ workerQ'[w] = Append(workerQ[w], Head(sockDown[g]))
        BY <2>4 DEF ForwardBroadcast, BroadcastToWorkers, BroadcastReach
      <3>. QED  BY <2>1, <2>4, <3>1 DEF WorkStep
    <2>. QED  BY <1>11, <1>a, <2>2, <2>3, <2>4
              DEF SecondaryReceiveRelay, ConnectDown, WaitStartupSync, LosePrimary
  <1>12. ASSUME NEW v \in Workers, WorkerThread(v) PROVE WorkStep(w)
    <2>1. CASE workerQ' = workerQ
      BY <1>a, <2>1
    <2>2. CASE workerQ' = [workerQ EXCEPT ![v] = Tail(@)] /\ v # w
      BY <2>2 DEF WorkStep, TypeOK
    <2>. QED  BY <1>12, <2>1, <2>2 DEF WorkerThread, WorkerConnects, WorkerConnected,
                  WorkerConnectFails, RunActivity, RunTerminate, WorkerExits, WorkStep
  <1>13. CASE PrimaryKilled
    BY <1>2, <1>13 DEF PrimaryKilled
  <1>14. ASSUME NEW g \in RemoteAgents, SecondaryKilled(g) PROVE WorkStep(w)
    BY <1>9, <1>14 DEF SecondaryKilled
  <1>. QED  BY <1>1, <1>5, <1>6, <1>7, <1>8, <1>10, <1>11, <1>12, <1>13, <1>14 DEF Next

-----------------------------------------------------------------------------
(***************************************************************************)
(* SyncFirst.                                                              *)
(***************************************************************************)
LEMMA EndsAppend ==
  ASSUME NEW s \in Seq(Signals), NEW x \in Signals
  PROVE  /\ Append(s, x) # << >>
         /\ Len(s) \in Nat /\ DOMAIN s = 1..Len(s)
         /\ DOMAIN Append(s, x) = 1..(Len(s) + 1) /\ Len(Append(s, x)) = Len(s) + 1
         /\ \A i \in 1..Len(s) : Append(s, x)[i] = s[i]
         /\ Append(s, x)[Len(s) + 1] = x
         /\ s # << >> => Head(Append(s, x)) = Head(s)
         /\ s = << >> => Head(Append(s, x)) = x
  <1>1. /\ Append(s, x) # << >>
        /\ s # << >> => Head(Append(s, x)) = Head(s)
        /\ s = << >> => Head(Append(s, x)) = x
    BY AppendProperties, HeadTailAppend
  <1>. QED  BY <1>1, AppendProperties, LenProperties

LEMMA EndsTail ==
  ASSUME NEW s \in Seq(Signals), s # << >>
  PROVE  /\ Len(s) \in Nat /\ Len(s) > 0 /\ DOMAIN s = 1..Len(s)
         /\ DOMAIN Tail(s) = 1..(Len(s) - 1) /\ Len(Tail(s)) = Len(s) - 1
         /\ \A i \in 1..(Len(s) - 1) : Tail(s)[i] = s[i + 1]
         /\ Head(s) = s[1]
  BY HeadTailProperties, LenProperties, EmptySeq

(* Only SyncTime sends the startup time.                                   *)
LEMMA SyncSentKeeps ==
  ASSUME TypeOK, [Next]_vars, NEW g \in RemoteAgents, ~SyncTime(g), ~PrimaryDown'
  PROVE  SyncSent(g)' <=> SyncSent(g)
  <1>. USE DEF SyncSent, Started, PrimaryDown, primaryVars, secondaryVars, channelVars, workerVars
  <1>1. CASE UNCHANGED vars
    BY <1>1 DEF vars
  <1>2. ASSUME NEW how \in {"failed", "exited"}, PrimaryEnds(how) PROVE FALSE
    BY <1>2 DEF PrimaryEnds
  <1>3. CASE PrimaryMain
    <2>1. CASE ConnectLocalWorkers
      BY <1>2, <2>1 DEF ConnectLocalWorkers, IfRemote
    <2>2. ASSUME NEW h \in RemoteAgents, SyncTime(h) PROVE SyncSent(g)' <=> SyncSent(g)
      BY <1>2, <2>2 DEF SyncTime
    <2>. QED  BY <1>2, <1>3, <2>1, <2>2
         DEF PrimaryMain, SpawnReceiveRelay, ConnectLocalSenders, ConnectTimesOut,
             Receive, BroadcastLocal, AckTimeout, JoinWorkers, JoinRelay, ConnectAgent,
             BroadcastRemote, IfRemote
  <1>4. CASE ReceiveRelayThread
    BY <1>4 DEF ReceiveRelayThread, AcceptTimesOut, ConnectToScheduler, ReceiveRelayEnds,
                AcceptAgent, RelayToScheduler
  <1>5. CASE StartTerminate
    BY <1>5 DEF StartTerminate, IfRemote
  <1>6. ASSUME NEW a \in Activities, SendToActivity(a) PROVE SyncSent(g)' <=> SyncSent(g)
    BY <1>2, <1>6 DEF SendToActivity
  <1>7. ASSUME NEW h \in RemoteAgents, SecondaryMain(h) PROVE SyncSent(g)' <=> SyncSent(g)
    BY <1>7 DEF SecondaryMain, ConnectAgentSenders, ConnectSendersTimesOut, ConnectUp,
                ForwardToPrimary, SendRelayEnds, JoinAndExit, SecondaryEnds
  <1>8. ASSUME NEW h \in RemoteAgents, SecondaryReceiveRelay(h) PROVE SyncSent(g)' <=> SyncSent(g)
    BY <1>8 DEF SecondaryReceiveRelay, ConnectWorkers, ConnectDown, WaitStartupSync,
                ForwardToWorker, ForwardBroadcast, LosePrimary
  <1>9. ASSUME NEW w \in Workers, WorkerThread(w) PROVE SyncSent(g)' <=> SyncSent(g)
    BY <1>9 DEF WorkerThread, WorkerConnects, WorkerConnected, WorkerConnectFails, RunActivity,
                RunTerminate, WorkerExits
  <1>10. CASE PrimaryKilled
    BY <1>2, <1>10 DEF PrimaryKilled
  <1>11. ASSUME NEW h \in RemoteAgents, SecondaryKilled(h) PROVE SyncSent(g)' <=> SyncSent(g)
    BY <1>11 DEF SecondaryKilled, SecondaryEnds
  <1>. QED  BY <1>1, <1>3, <1>4, <1>5, <1>6, <1>7, <1>8, <1>9, <1>10, <1>11 DEF Next

LEMMA SyncFirstStep ==
  ASSUME TypeOK, TypeOK', SyncFirst, [Next]_vars
  PROVE  SyncFirst'
  <1>. SUFFICES ASSUME NEW g \in RemoteAgents PROVE SyncAt(g)'
    BY DEF SyncFirst
  <1>. USE Configuration
  <1>1. ControlMoves /\ DownStep(g) /\ SyncAt(g)
    BY ControlStep, DownSteps DEF SyncFirst
  <1>2. /\ PrimaryDown => PrimaryDown'
        /\ AgentDown(g) => AgentDown(g)'
        /\ ipc_to_local'[g] \in {"intra", "inter", "sync"} => ipc_to_local[g] \in {"intra", "inter", "sync"}
        /\ ipc_to_local'[g] = "run" => ipc_to_local[g] \in {"sync", "run"}
    BY <1>1 DEF ControlMoves, AgentDown
  <1>3. /\ sockDown[g] \in Seq(Signals) /\ StartupSync \in Signals /\ Terminate \in Signals
        /\ Terminate # StartupSync
    BY SignalTypes DEF TypeOK, Terminate, StartupSync
  <1>4. CASE SecondaryEnds(g)
    <2>1. ipc_to_local'[g] = "ended" /\ sockDown'[g] = << >>
      BY <1>4 DEF SecondaryEnds, ProcessEnds, TypeOK
    <2>. QED  BY <2>1, EmptySeq DEF SyncAt
  <1>5. CASE SyncTime(g) /\ DownOpen(g) /\ sockDown'[g] = Append(sockDown[g], StartupSync)
    <2>1. /\ ipc_to_local' = ipc_to_local /\ local_to_ipc' = local_to_ipc
          /\ pc = "sync" /\ g \in todo
      BY <1>5 DEF SyncTime, PrimaryEnds, secondaryVars
    <2>2. ~SyncSent(g) /\ ~PrimaryDown
      BY <2>1 DEF SyncSent, Started, PrimaryDown
    <2>3. ipc_to_local[g] \in {"intra", "inter", "sync"}
      BY <1>1, <1>5, <2>2 DEF SyncAt, DownOpen, TypeOK
    <2>4. sockDown[g] = << >>
      BY <1>1, <1>5, <2>2, <2>3 DEF SyncAt, DownOpen
    <2>5. /\ sockDown'[g] # << >> /\ Head(sockDown'[g]) = StartupSync
          /\ DOMAIN sockDown'[g] = 1..1
      <3>1. Len(sockDown[g]) = 0
        BY <2>4
      <3>. QED  BY <1>3, <1>5, <2>4, <3>1, EndsAppend
    <2>6. SyncSent(g)' \/ PrimaryDown'
      BY <1>5, <2>1 DEF SyncTime, SyncSent, Started, PrimaryDown, PrimaryEnds
    <2>. QED  BY <2>1, <2>3, <2>5, <2>6 DEF SyncAt
  <1>6. ASSUME NEW sig \in Signals, sig # StartupSync, sockDown'[g] = Append(sockDown[g], sig),
               SyncSent(g), SyncSent(g)', ipc_to_local' = ipc_to_local
        PROVE  SyncAt(g)'
    <2>1. /\ sockDown'[g] # << >>
          /\ sockDown[g] # << >> => Head(sockDown'[g]) = Head(sockDown[g])
          /\ \A i \in DOMAIN sockDown'[g] : sockDown'[g][i] = StartupSync =>
               i \in DOMAIN sockDown[g] /\ sockDown[g][i] = StartupSync
      BY <1>3, <1>6, EndsAppend
    <2>. QED  BY <1>1, <1>2, <1>6, <2>1 DEF SyncAt
  <1>7. ASSUME NEW a \in Activities, pc = "run", pc' = "run", SendToActivity(a),
               sockDown'[g] = Append(sockDown[g], Activity(a))
        PROVE  SyncAt(g)'
    <2>1. Activity(a) \in Signals /\ Activity(a) # StartupSync
      BY SignalTypes DEF Activity, StartupSync
    <2>2. SyncSent(g) /\ SyncSent(g)' /\ ipc_to_local' = ipc_to_local
      BY <1>7 DEF SyncSent, Started, SendToActivity, PrimaryEnds, secondaryVars
    <2>. QED  BY <1>6, <1>7, <2>1, <2>2
  <1>8. CASE BroadcastRemote(g) /\ sockDown'[g] = Append(sockDown[g], Terminate)
    <2>1. SyncSent(g) /\ SyncSent(g)' /\ ipc_to_local' = ipc_to_local
      BY <1>8 DEF SyncSent, Started, BroadcastRemote, secondaryVars
    <2>. QED  BY <1>3, <1>6, <1>8, <2>1
  <1>9. CASE WaitStartupSync(g) \/ ForwardToWorker(g) \/ ForwardBroadcast(g)
    <2>1. /\ sockDown[g] # << >> /\ sockDown'[g] = Tail(sockDown[g]) /\ ~AgentDown(g)
          /\ pc' = pc /\ todo' = todo
          /\ \/ ipc_to_local[g] = "run" /\ ipc_to_local'[g] = "run"
             \/ /\ ipc_to_local[g] = "sync"
                /\ ipc_to_local'[g] = IF Head(sockDown[g]) = StartupSync THEN "run" ELSE "sync"
      BY <1>9 DEF WaitStartupSync, ForwardToWorker, ForwardBroadcast, TakeDown, TypeOK,
                  primaryVars, secondaryVars
    <2>2. (SyncSent(g)' <=> SyncSent(g)) /\ (PrimaryDown' <=> PrimaryDown)
      BY <2>1 DEF SyncSent, PrimaryDown
    <2>3. ASSUME NEW i \in DOMAIN sockDown'[g], sockDown'[g][i] = StartupSync PROVE FALSE
      <3>1. i + 1 \in DOMAIN sockDown[g] /\ sockDown[g][i + 1] = StartupSync /\ i + 1 # 1
        BY <1>3, <2>1, <2>3, EndsTail
      <3>. QED  BY <1>1, <3>1 DEF SyncAt
    <2>4. PrimaryDown \/ SyncSent(g)
      BY <1>1, <2>1 DEF SyncAt
    <2>5. ipc_to_local[g] = "sync" /\ ~PrimaryDown => ipc_to_local'[g] = "run"
      BY <1>1, <2>1, <2>4 DEF SyncAt
    <2>. QED  BY <2>1, <2>2, <2>3, <2>4, <2>5 DEF SyncAt
  <1>10. CASE sockDown'[g] = sockDown[g] /\ ~WaitStartupSync(g)
    <2>0. ipc_to_local'[g] = "run" => ipc_to_local[g] = "run"
      BY <1>1, <1>10 DEF ControlMoves
    <2>1. CASE SyncTime(g) /\ ~PrimaryDown'
      <3>1. /\ ipc_to_local' = ipc_to_local /\ local_to_ipc' = local_to_ipc
            /\ pc = "sync" /\ g \in todo /\ SendToAgent(g, StartupSync)
        BY <2>1 DEF SyncTime, PrimaryEnds, PrimaryDown, secondaryVars
      <3>2. ~SyncSent(g) /\ ~PrimaryDown
        BY <3>1 DEF SyncSent, Started, PrimaryDown
      <3>3. ~DownOpen(g)
        <4>1. Append(sockDown[g], StartupSync) # sockDown[g]
          <5>1. /\ Len(Append(sockDown[g], StartupSync)) = Len(sockDown[g]) + 1
                /\ Len(sockDown[g]) \in Nat
            BY <1>3, EndsAppend
          <5>. QED  BY <5>1
        <4>. QED  BY <1>10, <3>1, <4>1 DEF SendToAgent, TypeOK
      <3>4. ipc_to_local[g] # "run"
        BY <1>1, <3>2 DEF SyncAt
      <3>. QED  BY <1>1, <1>2, <1>10, <3>1, <3>3, <3>4 DEF SyncAt, DownOpen
    <2>2. CASE PrimaryDown'
      BY <1>1, <1>10, <2>0, <2>2 DEF SyncAt
    <2>3. CASE ~SyncTime(g) /\ ~PrimaryDown'
      <3>1. SyncSent(g)' <=> SyncSent(g)
        BY <2>3, SyncSentKeeps
      <3>. QED  BY <1>1, <1>2, <1>10, <2>0, <2>3, <3>1 DEF SyncAt
    <2>. QED  BY <2>1, <2>2, <2>3
  <1>. QED  BY <1>1, <1>4, <1>5, <1>7, <1>8, <1>9, <1>10 DEF DownStep

LEMMA SyncFirstInit == Init => SyncFirst
  <1>. SUFFICES ASSUME Init, NEW g \in RemoteAgents PROVE SyncAt(g)
    BY DEF SyncFirst
  <1>1. pc = "spawn" /\ ipc_to_local[g] = "intra" /\ sockDown[g] = << >>
    BY DEF Init, PrimaryInit, SecondaryInit
  <1>. QED  BY <1>1, EmptySeq DEF SyncAt, SyncSent, Started

-----------------------------------------------------------------------------
(***************************************************************************)
(* ConnectFirst.                                                           *)
(***************************************************************************)
WorkerControl(w) ==
  /\ \/ worker'[w] = worker[w]
     \/ worker[w] = "start" /\ worker'[w] = "await"
     \/ worker[w] = "await" /\ worker'[w] = "run"
     \/ worker[w] = "run" /\ worker'[w] = "linger" /\ RunTerminate(w)
     \/ /\ worker'[w] = "gone"
        /\ \/ AgentDown(AgentOf[w])' \/ w \in crashed'
           \/ worker[w] = "linger" \/ SenderDropped(w)
  /\ crashed \subseteq crashed'

LEMMA WorkerControlStep ==
  ASSUME TypeOK, [Next]_vars, NEW w \in Workers
  PROVE  WorkerControl(w)
  <1>. USE Configuration DEF WorkerControl, primaryVars, secondaryVars, channelVars, workerVars
  <1>1. CASE UNCHANGED vars
    BY <1>1 DEF vars
  <1>2. ASSUME NEW how \in {"failed", "exited"}, PrimaryEnds(how) PROVE WorkerControl(w)
    BY <1>2 DEF PrimaryEnds, ProcessEnds, AgentDown, PrimaryDown, WorkersOf
  <1>3. CASE PrimaryMain
    BY <1>2, <1>3
       DEF PrimaryMain, SpawnReceiveRelay, ConnectLocalSenders, ConnectTimesOut, ConnectLocalWorkers,
           Receive, BroadcastLocal, AckTimeout, JoinWorkers, JoinRelay, ConnectAgent, SyncTime,
           BroadcastRemote
  <1>4. CASE ReceiveRelayThread
    BY <1>4 DEF ReceiveRelayThread, AcceptTimesOut, ConnectToScheduler, ReceiveRelayEnds,
                AcceptAgent, RelayToScheduler
  <1>5. CASE StartTerminate
    BY <1>5 DEF StartTerminate
  <1>6. ASSUME NEW a \in Activities, SendToActivity(a) PROVE WorkerControl(w)
    BY <1>2, <1>6 DEF SendToActivity
  <1>7. ASSUME NEW g \in RemoteAgents, SecondaryEnds(g) PROVE worker'[w] = worker[w] \/ (worker'[w] = "gone" /\ AgentDown(AgentOf[w])')
    BY <1>7 DEF SecondaryEnds, ProcessEnds, AgentDown, WorkersOf, TypeOK
  <1>8. ASSUME NEW g \in RemoteAgents, SecondaryMain(g) PROVE WorkerControl(w)
    BY <1>7, <1>8 DEF SecondaryMain, ConnectAgentSenders, ConnectSendersTimesOut, ConnectUp,
                      ForwardToPrimary, SendRelayEnds, JoinAndExit
  <1>9. ASSUME NEW g \in RemoteAgents, SecondaryReceiveRelay(g) PROVE WorkerControl(w)
    BY <1>9 DEF SecondaryReceiveRelay, ConnectWorkers, ConnectDown, WaitStartupSync,
                ForwardToWorker, ForwardBroadcast, LosePrimary
  <1>10. ASSUME NEW v \in Workers, WorkerThread(v) PROVE WorkerControl(w)
    BY <1>10 DEF WorkerThread, WorkerConnects, WorkerConnected, WorkerConnectFails, RunActivity,
                 RunTerminate, WorkerExits, Alive, TypeOK
  <1>11. CASE PrimaryKilled
    BY <1>2, <1>11 DEF PrimaryKilled
  <1>12. ASSUME NEW g \in RemoteAgents, SecondaryKilled(g) PROVE WorkerControl(w)
    BY <1>7, <1>12 DEF SecondaryKilled
  <1>. QED  BY <1>1, <1>3, <1>4, <1>5, <1>6, <1>8, <1>9, <1>10, <1>11, <1>12 DEF Next

(* Only ConnectLocalWorkers makes the primary leave "workers" alive.       *)
LEMMA LocalConnects ==
  ASSUME TypeOK, [Next]_vars, ~PrimaryDown', ~ConnectLocalWorkers
  PROVE  pc' \in {"sync"} \cup Started <=> pc \in {"sync"} \cup Started
  <1>. USE DEF Started, PrimaryDown, primaryVars, secondaryVars, channelVars, workerVars
  <1>. DEFINE Goal == pc' \in {"sync"} \cup Started <=> pc \in {"sync"} \cup Started
  <1>1. CASE UNCHANGED vars
    BY <1>1 DEF vars
  <1>2. ASSUME NEW how \in {"failed", "exited"}, PrimaryEnds(how) PROVE FALSE
    BY <1>2 DEF PrimaryEnds
  <1>3. CASE PrimaryMain
    BY <1>2, <1>3
       DEF PrimaryMain, SpawnReceiveRelay, ConnectLocalSenders, ConnectTimesOut,
           Receive, BroadcastLocal, AckTimeout, JoinWorkers, JoinRelay, ConnectAgent, SyncTime,
           BroadcastRemote, IfRemote
  <1>4. CASE ReceiveRelayThread
    BY <1>4 DEF ReceiveRelayThread, AcceptTimesOut, ConnectToScheduler, ReceiveRelayEnds,
                AcceptAgent, RelayToScheduler
  <1>5. CASE StartTerminate
    BY <1>5 DEF StartTerminate, IfRemote
  <1>6. ASSUME NEW a \in Activities, SendToActivity(a) PROVE Goal
    BY <1>2, <1>6 DEF SendToActivity
  <1>7. ASSUME NEW h \in RemoteAgents, SecondaryMain(h) PROVE Goal
    BY <1>7 DEF SecondaryMain, ConnectAgentSenders, ConnectSendersTimesOut, ConnectUp,
                ForwardToPrimary, SendRelayEnds, JoinAndExit, SecondaryEnds
  <1>8. ASSUME NEW h \in RemoteAgents, SecondaryReceiveRelay(h) PROVE Goal
    BY <1>8 DEF SecondaryReceiveRelay, ConnectWorkers, ConnectDown, WaitStartupSync,
                ForwardToWorker, ForwardBroadcast, LosePrimary
  <1>9. ASSUME NEW w \in Workers, WorkerThread(w) PROVE Goal
    BY <1>9 DEF WorkerThread, WorkerConnects, WorkerConnected, WorkerConnectFails, RunActivity,
                RunTerminate, WorkerExits
  <1>10. CASE PrimaryKilled
    BY <1>2, <1>10 DEF PrimaryKilled
  <1>11. ASSUME NEW h \in RemoteAgents, SecondaryKilled(h) PROVE Goal
    BY <1>11 DEF SecondaryKilled, SecondaryEnds
  <1>. QED  BY <1>1, <1>3, <1>4, <1>5, <1>6, <1>7, <1>8, <1>9, <1>10, <1>11 DEF Next

LEMMA ConnectFirstStep ==
  ASSUME TypeOK, TypeOK', Addressed, ConnectFirst, [Next]_vars
  PROVE  ConnectFirst'
  <1>. SUFFICES ASSUME NEW w \in Workers, worker'[w] \in {"start", "await"},
                       ~AgentDown(AgentOf[w])',
                       ~(w \notin LocalWorkers /\ ipc_to_local'[AgentOf[w]] = "ended")
                PROVE  \/ ConnectSent(w)' /\ workerQ'[w] # << >> /\ Head(workerQ'[w]) = Connect(w)
                       \/ ~ConnectSent(w)' /\ workerQ'[w] = << >>
    BY DEF ConnectFirst, ConnectAt
  <1>. DEFINE Goal == \/ ConnectSent(w)' /\ workerQ'[w] # << >> /\ Head(workerQ'[w]) = Connect(w)
                      \/ ~ConnectSent(w)' /\ workerQ'[w] = << >>
  <1>. USE Configuration
  <1>1. ControlMoves /\ WorkStep(w) /\ WorkerControl(w)
    BY ControlStep, WorkSteps, WorkerControlStep
  <1>2. worker[w] \in {"start", "await"}
    BY <1>1 DEF WorkerControl
  <1>3. ~AgentDown(AgentOf[w]) /\ ~(w \notin LocalWorkers /\ ipc_to_local[AgentOf[w]] = "ended")
    BY <1>1 DEF ControlMoves, AgentDown
  <1>4. \/ ConnectSent(w) /\ workerQ[w] # << >> /\ Head(workerQ[w]) = Connect(w)
        \/ ~ConnectSent(w) /\ workerQ[w] = << >>
    BY <1>2, <1>3 DEF ConnectFirst, ConnectAt
  <1>5. workerQ[w] \in Seq(Signals) /\ Connect(w) \in Signals
    BY SignalTypes DEF TypeOK
  <1>6. ~RunActivity(w) /\ ~RunTerminate(w)
    BY <1>2 DEF RunActivity, RunTerminate, Alive
  <1>7. CASE WorkerConnected(w)
    <2>1. workerQ[w] # << >> /\ worker'[w] = IF Head(workerQ[w]).type = "Connect" THEN "run" ELSE worker[w]
      BY <1>7 DEF WorkerConnected, TypeOK
    <2>2. worker'[w] = "run"
      BY <1>4, <2>1 DEF Connect
    <2>. QED  BY <2>2
  <1>8. ASSUME ~ConnectSent(w), ConnectSent(w)', workerQ'[w] = Append(workerQ[w], Connect(w))
        PROVE  Goal
    BY <1>4, <1>5, <1>8, EndsAppend
  <1>9. CASE /\ ConnectLocalWorkers /\ w \in LocalWorkers /\ pc' \in {"sync"} \cup Started
             /\ workerQ'[w] = Append(workerQ[w], Connect(w))
    BY <1>8, <1>9 DEF ConnectSent, ConnectLocalWorkers, Started
  <1>10. CASE /\ w \notin LocalWorkers /\ ConnectWorkers(AgentOf[w])
              /\ ipc_to_local'[AgentOf[w]] = "inter"
              /\ workerQ'[w] = Append(workerQ[w], Connect(w))
    BY <1>8, <1>10 DEF ConnectSent, ConnectWorkers
  <1>11. ASSUME NEW sig \in Signals, ConnectSent(w), ConnectSent(w)',
                workerQ'[w] = Append(workerQ[w], sig)
         PROVE  Goal
    BY <1>4, <1>5, <1>11, EndsAppend
  <1>12. ASSUME NEW a \in Activities, pc = "run", pc' = "run", w \in LocalWorkers,
                workerQ'[w] = Append(workerQ[w], Activity(a))
         PROVE  Goal
    <2>1. Activity(a) \in Signals
      BY SignalTypes
    <2>2. ConnectSent(w) /\ ConnectSent(w)'
      BY <1>12 DEF ConnectSent, Started
    <2>. QED  BY <1>11, <1>12, <2>1, <2>2
  <1>13. CASE BroadcastLocal /\ w \in LocalWorkers /\ workerQ'[w] = Append(workerQ[w], Terminate)
    <2>1. ConnectSent(w) /\ ConnectSent(w)'
      BY <1>13 DEF ConnectSent, Started, BroadcastLocal, IfRemote
    <2>. QED  BY <1>11, <1>13, <2>1, SignalTypes
  <1>14. CASE /\ w \notin LocalWorkers
              /\ ForwardToWorker(AgentOf[w]) \/ ForwardBroadcast(AgentOf[w])
              /\ workerQ'[w] = Append(workerQ[w], Head(sockDown[AgentOf[w]]))
    <2>1. ConnectSent(w) /\ ConnectSent(w)'
      BY <1>14 DEF ConnectSent, ForwardToWorker, ForwardBroadcast, TakeDown, secondaryVars
    <2>2. Head(sockDown[AgentOf[w]]) \in Signals
      BY <1>14, QueueTypes DEF ForwardToWorker, ForwardBroadcast, TakeDown, TypeOK
    <2>. QED  BY <1>11, <1>14, <2>1, <2>2
  <1>15. CASE workerQ'[w] = workerQ[w] /\ ~WorkerConnected(w)
    <2>1. Append(workerQ[w], Connect(w)) # workerQ[w]
      <3>1. /\ Len(Append(workerQ[w], Connect(w))) = Len(workerQ[w]) + 1
            /\ Len(workerQ[w]) \in Nat
        BY <1>5, EndsAppend
      <3>. QED  BY <3>1
    <2>2. CASE w \in LocalWorkers
      <3>1. ~PrimaryDown'
        BY <2>2 DEF AgentDown
      <3>2. ~ConnectLocalWorkers
        BY <1>15, <2>1, <2>2, <3>1 DEF ConnectLocalWorkers, ConnectReceivers, PrimaryEnds, PrimaryDown
      <3>3. ConnectSent(w)' <=> ConnectSent(w)
        BY <2>2, <3>1, <3>2, LocalConnects DEF ConnectSent
      <3>. QED  BY <1>4, <1>15, <3>3
    <2>3. CASE w \notin LocalWorkers
      <3>1. ConnectWorkers(AgentOf[w]) => ipc_to_local'[AgentOf[w]] = "ended"
        BY <1>15, <2>1, <2>3 DEF ConnectWorkers, ConnectReceivers, WorkersOf, TypeOK
      <3>2. ConnectSent(w)' <=> ConnectSent(w)
        BY <1>1, <1>3, <2>3, <3>1 DEF ControlMoves, ConnectSent
      <3>. QED  BY <1>4, <1>15, <3>2
    <2>. QED  BY <2>2, <2>3
  <1>. QED  BY <1>1, <1>6, <1>7, <1>9, <1>10, <1>12, <1>13, <1>14, <1>15 DEF WorkStep

LEMMA ConnectFirstInit == Init => ConnectFirst
  <1>. SUFFICES ASSUME Init, NEW w \in Workers PROVE ConnectAt(w)
    BY DEF ConnectFirst
  <1>1. pc = "spawn" /\ workerQ[w] = << >>
        /\ \A g \in RemoteAgents : ipc_to_local[g] = "intra"
    BY DEF Init, PrimaryInit, SecondaryInit, NewChannels
  <1>. QED  BY <1>1, Configuration DEF ConnectAt, ConnectSent, Started

-----------------------------------------------------------------------------
(***************************************************************************)
(* TerminateLast.                                                          *)
(***************************************************************************)
Told == {"acks", "join", "joinRelay", "failed", "exited"}

LEMMA FinalStays ==
  ASSUME TypeOK, [Next]_vars
  PROVE  /\ pc \in Told => pc' \in Told
         /\ \A g \in RemoteAgents : Final(g) => Final(g)'
  <1>. USE DEF Told, Final, primaryVars, secondaryVars, channelVars, workerVars
  <1>. DEFINE Goal == /\ pc \in Told => pc' \in Told
                      /\ \A g \in RemoteAgents : Final(g) => Final(g)'
  <1>1. CASE UNCHANGED vars
    BY <1>1 DEF vars
  <1>2. ASSUME NEW how \in {"failed", "exited"}, PrimaryEnds(how) PROVE Goal
    BY <1>2 DEF PrimaryEnds
  <1>3. CASE PrimaryMain
    <2>1. ASSUME NEW g \in RemoteAgents, BroadcastRemote(g) PROVE Goal
      BY <2>1 DEF BroadcastRemote
    <2>. QED  BY <1>2, <1>3, <2>1
         DEF PrimaryMain, SpawnReceiveRelay, ConnectLocalSenders, ConnectTimesOut, ConnectLocalWorkers,
             Receive, BroadcastLocal, AckTimeout, JoinWorkers, JoinRelay, ConnectAgent, SyncTime,
             IfRemote
  <1>4. CASE ReceiveRelayThread
    BY <1>4 DEF ReceiveRelayThread, AcceptTimesOut, ConnectToScheduler, ReceiveRelayEnds,
                AcceptAgent, RelayToScheduler
  <1>5. CASE StartTerminate
    BY <1>5 DEF StartTerminate, IfRemote
  <1>6. ASSUME NEW a \in Activities, SendToActivity(a) PROVE Goal
    BY <1>2, <1>6 DEF SendToActivity
  <1>7. ASSUME NEW h \in RemoteAgents, SecondaryMain(h) PROVE Goal
    BY <1>7 DEF SecondaryMain, ConnectAgentSenders, ConnectSendersTimesOut, ConnectUp,
                ForwardToPrimary, SendRelayEnds, JoinAndExit, SecondaryEnds
  <1>8. ASSUME NEW h \in RemoteAgents, SecondaryReceiveRelay(h) PROVE Goal
    BY <1>8 DEF SecondaryReceiveRelay, ConnectWorkers, ConnectDown, WaitStartupSync,
                ForwardToWorker, ForwardBroadcast, LosePrimary
  <1>9. ASSUME NEW w \in Workers, WorkerThread(w) PROVE Goal
    BY <1>9 DEF WorkerThread, WorkerConnects, WorkerConnected, WorkerConnectFails, RunActivity,
                RunTerminate, WorkerExits
  <1>10. CASE PrimaryKilled
    BY <1>2, <1>10 DEF PrimaryKilled
  <1>11. ASSUME NEW h \in RemoteAgents, SecondaryKilled(h) PROVE Goal
    BY <1>11 DEF SecondaryKilled, SecondaryEnds
  <1>. QED  BY <1>1, <1>3, <1>4, <1>5, <1>6, <1>7, <1>8, <1>9, <1>10, <1>11 DEF Next

LEMMA TerminateSocket ==
  ASSUME TypeOK, TypeOK', TerminateLast, [Next]_vars, NEW g \in RemoteAgents
  PROVE  /\ \A i \in DOMAIN sockDown'[g] :
              sockDown'[g][i] = Terminate => Final(g)' /\ i = Len(sockDown'[g])
         /\ Final(g) /\ sockDown[g] = << >> => sockDown'[g] = << >>
  <1>. DEFINE Goal == /\ \A i \in DOMAIN sockDown'[g] :
                           sockDown'[g][i] = Terminate => Final(g)' /\ i = Len(sockDown'[g])
                      /\ Final(g) /\ sockDown[g] = << >> => sockDown'[g] = << >>
  <1>1. DownStep(g) /\ (Final(g) => Final(g)')
    BY DownSteps, FinalStays
  <1>2. \A i \in DOMAIN sockDown[g] :
          sockDown[g][i] = Terminate => Final(g) /\ i = Len(sockDown[g])
    BY DEF TerminateLast
  <1>3. sockDown[g] \in Seq(Signals)
    BY DEF TypeOK
  <1>4. CASE sockDown'[g] = sockDown[g]
    BY <1>1, <1>2, <1>4
  <1>5. ASSUME NEW sig \in Signals, sockDown'[g] = Append(sockDown[g], sig), ~Final(g),
               sig = Terminate => Final(g)'
        PROVE  Goal
    <2>1. \A i \in DOMAIN sockDown[g] : sockDown[g][i] # Terminate
      BY <1>2, <1>5
    <2>2. /\ DOMAIN sockDown[g] = 1..Len(sockDown[g]) /\ Len(sockDown[g]) \in Nat
          /\ DOMAIN sockDown'[g] = 1..(Len(sockDown[g]) + 1)
          /\ Len(sockDown'[g]) = Len(sockDown[g]) + 1
          /\ \A i \in 1..Len(sockDown[g]) : sockDown'[g][i] = sockDown[g][i]
          /\ sockDown'[g][Len(sockDown[g]) + 1] = sig
      BY <1>3, <1>5, EndsAppend
    <2>3. \A i \in DOMAIN sockDown'[g] : i \in 1..Len(sockDown[g]) \/ i = Len(sockDown[g]) + 1
      BY <2>2
    <2>. QED  BY <1>5, <2>1, <2>2, <2>3
  <1>6. CASE SyncTime(g) /\ sockDown'[g] = Append(sockDown[g], StartupSync)
    <2>1. ~Final(g) /\ StartupSync # Terminate
      BY <1>6 DEF SyncTime, Final, StartupSync, Terminate
    <2>. QED  BY <1>5, <1>6, <2>1, SignalTypes
  <1>7. ASSUME NEW a \in Activities, pc = "run", sockDown'[g] = Append(sockDown[g], Activity(a))
        PROVE  Goal
    <2>1. ~Final(g) /\ Activity(a) # Terminate /\ Activity(a) \in Signals
      BY <1>7, SignalTypes, Configuration DEF Final, Activity, Terminate
    <2>. QED  BY <1>5, <1>7, <2>1
  <1>8. CASE BroadcastRemote(g) /\ sockDown'[g] = Append(sockDown[g], Terminate)
    <2>1. ~Final(g) /\ Final(g)'
      BY <1>8 DEF BroadcastRemote, Final
    <2>. QED  BY <1>5, <1>8, <2>1, SignalTypes
  <1>9. CASE WaitStartupSync(g) \/ ForwardToWorker(g) \/ ForwardBroadcast(g)
    <2>1. sockDown[g] # << >> /\ sockDown'[g] = Tail(sockDown[g])
      BY <1>9 DEF WaitStartupSync, ForwardToWorker, ForwardBroadcast, TakeDown, TypeOK
    <2>2. ASSUME NEW i \in DOMAIN sockDown'[g], sockDown'[g][i] = Terminate
          PROVE  Final(g) /\ i = Len(sockDown'[g])
      <3>1. /\ i + 1 \in DOMAIN sockDown[g] /\ sockDown[g][i + 1] = Terminate
            /\ Len(sockDown'[g]) = Len(sockDown[g]) - 1 /\ Len(sockDown[g]) \in Nat /\ i \in Nat
        BY <1>3, <2>1, <2>2, EndsTail
      <3>2. i + 1 = Len(sockDown[g]) /\ Final(g)
        BY <1>2, <3>1
      <3>. QED  BY <3>1, <3>2
    <2>. QED  BY <1>1, <2>1, <2>2
  <1>10. CASE SecondaryEnds(g)
    <2>1. sockDown'[g] = << >>
      BY <1>10, Configuration DEF SecondaryEnds, ProcessEnds, TypeOK
    <2>. QED  BY <2>1, EmptySeq
  <1>. QED  BY <1>1, <1>4, <1>6, <1>7, <1>8, <1>9, <1>10 DEF DownStep

(* A worker begins to finish with the Terminate it is sent.                *)
LEMMA BeginsToFinish ==
  ASSUME TypeOK, TypeOK', Addressed, [Next]_vars, NEW w \in Workers, Finishing(w)'
  PROVE  \/ Finishing(w)
         \/ BroadcastLocal /\ w \in LocalWorkers
         \/ /\ w \notin LocalWorkers /\ ForwardBroadcast(AgentOf[w])
            /\ Head(sockDown[AgentOf[w]]) = Terminate
  <1>. USE Configuration
  <1>1. ControlMoves /\ WorkStep(w) /\ WorkerControl(w)
    BY ControlStep, WorkSteps, WorkerControlStep
  <1>2. workerQ[w] \in Seq(Signals)
    BY DEF TypeOK
  <1>3. CASE worker'[w] = "linger" /\ Terminate \notin Range(workerQ'[w])
    <2>1. RunTerminate(w) => Terminate \in Range(workerQ[w])
      BY <1>2, HeadInRange DEF RunTerminate
    <2>. QED  BY <1>1, <1>3, <2>1 DEF WorkerControl, Finishing
  <1>4. CASE /\ worker'[w] = "gone" /\ w \notin crashed' /\ ~AgentDown(AgentOf[w])'
             /\ w \notin LocalWorkers => ipc_to_local'[AgentOf[w]] # "ended"
    <2>1. ~AgentDown(AgentOf[w])
      BY <1>1, <1>4 DEF ControlMoves, AgentDown
    <2>2. w \notin LocalWorkers => ipc_to_local[AgentOf[w]] # "ended"
      BY <1>1, <1>4 DEF ControlMoves
    <2>3. ~SenderDropped(w)
      BY <2>1, <2>2 DEF SenderDropped, AgentDown
    <2>. QED  BY <1>1, <1>4, <2>1, <2>2, <2>3 DEF WorkerControl, Finishing
  <1>5. CASE Terminate \in Range(workerQ'[w])
    <2>1. ASSUME NEW S, S \subseteq Signals, Terminate \notin S, Moves(workerQ'[w], workerQ[w], S)
          PROVE  Finishing(w)
      <3>1. PICK B : B = Range(workerQ[w]) \cup S
        OBVIOUS
      <3>2. Range(workerQ[w]) \subseteq Signals
        BY <1>2, LenProperties DEF Range
      <3>3. Range(workerQ'[w]) \subseteq B
        BY <1>2, <2>1, <3>1, <3>2, RangeMoves
      <3>. QED  BY <1>5, <2>1, <3>1, <3>3 DEF Finishing
    <2>2. CASE WorkerConnected(w) \/ RunActivity(w) \/ RunTerminate(w)
      <3>1. workerQ[w] # << >> /\ workerQ'[w] = Tail(workerQ[w])
        BY <2>2 DEF WorkerConnected, RunActivity, RunTerminate, TypeOK
      <3>2. Moves(workerQ'[w], workerQ[w], {})
        BY <3>1 DEF Moves
      <3>. QED  BY <2>1, <3>2
    <2>3. CASE workerQ'[w] \in {workerQ[w], << >>}
      <3>1. Moves(workerQ'[w], workerQ[w], {})
        BY <2>3 DEF Moves
      <3>. QED  BY <2>1, <3>1
    <2>4. ASSUME NEW sig \in Signals, sig # Terminate, workerQ'[w] = Append(workerQ[w], sig)
          PROVE  Finishing(w)
      <3>1. Moves(workerQ'[w], workerQ[w], {sig})
        BY <2>4 DEF Moves
      <3>. QED  BY <2>1, <2>4, <3>1
    <2>5. CASE workerQ'[w] = Append(workerQ[w], Connect(w))
      BY <2>4, <2>5, SignalTypes DEF Connect, Terminate
    <2>6. ASSUME NEW a \in Activities, workerQ'[w] = Append(workerQ[w], Activity(a))
          PROVE  Finishing(w)
      <3>1. Activity(a) \in Signals /\ Activity(a) # Terminate
        BY SignalTypes DEF Activity, Terminate
      <3>. QED  BY <2>4, <2>6, <3>1
    <2>7. ASSUME w \notin LocalWorkers,
                 ForwardToWorker(AgentOf[w]) \/ ForwardBroadcast(AgentOf[w]),
                 workerQ'[w] = Append(workerQ[w], Head(sockDown[AgentOf[w]]))
          PROVE  \/ Finishing(w)
                 \/ ForwardBroadcast(AgentOf[w]) /\ Head(sockDown[AgentOf[w]]) = Terminate
      <3>1. Head(sockDown[AgentOf[w]]) \in Signals
        BY <2>7, QueueTypes DEF ForwardToWorker, ForwardBroadcast, TakeDown, TypeOK
      <3>2. ForwardToWorker(AgentOf[w]) => Head(sockDown[AgentOf[w]]) # Terminate
        BY DEF ForwardToWorker, Terminate
      <3>. QED  BY <2>4, <2>7, <3>1, <3>2
    <2>. QED  BY <1>1, <2>2, <2>3, <2>5, <2>6, <2>7 DEF WorkStep
  <1>. QED  BY <1>3, <1>4, <1>5 DEF Finishing

LEMMA TerminateLastStep ==
  ASSUME TypeOK, TypeOK', Addressed, TerminateLast, [Next]_vars
  PROVE  TerminateLast'
  <1>. USE Configuration
  <1>1. ASSUME NEW w \in Workers, Finishing(w)'
        PROVE  IF w \in LocalWorkers THEN pc' \in Told
               ELSE Final(AgentOf[w])' /\ sockDown'[AgentOf[w]] = << >>
    <2>1. CASE Finishing(w)
      <3>1. IF w \in LocalWorkers THEN pc \in Told
            ELSE Final(AgentOf[w]) /\ sockDown[AgentOf[w]] = << >>
        BY <2>1 DEF TerminateLast, Told
      <3>. QED  BY <3>1, FinalStays, TerminateSocket
    <2>2. CASE BroadcastLocal /\ w \in LocalWorkers
      BY <2>2 DEF BroadcastLocal, IfRemote, Told
    <2>3. CASE /\ w \notin LocalWorkers /\ ForwardBroadcast(AgentOf[w])
               /\ Head(sockDown[AgentOf[w]]) = Terminate
      <3>. PICK g \in RemoteAgents : g = AgentOf[w]
        BY <2>3
      <3>1. /\ sockDown[g] \in Seq(Signals) /\ sockDown[g] # << >>
            /\ sockDown'[g] = Tail(sockDown[g]) /\ Head(sockDown[g]) = Terminate
        BY <2>3 DEF ForwardBroadcast, TakeDown, TypeOK
      <3>2. 1 \in DOMAIN sockDown[g] /\ sockDown[g][1] = Terminate
        BY <3>1, EndsTail
      <3>3. Final(g) /\ Len(sockDown[g]) = 1
        BY <3>2 DEF TerminateLast
      <3>4. sockDown'[g] = << >>
        <4>1. Tail(sockDown[g]) \in Seq(Signals) /\ Len(Tail(sockDown[g])) = 0
          BY <3>1, <3>3, EndsTail, HeadTailProperties
        <4>. QED  BY <3>1, <4>1, EmptySeq
      <3>. QED  BY <2>3, <3>3, <3>4, FinalStays
    <2>. QED  BY <1>1, <2>1, <2>2, <2>3, BeginsToFinish
  <1>. QED  BY <1>1, TerminateSocket DEF TerminateLast, Told

LEMMA TerminateLastInit == Init => TerminateLast
  <1>. SUFFICES ASSUME Init PROVE TerminateLast
    OBVIOUS
  <1>1. /\ \A g \in RemoteAgents : sockDown[g] = << >>
        /\ \A w \in Workers : workerQ[w] = << >> /\ worker[w] = "start"
    BY DEF Init, NewChannels
  <1>. QED  BY <1>1, EmptySeq DEF TerminateLast, Finishing, Range

(***************************************************************************)
(* The inductive invariant of relayed signalling.                          *)
(***************************************************************************)
THEOREM RelayedInvariantHolds == Spec => []RelayedInv
  <1>1. Init => RelayedInv
    BY TypeInit, AddressedInit, ClocksInit, HandshakeInit, SyncFirstInit, ConnectFirstInit,
       TerminateLastInit DEF RelayedInv
  <1>2. RelayedInv /\ [Next]_vars => RelayedInv'
    BY TypeStep, AddressedStep, ClocksStep, HandshakeStep, SyncFirstStep, ConnectFirstStep,
       TerminateLastStep DEF RelayedInv
  <1>. QED  BY <1>1, <1>2, PTL DEF Spec

-----------------------------------------------------------------------------
(***************************************************************************)
(* The refinement: the steps of SignalPipe in terms of the signals under   *)
(* way.                                                                    *)
(***************************************************************************)
SameTo(h)   == \A w \in WorkersOf(h) : UnderWayTo(w)' = UnderWayTo(w)
SameFrom(h) == UnderWayFrom(h)' = UnderWayFrom(h)
Longer(new, old)  == \E x \in Signals : new = Append(old, x)
Shorter(new, old) == old # << >> /\ new = Tail(old)

Posts(h) ==
  /\ SameFrom(h)
  /\ \E ws \in {{w} : w \in WorkersOf(h)} \cup {WorkersOf(h)} :
       \A w \in WorkersOf(h) : /\ w \in ws => Longer(UnderWayTo(w)', UnderWayTo(w))
                               /\ w \notin ws => UnderWayTo(w)' = UnderWayTo(w)

Handles(h) ==
  /\ Longer(UnderWayFrom(h)', UnderWayFrom(h))
  /\ \E w \in WorkersOf(h) :
       /\ Shorter(UnderWayTo(w)', UnderWayTo(w))
       /\ \A v \in WorkersOf(h) \ {w} : UnderWayTo(v)' = UnderWayTo(v)

Delivers(h) == Shorter(UnderWayFrom(h)', UnderWayFrom(h)) /\ SameTo(h)

PipeMoves(h) == (SameTo(h) /\ SameFrom(h)) \/ Posts(h) \/ Handles(h) \/ Delivers(h)

LEMMA AppendGrows ==
  ASSUME NEW s \in Seq(Signals), NEW x \in Signals
  PROVE  Pipe!Grows(Append(s, x), s)
  <1>1. /\ Append(s, x) \in Seq(Signals) /\ Append(s, x) # << >>
        /\ Len(Append(s, x)) = Len(s) + 1 /\ Len(s) \in Nat
        /\ \A i \in 1..Len(s) : Append(s, x)[i] = s[i]
    BY AppendProperties, LenProperties
  <1>. DEFINE t == Append(s, x)
              u == SubSeq(t, 1, Len(t) - 1)
  <1>. HIDE DEF t
  <1>2. Len(t) - 1 = Len(s) /\ \A i \in 1..Len(s) : t[i] = s[i] /\ t[i] \in Signals
    BY <1>1, LenProperties, ElementOfSeq DEF t
  <1>3. /\ SubSeq(t, 1, Len(s)) \in Seq(Signals)
        /\ Len(SubSeq(t, 1, Len(s))) = IF 1 <= Len(s) THEN Len(s) - 1 + 1 ELSE 0
        /\ \A i \in 1..(Len(s) - 1 + 1) : SubSeq(t, 1, Len(s))[i] = t[1 + i - 1]
    <2>1. 1 \in Int /\ Len(s) \in Int
      BY <1>1
    <2>. QED  BY <1>2, <2>1, SubSeqProperties
  <1>4. Len(SubSeq(t, 1, Len(s))) = Len(s) /\ \A i \in 1..Len(s) : SubSeq(t, 1, Len(s))[i] = s[i]
    BY <1>1, <1>2, <1>3
  <1>5. SubSeq(t, 1, Len(s)) = s
    BY <1>3, <1>4, SeqEqual
  <1>. QED  BY <1>1, <1>2, <1>5 DEF Pipe!Grows, t

(* Where the signals under way are sequences of signals.                   *)
LEMMA UnderWayTypes ==
  ASSUME TypeOK
  PROVE  /\ \A w \in Workers : /\ UnderWayTo(w) \in Seq(Signals)
                               /\ Only(workerQ[w], CoreSignals) \in Seq(Signals)
         /\ \A h \in RemoteAgents : /\ Only(sockUp[h], CoreSignals) \in Seq(Signals)
                                    /\ Only(agentQ[h], CoreSignals) \in Seq(Signals)
         /\ \A h \in Agents : /\ UnderWayFrom(h) \in Seq(Signals)
                              /\ Only(inbox, From(h)) \in Seq(Signals)
         /\ \A w \in Workers \ LocalWorkers : Only(sockDown[AgentOf[w]], For(w)) \in Seq(Signals)
  <1>. USE Configuration
  <1>1. \A s \in Seq(Signals) : \A S : Only(s, S) \in Seq(Signals)
    <2>1. Terminate \in Signals
      BY SignalTypes
    <2>. QED  BY <2>1, OnlyAppend
  <1>2. \A w \in Workers \ LocalWorkers : Only(sockDown[AgentOf[w]], For(w)) \in Seq(Signals)
    BY <1>1 DEF TypeOK
  <1>3. \A w \in Workers : Only(workerQ[w], CoreSignals) \in Seq(Signals)
    BY <1>1 DEF TypeOK
  <1>4. \A h \in RemoteAgents : /\ Only(sockUp[h], CoreSignals) \in Seq(Signals)
                                /\ Only(agentQ[h], CoreSignals) \in Seq(Signals)
    BY <1>1 DEF TypeOK
  <1>5. \A h \in Agents : Only(inbox, From(h)) \in Seq(Signals)
    BY <1>1 DEF TypeOK
  <1>6. << >> \in Seq(Signals) /\ \A s, t \in Seq(Signals) : s \o t \in Seq(Signals)
    BY EmptySeq, ConcatProperties
  <1>7. ASSUME NEW w \in Workers PROVE UnderWayTo(w) \in Seq(Signals)
    BY <1>2, <1>3, <1>6 DEF UnderWayTo
  <1>8. ASSUME NEW h \in Agents PROVE UnderWayFrom(h) \in Seq(Signals)
    BY <1>4, <1>5, <1>6 DEF UnderWayFrom
  <1>. QED  BY <1>2, <1>3, <1>4, <1>5, <1>7, <1>8

LEMMA PipeStep ==
  ASSUME TypeOK, NEW h \in Agents, PipeMoves(h)
  PROVE  Pipe!Same(h) \/ Pipe!Post(h) \/ Pipe!Handle(h) \/ Pipe!Deliver(h)
  <1>. USE DEF Pipe!Of, WorkersOf
  <1>0. /\ \A w \in Workers : UnderWayTo(w) \in Seq(Signals)
        /\ UnderWayFrom(h) \in Seq(Signals)
    BY UnderWayTypes
  <1>1. CASE SameTo(h) /\ SameFrom(h)
    BY <1>1 DEF SameTo, SameFrom, Pipe!Same
  <1>2. CASE Posts(h)
    <2>1. PICK ws \in {{w} : w \in WorkersOf(h)} \cup {WorkersOf(h)} :
            \A w \in WorkersOf(h) : /\ w \in ws => Longer(UnderWayTo(w)', UnderWayTo(w))
                                    /\ w \notin ws => UnderWayTo(w)' = UnderWayTo(w)
      BY <1>2 DEF Posts
    <2>2. \A w \in WorkersOf(h) : w \in ws => Pipe!Grows(UnderWayTo(w)', UnderWayTo(w))
      BY <1>0, <2>1, AppendGrows DEF Longer
    <2>. QED  BY <1>2, <2>1, <2>2 DEF Posts, SameFrom, Pipe!Post
  <1>3. CASE Handles(h)
    BY <1>0, <1>3, AppendGrows DEF Handles, Longer, Shorter, Pipe!Handle, Pipe!Shrinks
  <1>4. CASE Delivers(h)
    BY <1>4 DEF Delivers, SameTo, Shorter, Pipe!Deliver, Pipe!Shrinks
  <1>. QED  BY <1>1, <1>2, <1>3, <1>4 DEF PipeMoves

(* Sequences of signals.                                                   *)
LEMMA Concat ==
  ASSUME NEW s \in Seq(Signals), NEW t \in Seq(Signals), NEW x \in Signals
  PROVE  /\ s \o t \in Seq(Signals) /\ <<x>> \o t \in Seq(Signals)
         /\ s \o Append(t, x) = Append(s \o t, x)
         /\ Append(s, x) \o t = s \o (<<x>> \o t)
         /\ s # << >> => s \o t # << >> /\ Tail(s \o t) = Tail(s) \o t
  <1>1. <<x>> \in Seq(Signals)
    OBVIOUS
  <1>2. s \o t \in Seq(Signals) /\ <<x>> \o t \in Seq(Signals)
    BY <1>1, ConcatProperties
  <1>3. s \o Append(t, x) = Append(s \o t, x)
    BY <1>1, <1>2, AppendIsConcat, ConcatAssociative
  <1>4. Append(s, x) \o t = s \o (<<x>> \o t)
    BY <1>1, <1>2, AppendIsConcat, ConcatAssociative
  <1>5. ASSUME s # << >> PROVE s \o t # << >> /\ Tail(s \o t) = Tail(s) \o t
    <2>1. s \o t # << >>
      BY <1>5, ConcatEqualIffEmpty
    <2>2. /\ Tail(s) \in Seq(Signals) /\ Len(Tail(s)) = Len(s) - 1 /\ Len(s) \in Nat \ {0} /\ Len(t) \in Nat
          /\ \A i \in 1..(Len(s) - 1) : Tail(s)[i] = s[i + 1]
      BY <1>5, HeadTailProperties, EmptySeq, LenProperties
    <2>3. /\ Tail(s \o t) \in Seq(Signals) /\ Len(s \o t) = Len(s) + Len(t)
          /\ Len(Tail(s \o t)) = Len(s) + Len(t) - 1
          /\ \A i \in 1..(Len(s) + Len(t) - 1) : Tail(s \o t)[i] = (s \o t)[i + 1]
      BY <1>2, <2>1, HeadTailProperties, ConcatProperties
    <2>4. \A i \in 1..(Len(s) + Len(t)) : (s \o t)[i] = IF i <= Len(s) THEN s[i] ELSE t[i - Len(s)]
      BY ConcatProperties
    <2>5. /\ Tail(s) \o t \in Seq(Signals) /\ Len(Tail(s) \o t) = Len(s) - 1 + Len(t)
          /\ \A i \in 1..(Len(s) - 1 + Len(t)) :
               (Tail(s) \o t)[i] = IF i <= Len(s) - 1 THEN Tail(s)[i] ELSE t[i - (Len(s) - 1)]
      BY <2>2, ConcatProperties
    <2>6. \A i \in 1..(Len(s) + Len(t) - 1) : Tail(s \o t)[i] = (Tail(s) \o t)[i]
      <3>. SUFFICES ASSUME NEW i \in 1..(Len(s) + Len(t) - 1)
                    PROVE  Tail(s \o t)[i] = (Tail(s) \o t)[i]
        OBVIOUS
      <3>1. i + 1 \in 1..(Len(s) + Len(t)) /\ i \in 1..(Len(s) - 1 + Len(t))
        BY <2>2
      <3>2. Tail(s \o t)[i] = IF i + 1 <= Len(s) THEN s[i + 1] ELSE t[(i + 1) - Len(s)]
        BY <2>3, <2>4, <3>1
      <3>3. CASE i <= Len(s) - 1
        <4>1. i \in 1..(Len(s) - 1) /\ i + 1 <= Len(s)
          BY <2>2, <3>3
        <4>. QED  BY <2>2, <2>5, <3>1, <3>2, <3>3, <4>1
      <3>4. CASE ~(i <= Len(s) - 1)
        <4>1. ~(i + 1 <= Len(s)) /\ (i + 1) - Len(s) = i - (Len(s) - 1)
          BY <2>2, <3>4
        <4>. QED  BY <2>5, <3>1, <3>2, <3>4, <4>1
      <3>. QED  BY <3>3, <3>4
    <2>7. Len(Tail(s \o t)) = Len(Tail(s) \o t)
      BY <2>2, <2>3, <2>5
    <2>. QED  BY <2>1, <2>2, <2>3, <2>5, <2>6, <2>7, SeqEqual
  <1>. QED  BY <1>2, <1>3, <1>4, <1>5

(* The entries of a queue in S, when it gets one more entry and when its   *)
(* first one is taken.                                                     *)
Filtering(q, S) ==
  /\ Only(q, S) \in Seq(Signals)
  /\ \A x \in Signals : /\ x \in S => Only(Append(q, x), S) = Append(Only(q, S), x)
                        /\ x \notin S => Only(Append(q, x), S) = Only(q, S)
  /\ q # << >> =>
       /\ Only(Tail(q), S) \in Seq(Signals)
       /\ Head(q) \notin S => Only(Tail(q), S) = Only(q, S)
       /\ Head(q) \in S => /\ Only(q, S) = <<Head(q)>> \o Only(Tail(q), S)
                           /\ Only(q, S) # << >> /\ Tail(Only(q, S)) = Only(Tail(q), S)

LEMMA Filter == \A q \in Seq(Signals) : \A S : Filtering(q, S)
  <1>. TAKE q \in Seq(Signals)
  <1>. TAKE S
  <1>1. ASSUME NEW x \in Signals
        PROVE  /\ x \in S => Only(Append(q, x), S) = Append(Only(q, S), x)
               /\ x \notin S => Only(Append(q, x), S) = Only(q, S)
    <2>1. ASSUME x \in S PROVE Only(Append(q, x), S) = Append(Only(q, S), x)
      BY <2>1, OnlyAppend, SMTT(20)
    <2>2. ASSUME x \notin S PROVE Only(Append(q, x), S) = Only(q, S)
      BY <2>2, OnlyAppend, SMTT(20)
    <2>. QED  BY <2>1, <2>2
  <1>2. Only(q, S) \in Seq(Signals)
    BY OnlyAppend, SignalTypes
  <1>3. q # << >> =>
          /\ Only(Tail(q), S) \in Seq(Signals)
          /\ Head(q) \notin S => Only(Tail(q), S) = Only(q, S)
          /\ Head(q) \in S => /\ Only(q, S) = <<Head(q)>> \o Only(Tail(q), S)
                              /\ Only(q, S) # << >> /\ Tail(Only(q, S)) = Only(Tail(q), S)
    BY OnlyTail
  <1>. QED  BY <1>1, <1>2, <1>3 DEF Filtering

(* The signals of the agents and workers are disjoint, and Core.           *)
LEMMA Disjoint ==
  /\ \A g, h \in Agents : g # h => From(g) \cap From(h) = {}
  /\ \A h \in Agents : From(h) \subseteq CoreSignals
  /\ \A w \in Workers : For(w) \subseteq CoreSignals
  /\ \A c : Connect(c) \notin CoreSignals /\ \A h \in Agents : Connect(c) \notin From(h)
  /\ \A g : ChannelHello(g) \notin CoreSignals
  /\ \A w \in Workers : StartupSync \notin For(w) /\ Terminate \in For(w)
  /\ \A a \in Activities, w \in Workers : Activity(a) \in For(w) <=> w = WorkerOf[a]
  /\ \A sig \in Signals : sig \in CoreSignals <=> Core(sig)
  <1>. USE Configuration
  <1>1. \A g, h \in Agents : g # h => From(g) \cap From(h) = {}
    BY DEF From, Ready, TerminateAck
  <1>2. \A h \in Agents : From(h) \subseteq CoreSignals
    BY SetTypes DEF SetsTyped, From, CoreSignals, Core, Ready, TerminateAck
  <1>3. \A w \in Workers : For(w) \subseteq CoreSignals
    BY SetTypes DEF SetsTyped, For, CoreSignals, Core, Activity, Terminate
  <1>4. \A c : Connect(c) \notin CoreSignals /\ \A h \in Agents : Connect(c) \notin From(h)
    BY DEF CoreSignals, Core, Connect, From, Ready, TerminateAck
  <1>5. \A g : ChannelHello(g) \notin CoreSignals
    BY DEF CoreSignals, Core, ChannelHello
  <1>6. \A w \in Workers : StartupSync \notin For(w) /\ Terminate \in For(w)
    BY DEF For, StartupSync, Activity, Terminate
  <1>7. \A a \in Activities, w \in Workers : Activity(a) \in For(w) <=> w = WorkerOf[a]
    BY DEF For, Activity, Terminate
  <1>8. \A sig \in Signals : sig \in CoreSignals <=> Core(sig)
    BY DEF CoreSignals
  <1>. QED  BY <1>1, <1>2, <1>3, <1>4, <1>5, <1>6, <1>7, <1>8

(* The parts of what is under way.                                         *)
LEMMA UnderWayParts ==
  /\ \A h \in Agents : UnderWayFrom(h)' =
       Only(inbox', From(h)) \o
         IF h = PrimaryAgent THEN << >>
         ELSE Only(sockUp'[h], CoreSignals) \o Only(agentQ'[h], CoreSignals)
  /\ \A w \in Workers : UnderWayTo(w)' =
       Only(workerQ'[w], CoreSignals) \o
         IF w \in LocalWorkers THEN << >> ELSE Only(sockDown'[AgentOf[w]], For(w))
  BY DEF UnderWayFrom, UnderWayTo

LEMMA ToLocal ==
  ASSUME TypeOK, TypeOK', NEW w \in LocalWorkers
  PROVE  /\ UnderWayTo(w) = Only(workerQ[w], CoreSignals)
         /\ UnderWayTo(w)' = Only(workerQ'[w], CoreSignals)
  <1>1. workerQ[w] \in Seq(Signals) /\ workerQ'[w] \in Seq(Signals) /\ w \in Workers
    BY Configuration DEF TypeOK
  <1>2. Filtering(workerQ[w], CoreSignals) /\ Filtering(workerQ'[w], CoreSignals)
    BY <1>1, Filter
  <1>3. Only(workerQ[w], CoreSignals) \in Seq(Signals) /\ Only(workerQ'[w], CoreSignals) \in Seq(Signals)
    BY <1>2 DEF Filtering
  <1>. QED  BY <1>1, <1>3, UnderWayParts, ConcatEmptySeq DEF UnderWayTo

(* A queue whose entries in S stay as they are.                            *)
Kept(new, old, S) ==
  \/ new = old
  \/ \E x \in Signals : x \notin S /\ (new = Append(old, x) \/ (old = << >> /\ new = <<x>>))
  \/ old # << >> /\ Head(old) \notin S /\ new = Tail(old)

LEMMA KeptOnly ==
  ASSUME NEW old \in Seq(Signals), NEW new, NEW S, Kept(new, old, S)
  PROVE  Only(new, S) = Only(old, S)
  <1>1. Filtering(old, S)
    BY Filter
  <1>2. \A x \in Signals : old = << >> => Append(old, x) = <<x>>
    OBVIOUS
  <1>. QED  BY <1>1, <1>2 DEF Filtering, Kept

(* What a step does to the signals under way to a worker, from what it     *)
(* does to the queues.                                                     *)
LEMMA ToKeeps ==
  ASSUME TypeOK, NEW w \in Workers,
         Kept(workerQ'[w], workerQ[w], CoreSignals),
         w \notin LocalWorkers =>
           Kept(sockDown'[AgentOf[w]], sockDown[AgentOf[w]], For(w))
  PROVE  UnderWayTo(w)' = UnderWayTo(w)
  <1>1. Only(workerQ'[w], CoreSignals) = Only(workerQ[w], CoreSignals)
    BY KeptOnly DEF TypeOK
  <1>2. ASSUME w \notin LocalWorkers
        PROVE  Only(sockDown'[AgentOf[w]], For(w)) = Only(sockDown[AgentOf[w]], For(w))
    BY <1>2, Configuration, KeptOnly DEF TypeOK
  <1>. QED  BY <1>1, <1>2, UnderWayParts DEF UnderWayTo

LEMMA ToGrows ==
  ASSUME TypeOK, TypeOK', NEW w \in Workers, NEW x \in For(w),
         IF w \in LocalWorkers THEN workerQ'[w] = Append(workerQ[w], x)
         ELSE /\ workerQ'[w] = workerQ[w]
              /\ sockDown'[AgentOf[w]] = Append(sockDown[AgentOf[w]], x)
  PROVE  Longer(UnderWayTo(w)', UnderWayTo(w))
  <1>1. x \in Signals /\ x \in CoreSignals
    BY SetTypes, Disjoint DEF SetsTyped
  <1>2. CASE w \in LocalWorkers
    <2>1. Filtering(workerQ[w], CoreSignals)
      BY Filter DEF TypeOK
    <2>2. Only(workerQ'[w], CoreSignals) = Append(Only(workerQ[w], CoreSignals), x)
      BY <1>1, <1>2, <2>1 DEF Filtering
    <2>. QED  BY <1>1, <1>2, <2>2, ToLocal DEF Longer
  <1>3. CASE w \notin LocalWorkers
    <2>. PICK d : d = sockDown[AgentOf[w]]
      OBVIOUS
    <2>1. Filtering(d, For(w))
      BY <1>3, Configuration, Filter DEF TypeOK
    <2>2. Only(sockDown'[AgentOf[w]], For(w)) = Append(Only(d, For(w)), x)
      BY <1>1, <1>3, <2>1 DEF Filtering
    <2>. PICK t : t = Only(d, For(w))
      OBVIOUS
    <2>. PICK s : s = Only(workerQ[w], CoreSignals)
      OBVIOUS
    <2>3. s \in Seq(Signals) /\ t \in Seq(Signals)
      BY <2>1, UnderWayTypes DEF Filtering
    <2>4. UnderWayTo(w)' = s \o Append(t, x)
      BY <1>3, <2>2, UnderWayParts
    <2>5. UnderWayTo(w) = s \o t
      BY <1>3 DEF UnderWayTo
    <2>6. s \o Append(t, x) = Append(s \o t, x)
      BY <1>1, <2>3, Concat
    <2>. QED  BY <1>1, <2>4, <2>5, <2>6 DEF Longer
  <1>. QED  BY <1>2, <1>3

LEMMA ToShrinks ==
  ASSUME TypeOK, TypeOK', NEW w \in Workers,
         workerQ[w] # << >>, Head(workerQ[w]) \in CoreSignals, workerQ'[w] = Tail(workerQ[w]),
         w \notin LocalWorkers => sockDown'[AgentOf[w]] = sockDown[AgentOf[w]]
  PROVE  Shorter(UnderWayTo(w)', UnderWayTo(w))
  <1>. PICK s : s = Only(workerQ[w], CoreSignals)
    OBVIOUS
  <1>1. s \in Seq(Signals) /\ s # << >> /\ Only(workerQ'[w], CoreSignals) = Tail(s)
    <2>1. Filtering(workerQ[w], CoreSignals)
      BY Filter DEF TypeOK
    <2>. QED  BY <2>1 DEF Filtering
  <1>2. CASE w \in LocalWorkers
    BY <1>1, <1>2, ToLocal DEF Shorter
  <1>3. CASE w \notin LocalWorkers
    <2>1. PICK d : d = Only(sockDown[AgentOf[w]], For(w)) /\ d \in Seq(Signals)
      BY <1>3, UnderWayTypes
    <2>2. UnderWayTo(w) = s \o d
      BY <1>3, <2>1 DEF UnderWayTo
    <2>3. UnderWayTo(w)' = Tail(s) \o d
      BY <1>1, <1>3, <2>1, UnderWayParts
    <2>4. s \o d # << >> /\ Tail(s \o d) = Tail(s) \o d
      BY SMTT(30), <1>1, <2>1, Concat, SignalTypes
    <2>. QED  BY <2>2, <2>3, <2>4 DEF Shorter
  <1>. QED  BY <1>2, <1>3

(* The relay hands the worker a signal for it.                             *)
LEMMA ToShifts ==
  ASSUME TypeOK, TypeOK', NEW w \in Workers, w \notin LocalWorkers,
         NEW d, d = sockDown[AgentOf[w]], d # << >>, Head(d) \in For(w),
         sockDown'[AgentOf[w]] = Tail(d), workerQ'[w] = Append(workerQ[w], Head(d))
  PROVE  UnderWayTo(w)' = UnderWayTo(w)
  <1>. PICK x, s, t : /\ x = Head(d) /\ s = Only(workerQ[w], CoreSignals)
                      /\ t = Only(Tail(d), For(w))
    OBVIOUS
  <1>1. /\ d \in Seq(Signals) /\ workerQ[w] \in Seq(Signals)
        /\ x \in Signals /\ x \in CoreSignals
    BY Configuration, SetTypes, Disjoint DEF SetsTyped, TypeOK
  <1>2. Filtering(d, For(w)) /\ Filtering(workerQ[w], CoreSignals)
    BY <1>1, Filter
  <1>3. Only(d, For(w)) = <<x>> \o t /\ t \in Seq(Signals)
    BY <1>2 DEF Filtering
  <1>4. Only(workerQ'[w], CoreSignals) = Append(s, x) /\ s \in Seq(Signals)
    BY <1>1, <1>2 DEF Filtering
  <1>5. UnderWayTo(w)' = Append(s, x) \o t
    BY <1>4, UnderWayParts
  <1>6. UnderWayTo(w) = s \o (<<x>> \o t)
    BY <1>3 DEF UnderWayTo
  <1>7. ASSUME NEW a \in Seq(Signals), NEW b \in Seq(Signals), NEW y \in Signals
        PROVE  Append(a, y) \o b = a \o (<<y>> \o b)
    BY Concat
  <1>. QED  BY ZenonT(40), <1>1, <1>3, <1>4, <1>5, <1>6, <1>7

(* The same for the signals under way from an agent.                       *)
LEMMA FromKeeps ==
  ASSUME TypeOK, NEW h \in Agents,
         Kept(inbox', inbox, From(h)),
         h # PrimaryAgent => /\ Kept(sockUp'[h], sockUp[h], CoreSignals)
                             /\ Kept(agentQ'[h], agentQ[h], CoreSignals)
  PROVE  SameFrom(h)
  <1>1. Only(inbox', From(h)) = Only(inbox, From(h))
    BY KeptOnly DEF TypeOK
  <1>2. ASSUME h # PrimaryAgent
        PROVE  /\ Only(sockUp'[h], CoreSignals) = Only(sockUp[h], CoreSignals)
               /\ Only(agentQ'[h], CoreSignals) = Only(agentQ[h], CoreSignals)
    BY <1>2, Configuration, KeptOnly DEF TypeOK
  <1>. QED  BY <1>1, <1>2, UnderWayParts DEF UnderWayFrom, SameFrom

LEMMA FromLocal ==
  ASSUME TypeOK, TypeOK'
  PROVE  /\ UnderWayFrom(PrimaryAgent) = Only(inbox, From(PrimaryAgent))
         /\ UnderWayFrom(PrimaryAgent)' = Only(inbox', From(PrimaryAgent))
  <1>1. Filtering(inbox, From(PrimaryAgent)) /\ Filtering(inbox', From(PrimaryAgent))
    BY Filter DEF TypeOK
  <1>2. Only(inbox, From(PrimaryAgent)) \in Seq(Signals) /\ Only(inbox', From(PrimaryAgent)) \in Seq(Signals)
    BY <1>1 DEF Filtering
  <1>. QED  BY <1>2, UnderWayParts, ConcatEmptySeq, Configuration DEF UnderWayFrom

LEMMA FromGrows ==
  ASSUME TypeOK, TypeOK', NEW h \in Agents, NEW x \in From(h),
         IF h = PrimaryAgent THEN inbox' = Append(inbox, x)
         ELSE /\ inbox' = inbox /\ sockUp'[h] = sockUp[h]
              /\ agentQ'[h] = Append(agentQ[h], x)
  PROVE  Longer(UnderWayFrom(h)', UnderWayFrom(h))
  <1>1. x \in Signals /\ x \in CoreSignals
    BY SetTypes, Disjoint DEF SetsTyped
  <1>2. CASE h = PrimaryAgent
    <2>1. Filtering(inbox, From(h))
      BY Filter DEF TypeOK
    <2>2. Only(inbox', From(h)) = Append(Only(inbox, From(h)), x)
      BY <1>1, <1>2, <2>1 DEF Filtering
    <2>. QED  BY <1>1, <1>2, <2>2, FromLocal DEF Longer
  <1>3. CASE h # PrimaryAgent
    <2>1. h \in RemoteAgents
      BY <1>3, Configuration
    <2>. PICK r \in Seq(Signals), s \in Seq(Signals), t \in Seq(Signals) :
           /\ r = Only(inbox, From(h)) /\ s = Only(sockUp[h], CoreSignals)
           /\ t = Only(agentQ[h], CoreSignals)
      BY <2>1, UnderWayTypes
    <2>. PICK y \in Signals : y = x
      BY <1>1
    <2>2. Filtering(agentQ[h], CoreSignals)
      BY <2>1, Filter DEF TypeOK
    <2>3. Only(agentQ'[h], CoreSignals) = Append(t, y)
      BY <1>1, <1>3, <2>2 DEF Filtering
    <2>4. UnderWayFrom(h)' = r \o (s \o Append(t, y))
      BY <1>3, <2>3, UnderWayParts
    <2>5. UnderWayFrom(h) = r \o (s \o t)
      BY <1>3 DEF UnderWayFrom
    <2>. PICK d \in Seq(Signals) : d = s \o t
      BY ConcatProperties
    <2>6. s \o Append(t, y) = Append(d, y)
      BY Concat
    <2>7. r \o Append(d, y) = Append(r \o d, y)
      BY SMTT(30), Concat
    <2>. QED  BY <2>4, <2>5, <2>6, <2>7 DEF Longer
  <1>. QED  BY <1>2, <1>3

LEMMA FromShrinks ==
  ASSUME TypeOK, TypeOK', NEW h \in Agents,
         inbox # << >>, Head(inbox) \in From(h), inbox' = Tail(inbox),
         h # PrimaryAgent => sockUp'[h] = sockUp[h] /\ agentQ'[h] = agentQ[h]
  PROVE  Shorter(UnderWayFrom(h)', UnderWayFrom(h))
  <1>. PICK s : s = Only(inbox, From(h))
    OBVIOUS
  <1>1. s \in Seq(Signals) /\ s # << >> /\ Only(inbox', From(h)) = Tail(s)
    <2>1. Filtering(inbox, From(h))
      BY Filter DEF TypeOK
    <2>. QED  BY <2>1 DEF Filtering
  <1>2. CASE h = PrimaryAgent
    BY <1>1, <1>2, FromLocal DEF Shorter
  <1>3. CASE h # PrimaryAgent
    <2>1. PICK t : /\ t = Only(sockUp[h], CoreSignals) \o Only(agentQ[h], CoreSignals)
                   /\ t \in Seq(Signals)
      BY <1>3, Configuration, UnderWayTypes, ConcatProperties
    <2>2. UnderWayFrom(h) = s \o t
      BY <1>3, <2>1 DEF UnderWayFrom
    <2>3. UnderWayFrom(h)' = Tail(s) \o t
      BY <1>1, <1>3, <2>1, UnderWayParts
    <2>4. s \o t # << >> /\ Tail(s \o t) = Tail(s) \o t
      BY <1>1, <2>1, Concat, SignalTypes
    <2>. QED  BY <2>2, <2>3, <2>4 DEF Shorter
  <1>. QED  BY <1>2, <1>3

(* A signal moves from the front of one part to the end of the other.      *)
LEMMA FrontConcat ==
  ASSUME NEW s \in Seq(Signals), NEW t \in Seq(Signals), NEW u \in Seq(Signals),
         NEW x \in Signals, s = <<x>> \o u
  PROVE  s \o t = <<x>> \o (u \o t)
  BY ConcatAssociative

LEMMA HandOn ==
  ASSUME NEW s \in Seq(Signals), NEW t \in Seq(Signals), NEW u \in Seq(Signals),
         NEW x \in Signals, t = <<x>> \o u
  PROVE  Append(s, x) \o u = s \o t
  <1>1. Append(s, x) \o u = s \o (<<x>> \o u)
    BY Concat
  <1>. QED  BY <1>1

(* The relays hand on a signal towards the scheduler.                      *)
LEMMA FromShifts ==
  ASSUME TypeOK, TypeOK', NEW h \in Agents, h # PrimaryAgent,
         \/ /\ sockUp[h] # << >> /\ Head(sockUp[h]) \in From(h)
            /\ sockUp'[h] = Tail(sockUp[h]) /\ agentQ'[h] = agentQ[h]
            /\ inbox' = Append(inbox, Head(sockUp[h]))
         \/ /\ agentQ[h] # << >> /\ Head(agentQ[h]) \in CoreSignals
            /\ agentQ'[h] = Tail(agentQ[h]) /\ inbox' = inbox
            /\ sockUp'[h] = Append(sockUp[h], Head(agentQ[h]))
  PROVE  SameFrom(h)
  <1>0. h \in RemoteAgents
    BY Configuration
  <1>1. PICK r \in Seq(Signals), s \in Seq(Signals), t \in Seq(Signals) :
         /\ r = Only(inbox, From(h)) /\ s = Only(sockUp[h], CoreSignals)
         /\ t = Only(agentQ[h], CoreSignals)
    BY <1>0, UnderWayTypes
  <1>2. UnderWayFrom(h) = r \o (s \o t)
    BY <1>1 DEF UnderWayFrom
  <1>3. /\ Filtering(inbox, From(h)) /\ Filtering(sockUp[h], CoreSignals)
        /\ Filtering(agentQ[h], CoreSignals)
    BY <1>0, Filter DEF TypeOK
  <1>4. CASE /\ sockUp[h] # << >> /\ Head(sockUp[h]) \in From(h)
             /\ sockUp'[h] = Tail(sockUp[h]) /\ agentQ'[h] = agentQ[h]
             /\ inbox' = Append(inbox, Head(sockUp[h]))
    <2>1. Head(sockUp[h]) \in Signals /\ Head(sockUp[h]) \in CoreSignals
      BY <1>4, SetTypes, Disjoint DEF SetsTyped
    <2>2. PICK x \in Signals : x = Head(sockUp[h]) /\ x \in CoreSignals /\ x \in From(h)
      BY <1>4, <2>1
    <2>3. PICK u \in Seq(Signals) : u = Only(Tail(sockUp[h]), CoreSignals)
      BY <1>3, <1>4, <2>2 DEF Filtering
    <2>4. s = <<x>> \o u
      BY <1>3, <1>1, <1>4, <2>2, <2>3 DEF Filtering
    <2>5. Only(inbox', From(h)) = Append(r, x)
      BY <1>3, <1>1, <1>4, <2>2 DEF Filtering
    <2>6. UnderWayFrom(h)' = Append(r, x) \o (u \o t)
      BY <1>1, <1>4, <2>3, <2>5, UnderWayParts
    <2>7. PICK d \in Seq(Signals) : d = u \o t
      BY ConcatProperties
    <2>8. PICK e \in Seq(Signals) : e = s \o t
      BY ConcatProperties
    <2>9. s \o t = <<x>> \o (u \o t)
      BY <2>4, FrontConcat
    <2>10. e = <<x>> \o d
      BY <2>7, <2>8, <2>9
    <2>11. Append(r, x) \o d = r \o e
      BY SMTT(30), <2>10, HandOn
    <2>. QED  BY <1>2, <2>6, <2>7, <2>8, <2>11 DEF SameFrom
  <1>5. CASE /\ agentQ[h] # << >> /\ Head(agentQ[h]) \in CoreSignals
             /\ agentQ'[h] = Tail(agentQ[h]) /\ inbox' = inbox
             /\ sockUp'[h] = Append(sockUp[h], Head(agentQ[h]))
    <2>2. PICK x \in Signals : x = Head(agentQ[h]) /\ x \in CoreSignals
      BY <1>5 DEF CoreSignals
    <2>3. PICK u \in Seq(Signals) : u = Only(Tail(agentQ[h]), CoreSignals)
      BY <1>3, <1>5, <2>2 DEF Filtering
    <2>4. t = <<x>> \o u
      BY <1>3, <1>1, <1>5, <2>2, <2>3 DEF Filtering
    <2>5. Only(sockUp'[h], CoreSignals) = Append(s, x)
      BY <1>3, <1>1, <1>5, <2>2 DEF Filtering
    <2>6. UnderWayFrom(h)' = r \o (Append(s, x) \o u)
      BY <1>1, <1>5, <2>3, <2>5, UnderWayParts
    <2>7. Append(s, x) \o u = s \o t
      BY SMTT(30), <2>4, HandOn
    <2>. QED  BY <1>2, <2>6, <2>7 DEF SameFrom
  <1>. QED  BY <1>4, <1>5

-----------------------------------------------------------------------------
(***************************************************************************)
(* The steps, seen by an agent that is not broken.                         *)
(***************************************************************************)
Live(h) ==
  /\ ~PrimaryDown /\ ~AgentDown(h) /\ ~Incomplete(PrimaryAgent)
  /\ \A w \in WorkersOf(h) : w \notin crashed
  /\ h # PrimaryAgent => /\ receiveRelay # "ended" /\ ~UpClosed(h)
                         /\ ipc_to_local[h] # "ended"

LEMMA BrokenOrLive ==
  ASSUME NEW h \in Agents
  PROVE  (Broken(h) \/ Live(h)) /\ (Broken(h)' \/ Live(h)')
  BY Configuration DEF Broken, Live

LEMMA EarlyEnds ==
  ASSUME TypeOK, [Next]_vars, pc \notin Early
  PROVE  pc' \notin Early
  <1>. USE DEF Early, primaryVars, secondaryVars, channelVars, workerVars
  <1>. DEFINE Goal == pc' \notin Early
  <1>1. CASE UNCHANGED vars
    BY <1>1 DEF vars
  <1>2. ASSUME NEW how \in {"failed", "exited"}, PrimaryEnds(how) PROVE Goal
    BY <1>2 DEF PrimaryEnds
  <1>3. CASE PrimaryMain
    BY <1>2, <1>3
       DEF PrimaryMain, SpawnReceiveRelay, ConnectLocalSenders, ConnectTimesOut, ConnectLocalWorkers,
           Receive, BroadcastLocal, AckTimeout, JoinWorkers, JoinRelay, ConnectAgent, SyncTime,
           BroadcastRemote, IfRemote
  <1>4. CASE ReceiveRelayThread
    BY <1>4 DEF ReceiveRelayThread, AcceptTimesOut, ConnectToScheduler, ReceiveRelayEnds,
                AcceptAgent, RelayToScheduler
  <1>5. CASE StartTerminate
    BY <1>5 DEF StartTerminate, IfRemote
  <1>6. ASSUME NEW a \in Activities, SendToActivity(a) PROVE Goal
    BY <1>2, <1>6 DEF SendToActivity
  <1>7. ASSUME NEW h \in RemoteAgents, SecondaryMain(h) PROVE Goal
    BY <1>7 DEF SecondaryMain, ConnectAgentSenders, ConnectSendersTimesOut, ConnectUp,
                ForwardToPrimary, SendRelayEnds, JoinAndExit, SecondaryEnds
  <1>8. ASSUME NEW h \in RemoteAgents, SecondaryReceiveRelay(h) PROVE Goal
    BY <1>8 DEF SecondaryReceiveRelay, ConnectWorkers, ConnectDown, WaitStartupSync,
                ForwardToWorker, ForwardBroadcast, LosePrimary
  <1>9. ASSUME NEW w \in Workers, WorkerThread(w) PROVE Goal
    BY <1>9 DEF WorkerThread, WorkerConnects, WorkerConnected, WorkerConnectFails, RunActivity,
                RunTerminate, WorkerExits
  <1>10. CASE PrimaryKilled
    BY <1>2, <1>10 DEF PrimaryKilled
  <1>11. ASSUME NEW h \in RemoteAgents, SecondaryKilled(h) PROVE Goal
    BY <1>11 DEF SecondaryKilled, SecondaryEnds
  <1>. QED  BY <1>1, <1>3, <1>4, <1>5, <1>6, <1>7, <1>8, <1>9, <1>10, <1>11 DEF Next

(* What is broken stays so.                                                *)
LEMMA BrokenStays ==
  ASSUME TypeOK, Handshake, [Next]_vars, NEW h \in Agents, Broken(h)
  PROVE  Broken(h)'
  <1>. USE Configuration
  <1>1. ControlMoves
    BY ControlStep
  <1>2. PrimaryDown => PrimaryDown'
    BY <1>1 DEF ControlMoves
  <1>3. Incomplete(PrimaryAgent) => Incomplete(PrimaryAgent)'
    <2>. SUFFICES ASSUME Incomplete(PrimaryAgent) PROVE Incomplete(PrimaryAgent)'
      OBVIOUS
    <2>1. missing[PrimaryAgent] # {} /\ pc \notin Early
      BY DEF Incomplete, Early
    <2>2. missing'[PrimaryAgent] = missing[PrimaryAgent]
      BY <2>1, PrimaryWaits DEF ConnectLocalSenders, Early
    <2>. QED  BY <2>1, <2>2, EarlyEnds DEF Incomplete, Early
  <1>4. ASSUME NEW w \in WorkersOf(h), w \in crashed PROVE WorkersOf(h) \cap crashed' # {}
    <2>1. crashed \subseteq crashed'
      BY WorkerControlStep DEF WorkerControl
    <2>. QED  BY <1>4, <2>1
  <1>5. ASSUME h \in RemoteAgents
        PROVE  /\ AgentDown(h) => AgentDown(h)'
               /\ UpClosed(h) => UpClosed(h)'
               /\ receiveRelay = "ended" => receiveRelay' = "ended"
               /\ ipc_to_local[h] = "ended" => ipc_to_local'[h] = "ended"
    <2>1. receiveRelay = "ended" => receiveRelay' = "ended"
      BY <1>1 DEF ControlMoves, Handshake
    <2>. QED  BY <1>1, <1>5, <2>1 DEF ControlMoves, AgentDown, UpClosed
  <1>6. h = PrimaryAgent => (AgentDown(h) <=> PrimaryDown) /\ (AgentDown(h)' <=> PrimaryDown')
    BY DEF AgentDown
  <1>. QED  BY <1>2, <1>3, <1>4, <1>5, <1>6 DEF Broken

LEMMA ToSame ==
  ASSUME TypeOK, NEW h \in Agents,
         \A w \in WorkersOf(h) :
           /\ Kept(workerQ'[w], workerQ[w], CoreSignals)
           /\ h # PrimaryAgent => Kept(sockDown'[h], sockDown[h], For(w))
  PROVE  SameTo(h)
  <1>. SUFFICES ASSUME NEW w \in WorkersOf(h) PROVE UnderWayTo(w)' = UnderWayTo(w)
    BY DEF SameTo
  <1>1. w \in Workers /\ AgentOf[w] = h /\ (w \notin LocalWorkers => h # PrimaryAgent)
    BY Configuration
  <1>. QED  BY <1>1, ToKeeps

LEMMA QueueMoves ==
  \A q, S : /\ Kept(q, q, S)
            /\ \A x \in Signals : x \notin S => Kept(Append(q, x), q, S)
            /\ q # << >> /\ Head(q) \notin S => Kept(Tail(q), q, S)
  BY DEF Kept

(* The queues of agent h do not change.                                    *)
QuietTo(h)   == /\ \A w \in WorkersOf(h) : workerQ'[w] = workerQ[w]
                /\ h # PrimaryAgent => sockDown'[h] = sockDown[h]
QuietFrom(h) == /\ inbox' = inbox
                /\ h # PrimaryAgent => sockUp'[h] = sockUp[h] /\ agentQ'[h] = agentQ[h]

LEMMA QuietSteps ==
  ASSUME TypeOK, NEW h \in Agents
  PROVE  (QuietTo(h) => SameTo(h)) /\ (QuietFrom(h) => SameFrom(h))
  <1>1. ASSUME QuietTo(h) PROVE SameTo(h)
    BY <1>1, ToSame, QueueMoves DEF QuietTo
  <1>2. ASSUME QuietFrom(h) PROVE SameFrom(h)
    BY <1>2, FromKeeps, QueueMoves DEF QuietFrom
  <1>. QED  BY <1>1, <1>2

LEMMA Unchanged ==
  ASSUME TypeOK, NEW h \in Agents, UNCHANGED <<inbox, sockDown, sockUp, workerQ, agentQ>>
  PROVE  PipeMoves(h)
  BY QuietSteps DEF PipeMoves, QuietTo, QuietFrom

(* A worker of a live agent is there until it has taken Terminate.         *)
LEMMA WorkersStay ==
  ASSUME TerminateLast, NEW h \in Agents, Live(h), NEW w \in WorkersOf(h), worker[w] = "gone"
  PROVE  IF h = PrimaryAgent THEN pc \in Told ELSE Final(h) /\ sockDown[h] = << >>
  <1>1. w \in Workers /\ AgentOf[w] = h /\ (w \in LocalWorkers <=> h = PrimaryAgent)
    BY Configuration
  <1>2. Finishing(w)
    BY <1>1 DEF Live, Finishing
  <1>. QED  BY <1>1, <1>2 DEF TerminateLast, Told

(* Before the primary is complete nothing but the handshake is under way.  *)
LEMMA HandshakeHeads ==
  ASSUME TypeOK, Addressed, Handshake, ~PrimaryDown, ~Incomplete(PrimaryAgent), NEW g \in RemoteAgents
  PROVE  /\ pc = "intra" /\ inbox # << >> => \A h \in Agents : Head(inbox) \notin From(h)
         /\ receiveRelay = "accept" /\ sockUp[g] # << >> => Head(sockUp[g]) \notin CoreSignals
         /\ local_to_ipc[g] = "intra" /\ agentQ[g] # << >> => Head(agentQ[g]) \notin CoreSignals
  <1>1. ASSUME pc = "intra", inbox # << >> PROVE \A h \in Agents : Head(inbox) \notin From(h)
    <2>1. Head(inbox) \in InSet
      BY <1>1, HeadInRange DEF TypeOK, Addressed
    <2>. QED  BY <1>1, <2>1, Disjoint DEF InSet, Starting, Early
  <1>2. ASSUME receiveRelay = "accept" \/ local_to_ipc[g] = "intra" PROVE pc \in Starting
    <2>1. ~RelayReady
      BY <1>2 DEF RelayReady
    <2>. QED  BY <2>1 DEF Handshake, TypeOK, Starting, Early, Started, PrimaryDown
  <1>3. ASSUME receiveRelay = "accept", sockUp[g] # << >> PROVE Head(sockUp[g]) \notin CoreSignals
    <2>1. Head(sockUp[g]) \in UpSet(g)
      BY <1>3, HeadInRange DEF TypeOK, Addressed
    <2>. QED  BY <1>2, <1>3, <2>1, Disjoint DEF UpSet
  <1>4. ASSUME local_to_ipc[g] = "intra", agentQ[g] # << >> PROVE Head(agentQ[g]) \notin CoreSignals
    <2>1. Head(agentQ[g]) \in AgentSet(g)
      BY <1>4, HeadInRange DEF TypeOK, Addressed
    <2>. QED  BY <1>2, <1>4, <2>1, Disjoint DEF AgentSet
  <1>. QED  BY <1>1, <1>3, <1>4

(* The primary's main thread.                                              *)
LEMMA PrimaryStaysUp ==
  ASSUME NEW h \in Agents, Live(h)', NEW how \in {"failed", "exited"}, PrimaryEnds(how)
  PROVE  FALSE
  BY DEF PrimaryEnds, Live, PrimaryDown

LEMMA PipePrimary ==
  ASSUME RelayedInv, TypeOK', NEW h \in Agents, Live(h), Live(h)',
         \/ ConnectLocalSenders \/ ConnectLocalWorkers \/ Receive \/ BroadcastLocal
         \/ \E g \in RemoteAgents : SyncTime(g) \/ BroadcastRemote(g)
  PROVE  PipeMoves(h)
  <1>. USE Configuration DEF RelayedInv
  <1>0. RemoteAgents # {} => \E g : g \in RemoteAgents
    OBVIOUS
  <1>1. CASE ConnectLocalSenders
    <2>1. pc = "intra" /\ inbox # << >> /\ inbox' = Tail(inbox)
      BY <1>1 DEF ConnectLocalSenders, ConnectSender
    <2>2. Head(inbox) \notin From(h)
      <3>1. Head(inbox) \in InSet
        BY <2>1, HeadInRange DEF TypeOK, Addressed
      <3>. QED  BY <2>1, <3>1, Disjoint DEF InSet, Starting, Early
    <2>3. SameFrom(h)
      BY <1>1, <2>1, <2>2, FromKeeps, QueueMoves DEF ConnectLocalSenders
    <2>4. QuietTo(h)
      BY <1>1 DEF ConnectLocalSenders, QuietTo
    <2>. QED  BY <2>3, <2>4, QuietSteps DEF PipeMoves
  <1>2. CASE ConnectLocalWorkers
    <2>1. /\ ConnectReceivers(LocalWorkers)
          /\ UNCHANGED <<inbox, sockDown, sockUp, agentQ>>
      BY <1>2, PrimaryStaysUp DEF ConnectLocalWorkers
    <2>2. ASSUME NEW w \in WorkersOf(h) PROVE Kept(workerQ'[w], workerQ[w], CoreSignals)
      <3>1. workerQ'[w] = Append(workerQ[w], Connect(w)) \/ workerQ'[w] = workerQ[w]
        BY <2>1 DEF ConnectReceivers
      <3>2. Connect(w) \in Signals /\ Connect(w) \notin CoreSignals
        BY SignalTypes, Disjoint
      <3>. QED  BY <3>1, <3>2 DEF Kept
    <2>3. SameTo(h)
      BY <2>1, <2>2, ToSame, QueueMoves
    <2>4. QuietFrom(h)
      BY <2>1 DEF QuietFrom
    <2>. QED  BY <2>3, <2>4, QuietSteps DEF PipeMoves
  <1>3. CASE Receive
    <2>1. /\ inbox # << >> /\ inbox' = Tail(inbox)
          /\ UNCHANGED <<sockDown, sockUp, workerQ, agentQ>>
      BY <1>3 DEF Receive
    <2>2. SameTo(h)
      BY <2>1, QuietSteps DEF QuietTo
    <2>3. CASE Head(inbox) \in From(h)
      BY <2>1, <2>2, <2>3, FromShrinks DEF PipeMoves, Delivers
    <2>4. CASE Head(inbox) \notin From(h)
      <3>1. SameFrom(h)
        BY <2>1, <2>4, FromKeeps, QueueMoves
      <3>. QED  BY <2>2, <3>1 DEF PipeMoves
    <2>. QED  BY <2>3, <2>4
  <1>4. CASE BroadcastLocal
    <2>1. PICK reach \in BroadcastReach(LocalWorkers) :
            workerQ' = [w \in Workers |-> IF w \in reach THEN Append(workerQ[w], Terminate)
                                                         ELSE workerQ[w]]
      BY <1>4 DEF BroadcastLocal, BroadcastToWorkers
    <2>2. pc = "local" /\ UNCHANGED <<inbox, sockDown, sockUp, agentQ>>
      BY <1>4 DEF BroadcastLocal
    <2>3. SameFrom(h)
      BY <2>2, QuietSteps DEF QuietFrom
    <2>4. CASE h = PrimaryAgent
      <3>1. \A w \in LocalWorkers : worker[w] # "gone"
        BY <2>2, <2>4, WorkersStay DEF Told
      <3>2. reach = LocalWorkers
        BY <3>1 DEF BroadcastReach
      <3>3. ASSUME NEW w \in WorkersOf(h) PROVE Longer(UnderWayTo(w)', UnderWayTo(w))
        <4>1. w \in Workers /\ w \in LocalWorkers /\ Terminate \in For(w)
          BY <2>4, Disjoint
        <4>2. workerQ'[w] = Append(workerQ[w], Terminate)
          BY <2>1, <3>2, <4>1
        <4>. QED  BY <4>1, <4>2, ToGrows
      <3>. QED  BY <2>3, <3>3 DEF PipeMoves, Posts
    <2>5. CASE h # PrimaryAgent
      <3>1. reach \subseteq LocalWorkers
        BY DEF BroadcastReach
      <3>2. QuietTo(h)
        BY <2>1, <2>2, <2>5, <3>1 DEF QuietTo
      <3>. QED  BY <2>3, <3>2, QuietSteps DEF PipeMoves
    <2>. QED  BY <2>4, <2>5
  <1>5. ASSUME NEW g \in RemoteAgents, SyncTime(g) PROVE PipeMoves(h)
    <2>1. SendToAgent(g, StartupSync) /\ UNCHANGED <<inbox, sockUp, workerQ, agentQ>>
      BY <1>5, PrimaryStaysUp DEF SyncTime
    <2>2. h # PrimaryAgent =>
            sockDown'[h] = sockDown[h] \/ sockDown'[h] = Append(sockDown[h], StartupSync)
      BY <2>1 DEF SendToAgent, TypeOK
    <2>3. ASSUME NEW w \in WorkersOf(h), h # PrimaryAgent
          PROVE  Kept(sockDown'[h], sockDown[h], For(w))
      <3>1. StartupSync \in Signals /\ StartupSync \notin For(w)
        BY Disjoint, SignalTypes
      <3>. QED  BY <2>2, <2>3, <3>1 DEF Kept
    <2>4. SameTo(h)
      BY <2>1, <2>3, ToSame, QueueMoves
    <2>5. QuietFrom(h)
      BY <2>1 DEF QuietFrom
    <2>. QED  BY <2>4, <2>5, QuietSteps DEF PipeMoves
  <1>6. ASSUME NEW g \in RemoteAgents, BroadcastRemote(g) PROVE PipeMoves(h)
    <2>1. /\ SendToAgent(g, Terminate) \/ (SendToAgentFails(g) /\ sockDown' = sockDown)
          /\ UNCHANGED <<inbox, sockUp, workerQ, agentQ>>
      BY <1>6 DEF BroadcastRemote
    <2>2. SameFrom(h)
      BY <2>1, QuietSteps DEF QuietFrom
    <2>3. CASE h = g
      <3>1. DownOpen(h)
        BY <2>3 DEF Live, DownOpen
      <3>2. sockDown'[h] = Append(sockDown[h], Terminate)
        BY <2>1, <2>3, <3>1 DEF SendToAgent, SendToAgentFails, TypeOK
      <3>3. ASSUME NEW w \in WorkersOf(h) PROVE Longer(UnderWayTo(w)', UnderWayTo(w))
        <4>1. w \in Workers /\ w \notin LocalWorkers /\ Terminate \in For(w) /\ AgentOf[w] = h
          BY <2>3, Disjoint
        <4>. QED  BY <2>1, <3>2, <4>1, ToGrows
      <3>. QED  BY <2>2, <3>3 DEF PipeMoves, Posts
    <2>4. CASE h # g
      <3>1. h # PrimaryAgent => sockDown'[h] = sockDown[h]
        BY <2>1, <2>4 DEF SendToAgent, TypeOK
      <3>2. SameTo(h)
        BY <2>1, <3>1, QuietSteps DEF QuietTo
      <3>. QED  BY <2>2, <3>2 DEF PipeMoves
    <2>. QED  BY <2>3, <2>4
  <1>. QED  BY <1>1, <1>2, <1>3, <1>4, <1>5, <1>6

LEMMA PipeSendToActivity ==
  ASSUME RelayedInv, TypeOK', NEW h \in Agents, Live(h), Live(h)',
         NEW a \in Activities, SendToActivity(a)
  PROVE  PipeMoves(h)
  <1>. USE Configuration DEF RelayedInv
  <1>. DEFINE w == WorkerOf[a]
  <1>1. /\ pc = "run" /\ UNCHANGED <<inbox, sockUp, agentQ>>
        /\ w \in LocalWorkers => SendToWorker(w, Activity(a)) /\ sockDown' = sockDown
        /\ w \notin LocalWorkers => SendToAgent(AgentOf[w], Activity(a)) /\ workerQ' = workerQ
    BY PrimaryStaysUp DEF SendToActivity
  <1>2. SameFrom(h)
    BY <1>1, QuietSteps DEF QuietFrom
  <1>3. /\ w \in Workers /\ Activity(a) \in For(w) /\ Activity(a) \in Signals
        /\ \A v \in Workers : v # w => Activity(a) \notin For(v)
    BY Disjoint, SignalTypes
  <1>. HIDE DEF w
  <1>4. CASE AgentOf[w] # h
    <2>1. QuietTo(h)
      <3>1. \A v \in WorkersOf(h) : v \in Workers /\ v # w
        BY <1>4
      <3>2. \A v \in WorkersOf(h) : workerQ'[v] = workerQ[v]
        BY <1>1, <3>1 DEF SendToWorker, TypeOK
      <3>3. h # PrimaryAgent => sockDown'[h] = sockDown[h]
        BY <1>1, <1>4 DEF SendToAgent, TypeOK
      <3>. QED  BY <3>2, <3>3 DEF QuietTo
    <2>. QED  BY <1>2, <2>1, QuietSteps DEF PipeMoves
  <1>5. CASE AgentOf[w] = h
    <2>0. w \in WorkersOf(h)
      BY <1>3, <1>5 DEF WorkersOf
    <2>1. Longer(UnderWayTo(w)', UnderWayTo(w))
      <3>1. CASE w \in LocalWorkers
        <4>1. worker[w] # "gone"
          BY <1>1, <1>5, <2>0, <3>1, WorkersStay DEF Told
        <4>2. workerQ'[w] = Append(workerQ[w], Activity(a))
          BY <1>1, <1>3, <3>1, <4>1 DEF SendToWorker, TypeOK
        <4>. QED  BY <1>3, <3>1, <4>2, ToGrows
      <3>2. CASE w \notin LocalWorkers
        <4>1. DownOpen(h) /\ h \in RemoteAgents
          BY <1>3, <1>5, <3>2 DEF Live, DownOpen
        <4>2. sockDown'[h] = Append(sockDown[h], Activity(a)) /\ workerQ'[w] = workerQ[w]
          BY <1>1, <1>5, <3>2, <4>1 DEF SendToAgent, TypeOK
        <4>. QED  BY <1>3, <1>5, <3>2, <4>2, ToGrows
      <3>. QED  BY <3>1, <3>2
    <2>2. ASSUME NEW v \in WorkersOf(h), v # w PROVE UnderWayTo(v)' = UnderWayTo(v)
      <3>1. /\ v \in Workers /\ AgentOf[v] = h /\ Activity(a) \notin For(v)
            /\ (v \in LocalWorkers <=> h = PrimaryAgent)
        BY <1>3, <2>2
      <3>2. Kept(workerQ'[v], workerQ[v], CoreSignals)
        <4>1. workerQ'[v] = workerQ[v]
          BY <1>1, <2>2, <3>1 DEF SendToWorker, TypeOK
        <4>. QED  BY <4>1, QueueMoves
      <3>3. ASSUME v \notin LocalWorkers PROVE Kept(sockDown'[h], sockDown[h], For(v))
        <4>1. sockDown'[h] = sockDown[h] \/ sockDown'[h] = Append(sockDown[h], Activity(a))
          BY <1>1, <1>5, <3>1, <3>3 DEF SendToAgent, TypeOK
        <4>. QED  BY <1>3, <3>1, <4>1 DEF Kept
      <3>. QED  BY <3>1, <3>2, <3>3, ToKeeps
    <2>3. {w} \in {{v} : v \in WorkersOf(h)}
      BY <2>0
    <2>4. \A v \in WorkersOf(h) : /\ v \in {w} => Longer(UnderWayTo(v)', UnderWayTo(v))
                                  /\ v \notin {w} => UnderWayTo(v)' = UnderWayTo(v)
      BY <2>1, <2>2
    <2>. QED  BY <1>2, <2>3, <2>4 DEF PipeMoves, Posts
  <1>. QED  BY <1>4, <1>5

(* The thread of PrimaryReceiveRelay.                                      *)
LEMMA PipeReceiveRelay ==
  ASSUME RelayedInv, TypeOK', NEW h \in Agents, Live(h), Live(h)', ReceiveRelayThread
  PROVE  PipeMoves(h)
  <1>. USE Configuration DEF RelayedInv
  <1>1. CASE AcceptTimesOut \/ ReceiveRelayEnds
    BY <1>1, Unchanged DEF AcceptTimesOut, ReceiveRelayEnds, channelVars
  <1>2. CASE ConnectToScheduler
    <2>1. /\ inbox' = Append(inbox, Connect(RelayChannel))
          /\ UNCHANGED <<sockDown, sockUp, workerQ, agentQ>>
      BY <1>2 DEF ConnectToScheduler
    <2>2. Connect(RelayChannel) \in Signals /\ Connect(RelayChannel) \notin From(h)
      BY SignalTypes, Disjoint
    <2>3. Kept(inbox', inbox, From(h))
      BY <2>1, <2>2 DEF Kept
    <2>4. SameFrom(h)
      BY <2>1, <2>3, FromKeeps, QueueMoves
    <2>5. SameTo(h)
      BY <2>1, QuietSteps DEF QuietTo
    <2>. QED  BY <2>4, <2>5 DEF PipeMoves
  <1>3. ASSUME NEW g \in RemoteAgents, AcceptAgent(g) PROVE PipeMoves(h)
    <2>1. /\ receiveRelay = "accept" /\ sockUp[g] # << >>
          /\ sockUp' = [sockUp EXCEPT ![g] = Tail(@)]
          /\ UNCHANGED <<inbox, sockDown, workerQ, agentQ>>
      BY <1>3 DEF AcceptAgent
    <2>2. Head(sockUp[g]) \notin CoreSignals
      BY <2>1, HandshakeHeads DEF Live
    <2>3. h # PrimaryAgent => Kept(sockUp'[h], sockUp[h], CoreSignals)
      BY <2>1, <2>2, QueueMoves DEF TypeOK
    <2>4. SameFrom(h)
      BY <2>1, <2>3, FromKeeps, QueueMoves
    <2>5. SameTo(h)
      BY <2>1, QuietSteps DEF QuietTo
    <2>. QED  BY <2>4, <2>5 DEF PipeMoves
  <1>4. ASSUME NEW g \in RemoteAgents, RelayToScheduler(g) PROVE PipeMoves(h)
    <2>1. /\ sockUp[g] # << >> /\ sockUp' = [sockUp EXCEPT ![g] = Tail(@)]
          /\ inbox' = IF Core(Head(sockUp[g])) THEN Append(inbox, Head(sockUp[g])) ELSE inbox
          /\ UNCHANGED <<sockDown, workerQ, agentQ>>
      BY <1>4 DEF RelayToScheduler
    <2>. PICK x \in Signals : x = Head(sockUp[g])
      BY <2>1, QueueTypes DEF TypeOK
    <2>2. SameTo(h)
      BY <2>1, QuietSteps DEF QuietTo
    <2>3. x \in CoreSignals => x \in From(g)
      <3>1. x \in UpSet(g)
        BY <2>1, HeadInRange DEF TypeOK, Addressed
      <3>. QED  BY <3>1, Disjoint DEF UpSet
    <2>4. CASE x \notin CoreSignals
      <3>1. inbox' = inbox
        BY <2>1, <2>4, Disjoint
      <3>2. h # PrimaryAgent => Kept(sockUp'[h], sockUp[h], CoreSignals)
        BY <2>1, <2>4, QueueMoves DEF TypeOK
      <3>3. SameFrom(h)
        BY <2>1, <3>1, <3>2, FromKeeps, QueueMoves
      <3>. QED  BY <2>2, <3>3 DEF PipeMoves
    <2>5. CASE x \in CoreSignals
      <3>1. inbox' = Append(inbox, x)
        BY <2>1, <2>5, Disjoint
      <3>2. CASE h = g
        <4>1. SameFrom(h)
          BY <2>1, <2>3, <2>5, <3>1, <3>2, FromShifts DEF TypeOK
        <4>. QED  BY <2>2, <4>1 DEF PipeMoves
      <3>3. CASE h # g
        <4>1. x \notin From(h)
          BY <2>3, <2>5, <3>3, Disjoint
        <4>2. Kept(inbox', inbox, From(h))
          BY <3>1, <4>1 DEF Kept
        <4>3. h # PrimaryAgent => sockUp'[h] = sockUp[h]
          BY <2>1, <3>3 DEF TypeOK
        <4>4. SameFrom(h)
          BY <2>1, <4>2, <4>3, FromKeeps, QueueMoves
        <4>. QED  BY <2>2, <4>4 DEF PipeMoves
      <3>. QED  BY <3>2, <3>3
    <2>. QED  BY <2>4, <2>5
  <1>. QED  BY <1>1, <1>2, <1>3, <1>4 DEF ReceiveRelayThread

(* The end of another secondary.                                           *)
LEMMA PipeSecondaryEnds ==
  ASSUME RelayedInv, NEW h \in Agents, Live(h)', NEW g \in RemoteAgents, SecondaryEnds(g)
  PROVE  PipeMoves(h)
  <1>. USE Configuration DEF RelayedInv
  <1>1. h # g
    <2>1. local_to_ipc'[g] = "exited"
      BY DEF SecondaryEnds, TypeOK
    <2>. QED  BY <2>1 DEF Live, AgentDown
  <1>2. /\ \A w \in WorkersOf(h) : workerQ'[w] = workerQ[w]
        /\ inbox' = inbox /\ sockUp' = sockUp
    BY <1>1 DEF SecondaryEnds, ProcessEnds, WorkersOf
  <1>3. h # PrimaryAgent => sockDown'[h] = sockDown[h] /\ agentQ'[h] = agentQ[h]
    BY <1>1 DEF SecondaryEnds, ProcessEnds, TypeOK
  <1>. QED  BY <1>2, <1>3, QuietSteps DEF QuietTo, QuietFrom, PipeMoves

(* The main thread of a secondary.                                         *)
LEMMA PipeSecondaryMain ==
  ASSUME RelayedInv, TypeOK', NEW h \in Agents, Live(h), Live(h)',
         NEW g \in RemoteAgents, SecondaryMain(g)
  PROVE  PipeMoves(h)
  <1>. USE Configuration DEF RelayedInv
  <1>1. CASE ConnectAgentSenders(g)
    <2>1. /\ local_to_ipc[g] = "intra" /\ agentQ[g] # << >>
          /\ agentQ' = [agentQ EXCEPT ![g] = Tail(@)]
          /\ UNCHANGED <<inbox, sockDown, sockUp, workerQ>>
      BY <1>1 DEF ConnectAgentSenders, ConnectSender
    <2>2. Head(agentQ[g]) \notin CoreSignals
      BY <2>1, HandshakeHeads DEF Live
    <2>3. h # PrimaryAgent => Kept(agentQ'[h], agentQ[h], CoreSignals)
      BY <2>1, <2>2, QueueMoves DEF TypeOK
    <2>4. SameFrom(h)
      BY <2>1, <2>3, FromKeeps, QueueMoves
    <2>5. SameTo(h)
      BY <2>1, QuietSteps DEF QuietTo
    <2>. QED  BY <2>4, <2>5 DEF PipeMoves
  <1>2. CASE ConnectUp(g)
    <2>1. /\ local_to_ipc[g] = "inter" /\ sockUp' = [sockUp EXCEPT ![g] = <<ChannelHello(g)>>]
          /\ UNCHANGED <<inbox, sockDown, workerQ, agentQ>>
      BY <1>2 DEF ConnectUp
    <2>2. sockUp[g] = << >>
      BY <2>1 DEF Handshake
    <2>3. ChannelHello(g) \in Signals /\ ChannelHello(g) \notin CoreSignals
      BY SignalTypes, Disjoint
    <2>4. h # PrimaryAgent => Kept(sockUp'[h], sockUp[h], CoreSignals)
      BY <2>1, <2>2, <2>3 DEF Kept, TypeOK
    <2>5. SameFrom(h)
      BY <2>1, <2>4, FromKeeps, QueueMoves
    <2>6. SameTo(h)
      BY <2>1, QuietSteps DEF QuietTo
    <2>. QED  BY <2>5, <2>6 DEF PipeMoves
  <1>3. CASE ForwardToPrimary(g)
    <2>1. /\ local_to_ipc[g] = "run" /\ agentQ[g] # << >>
          /\ agentQ' = [agentQ EXCEPT ![g] = Tail(@)]
          /\ UNCHANGED <<inbox, sockDown, workerQ>>
      BY <1>3 DEF ForwardToPrimary
    <2>2. SameTo(h)
      BY <2>1, QuietSteps DEF QuietTo
    <2>3. CASE h # g
      <3>1. h # PrimaryAgent => sockUp'[h] = sockUp[h] /\ agentQ'[h] = agentQ[h]
        BY <1>3, <2>1, <2>3 DEF ForwardToPrimary, SendToPrimary, TypeOK
      <3>. QED  BY <2>1, <2>2, <3>1, QuietSteps DEF QuietFrom, PipeMoves
    <2>4. CASE h = g
      <3>1. UpListening
        BY <2>1, <2>4 DEF Live, Handshake, UpListening, TypeOK
      <3>2. IF Core(Head(agentQ[h])) THEN sockUp'[h] = Append(sockUp[h], Head(agentQ[h]))
            ELSE sockUp'[h] = sockUp[h]
        BY <1>3, <2>4, <3>1 DEF ForwardToPrimary, SendToPrimary, SendToPrimaryFails, TypeOK
      <3>3. Head(agentQ[h]) \in Signals
        BY <2>1, <2>4, QueueTypes DEF TypeOK
      <3>4. agentQ'[h] = Tail(agentQ[h])
        BY <2>1, <2>4 DEF TypeOK
      <3>5. CASE Head(agentQ[h]) \in CoreSignals
        <4>1. sockUp'[h] = Append(sockUp[h], Head(agentQ[h]))
          BY <3>2, <3>5 DEF CoreSignals
        <4>2. SameFrom(h)
          BY <2>1, <2>4, <3>4, <3>5, <4>1, FromShifts
        <4>. QED  BY <2>2, <4>2 DEF PipeMoves
      <3>6. CASE Head(agentQ[h]) \notin CoreSignals
        <4>1. sockUp'[h] = sockUp[h]
          BY <3>2, <3>3, <3>6 DEF CoreSignals
        <4>2. SameFrom(h)
          BY <2>1, <2>4, <3>4, <3>6, <4>1, FromKeeps, QueueMoves
        <4>. QED  BY <2>2, <4>2 DEF PipeMoves
      <3>. QED  BY <3>5, <3>6
    <2>. QED  BY <2>3, <2>4
  <1>4. CASE SendRelayEnds(g)
    BY <1>4, Unchanged DEF SendRelayEnds, channelVars
  <1>5. CASE ConnectSendersTimesOut(g) \/ JoinAndExit(g)
    BY <1>5, PipeSecondaryEnds DEF ConnectSendersTimesOut, JoinAndExit
  <1>. QED  BY <1>1, <1>2, <1>3, <1>4, <1>5 DEF SecondaryMain

(* The thread of SecondaryReceiveRelay.                                    *)
LEMMA PipeSecondaryRelay ==
  ASSUME RelayedInv, TypeOK', NEW h \in Agents, Live(h), Live(h)',
         NEW g \in RemoteAgents, SecondaryReceiveRelay(g)
  PROVE  PipeMoves(h)
  <1>. USE Configuration DEF RelayedInv
  <1>0. UNCHANGED <<inbox, sockUp, agentQ>> => SameFrom(h)
    BY QuietSteps DEF QuietFrom
  <1>1. CASE ConnectWorkers(g)
    <2>1. /\ UNCHANGED <<inbox, sockDown, sockUp, agentQ>>
          /\ ConnectReceivers(WorkersOf(g)) \/ workerQ' = workerQ
      BY <1>1 DEF ConnectWorkers
    <2>2. ASSUME NEW w \in WorkersOf(h) PROVE Kept(workerQ'[w], workerQ[w], CoreSignals)
      <3>1. workerQ'[w] = Append(workerQ[w], Connect(w)) \/ workerQ'[w] = workerQ[w]
        BY <2>1 DEF ConnectReceivers
      <3>2. Connect(w) \in Signals /\ Connect(w) \notin CoreSignals
        BY SignalTypes, Disjoint
      <3>. QED  BY <3>1, <3>2 DEF Kept
    <2>3. SameTo(h)
      BY <2>1, <2>2, ToSame, QueueMoves
    <2>. QED  BY <1>0, <2>1, <2>3 DEF PipeMoves
  <1>2. CASE ConnectDown(g)
    BY <1>2, Unchanged DEF ConnectDown
  <1>3. CASE LosePrimary(g)
    BY <1>3, Unchanged DEF LosePrimary, channelVars
  <1>4. CASE WaitStartupSync(g)
    <2>1. /\ ipc_to_local[g] = "sync" /\ sockDown[g] # << >>
          /\ sockDown' = [sockDown EXCEPT ![g] = Tail(@)]
          /\ UNCHANGED <<inbox, sockUp, workerQ, agentQ>>
      BY <1>4 DEF WaitStartupSync, TakeDown
    <2>2. ASSUME h = g, NEW w \in WorkersOf(h) PROVE Kept(sockDown'[h], sockDown[h], For(w))
      <3>1. SyncAt(g)
        BY DEF SyncFirst
      <3>2. Head(sockDown[g]) = StartupSync
        BY <2>1, <2>2, <3>1 DEF SyncAt, Live
      <3>3. Head(sockDown[h]) \notin For(w)
        BY <2>2, <3>2, Disjoint
      <3>. QED  BY <2>1, <2>2, <3>3, QueueMoves DEF TypeOK
    <2>3. ASSUME h # g, h # PrimaryAgent PROVE sockDown'[h] = sockDown[h]
      BY <2>1, <2>3 DEF TypeOK
    <2>4. SameTo(h)
      BY <2>1, <2>2, <2>3, ToSame, QueueMoves
    <2>. QED  BY <1>0, <2>1, <2>4 DEF PipeMoves
  <1>5. CASE ForwardToWorker(g) \/ ForwardBroadcast(g)
    <2>1. /\ ipc_to_local[g] = "run" /\ sockDown[g] # << >>
          /\ sockDown' = [sockDown EXCEPT ![g] = Tail(@)]
          /\ UNCHANGED <<inbox, sockUp, agentQ>>
      BY <1>5 DEF ForwardToWorker, ForwardBroadcast, TakeDown
    <2>2. sockDown[g] \in Seq(Signals) /\ Head(sockDown[g]) \in DownSet(g)
      BY <2>1, HeadInRange DEF TypeOK, Addressed
    <2>3. PICK x \in Signals : x = Head(sockDown[g])
      BY <2>1, <2>2, QueueTypes
    <2>4. x # StartupSync
      <3>1. SyncAt(g)
        BY DEF SyncFirst
      <3>2. 1 \in DOMAIN sockDown[g] /\ Head(sockDown[g]) = sockDown[g][1]
        BY <2>1, <2>2, EndsTail
      <3>. QED  BY <2>1, <2>3, <3>1, <3>2 DEF SyncAt
    <2>5. \E w \in WorkersOf(g) : x \in For(w)
      BY <2>2, <2>3, <2>4 DEF DownSet
    <2>6. PICK ws \in SUBSET WorkersOf(g) :
            /\ \A v \in Workers : workerQ'[v] = IF v \in ws THEN Append(workerQ[v], x) ELSE workerQ[v]
            /\ h = g => \A v \in WorkersOf(g) : v \in ws <=> x \in For(v)
      <3>0. h = g => \A v \in WorkersOf(g) : worker[v] # "gone"
        BY <2>1, WorkersStay
      <3>1. CASE ForwardToWorker(g)
        <4>1. x.type = "Activity" /\ SendToWorker(WorkerOf[x.id], x)
          BY <3>1, <2>3 DEF ForwardToWorker
        <4>2. PICK w \in WorkersOf(g) : x \in For(w)
          BY <2>5
        <4>3. PICK a \in Activities : x = Activity(a) /\ WorkerOf[a] = w
          BY <4>1, <4>2 DEF For, Terminate
        <4>4. x.id = a /\ SendToWorker(w, x)
          BY <4>1, <4>3 DEF Activity
        <4>5. \A v \in Workers : x \in For(v) <=> v = w
          BY <4>3, Disjoint
        <4>6. \/ worker[w] = "gone" /\ workerQ' = workerQ
              \/ worker[w] # "gone" /\ workerQ' = [workerQ EXCEPT ![w] = Append(@, x)]
          BY <4>4 DEF SendToWorker
        <4>7. CASE worker[w] = "gone"
          <5>1. h # g /\ \A v \in Workers : workerQ'[v] = workerQ[v]
            BY <3>0, <4>2, <4>6, <4>7
          <5>2. {} \in SUBSET WorkersOf(g) /\ \A v : v \notin {}
            OBVIOUS
          <5>. QED  BY ZenonT(40), <5>1, <5>2
        <4>8. CASE worker[w] # "gone"
          <5>1. \A v \in Workers : workerQ'[v] = IF v \in {w} THEN Append(workerQ[v], x) ELSE workerQ[v]
            BY ZenonT(40), <4>2, <4>6, <4>8 DEF TypeOK
          <5>2. {w} \in SUBSET WorkersOf(g) /\ \A v \in WorkersOf(g) : v \in {w} <=> x \in For(v)
            BY <4>2, <4>5
          <5>. QED  BY <5>1, <5>2
        <4>. QED  BY <4>7, <4>8
      <3>2. CASE ForwardBroadcast(g)
        <4>1. x = Terminate
          BY <2>3, <2>4, <3>2 DEF ForwardBroadcast
        <4>2. PICK reach \in BroadcastReach(WorkersOf(g)) :
                workerQ' = [v \in Workers |-> IF v \in reach THEN Append(workerQ[v], x) ELSE workerQ[v]]
          BY <2>3, <3>2 DEF ForwardBroadcast, BroadcastToWorkers
        <4>3. reach \in SUBSET WorkersOf(g) /\ (h = g => reach = WorkersOf(g))
          BY <3>0 DEF BroadcastReach
        <4>4. \A v \in WorkersOf(g) : x \in For(v)
          BY <4>1, Disjoint
        <4>. QED  BY <4>2, <4>3, <4>4
      <3>. QED  BY <1>5, <3>1, <3>2
    <2>7. SameTo(h)
      <3>1. CASE h # g
        <4>1. \A w \in WorkersOf(h) : workerQ'[w] = workerQ[w]
          BY <2>6, <3>1
        <4>2. h # PrimaryAgent => sockDown'[h] = sockDown[h]
          BY <2>1, <3>1 DEF TypeOK
        <4>. QED  BY <4>1, <4>2, QuietSteps DEF QuietTo
      <3>2. ASSUME h = g, NEW w \in WorkersOf(h) PROVE UnderWayTo(w)' = UnderWayTo(w)
        <4>1. w \in Workers /\ AgentOf[w] = g /\ w \notin LocalWorkers
          BY <3>2
        <4>2. sockDown'[g] = Tail(sockDown[g])
          BY <2>1 DEF TypeOK
        <4>3. CASE x \in For(w)
          <5>1. workerQ'[w] = Append(workerQ[w], Head(sockDown[g]))
            BY <2>3, <2>6, <3>2, <4>1, <4>3
          <5>. QED  BY <2>1, <2>3, <4>1, <4>2, <4>3, <5>1, ToShifts
        <4>4. CASE x \notin For(w)
          <5>1. workerQ'[w] = workerQ[w]
            BY <2>6, <3>2, <4>1, <4>4
          <5>2. Kept(workerQ'[w], workerQ[w], CoreSignals) /\ Kept(sockDown'[g], sockDown[g], For(w))
            BY <2>1, <2>3, <4>2, <4>4, <5>1, QueueMoves
          <5>. QED  BY <4>1, <5>2, ToKeeps
        <4>. QED  BY <4>3, <4>4
      <3>. QED  BY <3>1, <3>2 DEF SameTo
    <2>. QED  BY <1>0, <2>1, <2>7 DEF PipeMoves
  <1>. QED  BY <1>1, <1>2, <1>3, <1>4, <1>5 DEF SecondaryReceiveRelay

(* The workers.  What a worker sends, its own agent or another one sees.   *)
LEMMA PipeSend ==
  ASSUME TypeOK, TypeOK', NEW h \in Agents, NEW w \in Workers, NEW x \in Signals,
         SendFromWorker(w, x), sockUp' = sockUp
  PROVE  /\ x \in From(h) /\ AgentOf[w] = h => Longer(UnderWayFrom(h)', UnderWayFrom(h))
         /\ x \notin From(h) /\ (AgentOf[w] = h => x \notin CoreSignals) => SameFrom(h)
  <1>. USE Configuration
  <1>1. ASSUME x \in From(h), AgentOf[w] = h PROVE Longer(UnderWayFrom(h)', UnderWayFrom(h))
    <2>1. IF h = PrimaryAgent THEN inbox' = Append(inbox, x)
          ELSE inbox' = inbox /\ sockUp'[h] = sockUp[h] /\ agentQ'[h] = Append(agentQ[h], x)
      BY <1>1 DEF SendFromWorker, TypeOK
    <2>. QED  BY <1>1, <2>1, FromGrows
  <1>2. ASSUME x \notin From(h), AgentOf[w] = h => x \notin CoreSignals PROVE SameFrom(h)
    <2>1. Kept(inbox', inbox, From(h))
      BY <1>2 DEF SendFromWorker, Kept
    <2>2. ASSUME h # PrimaryAgent PROVE Kept(agentQ'[h], agentQ[h], CoreSignals)
      <3>1. CASE AgentOf[w] = h
        <4>1. agentQ'[h] = Append(agentQ[h], x)
          BY <2>2, <3>1 DEF SendFromWorker, TypeOK
        <4>. QED  BY <1>2, <3>1, <4>1 DEF Kept
      <3>2. CASE AgentOf[w] # h
        <4>1. agentQ'[h] = agentQ[h]
          BY <2>2, <3>2 DEF SendFromWorker, TypeOK
        <4>. QED  BY <4>1, QueueMoves
      <3>. QED  BY <3>1, <3>2
    <2>. QED  BY <2>1, <2>2, FromKeeps, QueueMoves
  <1>. QED  BY <1>1, <1>2

(* A worker takes a signal of the scheduler and answers x.                 *)
LEMMA PipeAnswer ==
  ASSUME RelayedInv, TypeOK', NEW h \in Agents, NEW w \in Workers, NEW x \in From(AgentOf[w]),
         workerQ[w] # << >>, Head(workerQ[w]) \in CoreSignals,
         workerQ' = [workerQ EXCEPT ![w] = Tail(@)],
         SendFromWorker(w, x), UNCHANGED <<sockDown, sockUp>>
  PROVE  PipeMoves(h)
  <1>. USE Configuration DEF RelayedInv
  <1>1. x \in Signals
    BY SetTypes DEF SetsTyped
  <1>2. \A v \in Workers : v # w => workerQ'[v] = workerQ[v]
    BY DEF TypeOK
  <1>3. CASE AgentOf[w] = h
    <2>1. Longer(UnderWayFrom(h)', UnderWayFrom(h))
      BY <1>1, <1>3, PipeSend
    <2>2. w \in WorkersOf(h)
      BY <1>3 DEF WorkersOf
    <2>3. workerQ'[w] = Tail(workerQ[w])
      BY DEF TypeOK
    <2>4. Shorter(UnderWayTo(w)', UnderWayTo(w))
      BY <2>3, ToShrinks
    <2>5. ASSUME NEW v \in WorkersOf(h) \ {w} PROVE UnderWayTo(v)' = UnderWayTo(v)
      <3>1. v \in Workers /\ workerQ'[v] = workerQ[v]
        BY <1>2
      <3>. QED  BY <3>1, ToKeeps, QueueMoves
    <2>. QED  BY <2>1, <2>2, <2>4, <2>5 DEF PipeMoves, Handles
  <1>4. CASE AgentOf[w] # h
    <2>1. x \notin From(h)
      BY <1>4, Disjoint
    <2>2. SameFrom(h)
      BY <1>1, <1>4, <2>1, PipeSend
    <2>3. QuietTo(h)
      BY <1>2, <1>4 DEF QuietTo
    <2>. QED  BY <2>2, <2>3, QuietSteps DEF PipeMoves
  <1>. QED  BY <1>3, <1>4

LEMMA PipeWorker ==
  ASSUME RelayedInv, TypeOK', NEW h \in Agents, Live(h), Live(h)',
         NEW w \in Workers, WorkerThread(w)
  PROVE  PipeMoves(h)
  <1>. USE Configuration DEF RelayedInv
  <1>0. /\ AgentOf[w] # h => \A v \in WorkersOf(h) : v \in Workers /\ v # w
        /\ AgentOf[w] = h => w \in WorkersOf(h)
    BY DEF WorkersOf
  <1>1. CASE WorkerConnects(w)
    <2>1. SendFromWorker(w, Connect(w)) /\ UNCHANGED <<sockDown, sockUp, workerQ>>
      BY <1>1 DEF WorkerConnects
    <2>2. Connect(w) \in Signals /\ Connect(w) \notin From(h) /\ Connect(w) \notin CoreSignals
      BY SignalTypes, Disjoint
    <2>3. SameFrom(h)
      BY <2>1, <2>2, PipeSend
    <2>4. SameTo(h)
      BY <2>1, QuietSteps DEF QuietTo
    <2>. QED  BY <2>3, <2>4 DEF PipeMoves
  <1>2. CASE WorkerConnected(w)
    <2>1. /\ Alive(w, "await") /\ workerQ[w] # << >>
          /\ workerQ' = [workerQ EXCEPT ![w] = Tail(@)]
          /\ UNCHANGED <<inbox, sockDown, sockUp, agentQ>>
      BY <1>2 DEF WorkerConnected
    <2>2. ASSUME NEW v \in WorkersOf(h) PROVE Kept(workerQ'[v], workerQ[v], CoreSignals)
      <3>1. CASE v = w
        <4>1. ConnectAt(w) /\ worker[w] = "await" /\ ~AgentDown(AgentOf[w]) /\ AgentOf[w] = h
          BY <2>1, <3>1 DEF ConnectFirst, Alive
        <4>2. Head(workerQ[w]) = Connect(w)
          BY <2>1, <4>1 DEF ConnectAt, Live
        <4>. QED  BY <2>1, <3>1, <4>2, Disjoint, QueueMoves DEF TypeOK
      <3>2. CASE v # w
        BY <2>1, <3>2, QueueMoves DEF TypeOK
      <3>. QED  BY <3>1, <3>2
    <2>3. SameTo(h)
      BY <2>1, <2>2, ToSame, QueueMoves
    <2>4. SameFrom(h)
      BY <2>1, QuietSteps DEF QuietFrom
    <2>. QED  BY <2>3, <2>4 DEF PipeMoves
  <1>3. CASE WorkerConnectFails(w) \/ WorkerExits(w)
    BY <1>3, Unchanged DEF WorkerConnectFails, WorkerExits, channelVars
  <1>4. ASSUME workerQ[w] # << >>, workerQ' = [workerQ EXCEPT ![w] = Tail(@)],
               UNCHANGED <<inbox, sockDown, sockUp, agentQ>>, AgentOf[w] # h
        PROVE  PipeMoves(h)
    <2>1. QuietTo(h) /\ QuietFrom(h)
      BY <1>0, <1>4 DEF QuietTo, QuietFrom, TypeOK
    <2>. QED  BY <2>1, QuietSteps DEF PipeMoves
  <1>5. CASE RunActivity(w)
    <2>1. /\ workerQ[w] # << >> /\ Head(workerQ[w]).type = "Activity"
          /\ workerQ' = [workerQ EXCEPT ![w] = Tail(@)]
          /\ UNCHANGED <<sockDown, sockUp>>
          /\ \/ SendFromWorker(w, Ready(Head(workerQ[w]).id))
             \/ w \in crashed' /\ UNCHANGED <<inbox, agentQ>>
      BY <1>5 DEF RunActivity
    <2>2. CASE w \in crashed' /\ UNCHANGED <<inbox, agentQ>>
      <3>1. AgentOf[w] # h
        BY <1>0, <2>2 DEF Live, WorkersOf
      <3>. QED  BY <1>4, <2>1, <2>2, <3>1
    <2>3. CASE SendFromWorker(w, Ready(Head(workerQ[w]).id))
      <3>1. Head(workerQ[w]) \in WorkSet(w)
        BY <2>1, HeadInRange DEF TypeOK, Addressed
      <3>2. Head(workerQ[w]) \in For(w)
        BY <2>1, <3>1 DEF WorkSet, StartupSync, Connect
      <3>3. PICK a \in Activities : Head(workerQ[w]) = Activity(a) /\ WorkerOf[a] = w
        BY <2>1, <3>2 DEF For, Terminate
      <3>4. Ready(Head(workerQ[w]).id) = Ready(a)
        BY <3>3 DEF Activity
      <3>5. Ready(a) \in From(AgentOf[w])
        BY <3>3 DEF From
      <3>6. Head(workerQ[w]) \in CoreSignals
        BY <3>2, Disjoint
      <3>. QED  BY <2>1, <2>3, <3>4, <3>5, <3>6, PipeAnswer
    <2>. QED  BY <2>1, <2>2, <2>3
  <1>6. CASE RunTerminate(w)
    <2>1. /\ workerQ[w] # << >> /\ Head(workerQ[w]) = Terminate
          /\ workerQ' = [workerQ EXCEPT ![w] = Tail(@)]
          /\ UNCHANGED <<sockDown, sockUp>>
          /\ IF ReceiverAlive(AgentOf[w]) THEN SendFromWorker(w, TerminateAck(AgentOf[w]))
                                          ELSE UNCHANGED <<inbox, agentQ>>
      BY <1>6 DEF RunTerminate
    <2>2. CASE ReceiverAlive(AgentOf[w])
      <3>1. TerminateAck(AgentOf[w]) \in From(AgentOf[w]) /\ Head(workerQ[w]) \in CoreSignals
        BY <2>1, Disjoint DEF From
      <3>. QED  BY <2>1, <2>2, <3>1, PipeAnswer
    <2>3. CASE ~ReceiverAlive(AgentOf[w])
      <3>1. AgentOf[w] # h
        BY <2>3 DEF ReceiverAlive, Live, UpClosed, TypeOK
      <3>. QED  BY <1>4, <2>1, <2>3, <3>1
    <2>. QED  BY <2>2, <2>3
  <1>. QED  BY <1>1, <1>2, <1>3, <1>5, <1>6 DEF WorkerThread

-----------------------------------------------------------------------------
(***************************************************************************)
(* The layers of relayed signalling - two relays per secondary, sockets,   *)
(* channels, and the loops that forward - implement SignalPipe: until an   *)
(* agent is broken, what the scheduler sends to its workers and what they  *)
(* answer is neither lost, duplicated, reordered nor misrouted.            *)
(***************************************************************************)
LEMMA PipeNextStep ==
  ASSUME RelayedInv, RelayedInv', Next
  PROVE  Pipe!PipeNext
  <1>. USE DEF RelayedInv
  <1>1. \A h \in Agents : Broken(h) => Broken(h)'
    BY BrokenStays
  <1>2. ASSUME NEW h \in Agents, ~Broken(h)' PROVE PipeMoves(h)
    <2>1. Live(h) /\ Live(h)'
      BY <1>1, <1>2, BrokenOrLive
    <2>2. ASSUME NEW how \in {"failed", "exited"}, PrimaryEnds(how) PROVE PipeMoves(h)
      BY <2>1, <2>2, PrimaryStaysUp
    <2>3. CASE PrimaryMain
      <3>1. CASE SpawnReceiveRelay \/ AckTimeout \/ \E g \in RemoteAgents : ConnectAgent(g)
        BY <3>1, Unchanged DEF SpawnReceiveRelay, AckTimeout, ConnectAgent, channelVars
      <3>2. CASE ConnectTimesOut \/ JoinWorkers \/ JoinRelay
        BY <2>2, <3>2, Unchanged DEF ConnectTimesOut, JoinWorkers, JoinRelay, channelVars
      <3>. QED  BY <2>1, <2>3, <3>1, <3>2, PipePrimary DEF PrimaryMain
    <2>4. CASE ReceiveRelayThread
      BY <2>1, <2>4, PipeReceiveRelay
    <2>5. CASE StartTerminate
      BY <2>5, Unchanged DEF StartTerminate, channelVars
    <2>6. ASSUME NEW a \in Activities, SendToActivity(a) PROVE PipeMoves(h)
      BY <2>1, <2>6, PipeSendToActivity
    <2>7. ASSUME NEW g \in RemoteAgents, SecondaryMain(g) PROVE PipeMoves(h)
      BY <2>1, <2>7, PipeSecondaryMain
    <2>8. ASSUME NEW g \in RemoteAgents, SecondaryReceiveRelay(g) PROVE PipeMoves(h)
      BY <2>1, <2>8, PipeSecondaryRelay
    <2>9. ASSUME NEW w \in Workers, WorkerThread(w) PROVE PipeMoves(h)
      BY <2>1, <2>9, PipeWorker
    <2>10. CASE PrimaryKilled
      BY <2>2, <2>10 DEF PrimaryKilled
    <2>11. ASSUME NEW g \in RemoteAgents, SecondaryKilled(g) PROVE PipeMoves(h)
      BY <2>1, <2>11, PipeSecondaryEnds DEF SecondaryKilled
    <2>. QED  BY <2>3, <2>4, <2>5, <2>6, <2>7, <2>8, <2>9, <2>10, <2>11 DEF Next
  <1>3. \A h \in Agents : ~Broken(h)' => Pipe!Same(h) \/ Pipe!Post(h) \/ Pipe!Handle(h) \/ Pipe!Deliver(h)
    BY <1>2, PipeStep
  <1>4. {g \in Agents : Broken(g)} \subseteq {g \in Agents : Broken(g)}'
    BY <1>1
  <1>5. \A h \in Agents \ {g \in Agents : Broken(g)}' : ~Broken(h)'
    OBVIOUS
  <1>. QED  BY <1>3, <1>4, <1>5 DEF Pipe!PipeNext

LEMMA PipeInitially == Init => Pipe!PipeInit
  <1>. SUFFICES ASSUME Init PROVE Pipe!PipeInit
    OBVIOUS
  <1>. USE Configuration
  <1>1. /\ inbox = << >> /\ \A w \in Workers : workerQ[w] = << >>
        /\ \A g \in RemoteAgents : sockDown[g] = << >> /\ sockUp[g] = << >> /\ agentQ[g] = << >>
    BY DEF Init, NewChannels
  <1>2. << >> \o << >> = << >>
    BY EmptySeq
  <1>3. \A w \in Workers : UnderWayTo(w) = << >>
    BY <1>1, <1>2, OnlyEmpty DEF UnderWayTo
  <1>4. \A h \in Agents : UnderWayFrom(h) = << >>
    BY <1>1, <1>2, OnlyEmpty DEF UnderWayFrom
  <1>5. \A h \in Agents : ~Broken(h)
    BY DEF Init, PrimaryInit, SecondaryInit, Broken, PrimaryDown, AgentDown, Incomplete, UpClosed
  <1>. QED  BY <1>3, <1>4, <1>5 DEF Pipe!PipeInit

(***************************************************************************)
(* Relayed signalling implements SignalPipe: for every number of agents,   *)
(* workers and activities, as long as the processes and threads on its way *)
(* live, a signal of the scheduler reaches exactly the workers it is for   *)
(* and those of an agent reach the scheduler, in order and exactly once,   *)
(* through both relays of the agent (PrimarySendRelay and                  *)
(* SecondaryReceiveRelay down, SecondarySendRelay and PrimaryReceiveRelay  *)
(* up).                                                                    *)
(***************************************************************************)
THEOREM RelayedImplementsPipe == Spec => ImplementsPipe
  <1>1. Init => Pipe!PipeInit
    BY PipeInitially
  <1>2. RelayedInv /\ RelayedInv' /\ [Next]_vars => [Pipe!PipeNext]_(Pipe!pipeVars)
    <2>1. ASSUME UNCHANGED vars PROVE UNCHANGED Pipe!pipeVars
      BY <2>1 DEF vars, primaryVars, secondaryVars, channelVars, workerVars, Pipe!pipeVars,
             UnderWayTo, UnderWayFrom, Broken, PrimaryDown, AgentDown, Incomplete, UpClosed
    <2>. QED  BY <2>1, PipeNextStep
  <1>. QED  BY <1>1, <1>2, RelayedInvariantHolds, PTL DEF Spec, ImplementsPipe, Pipe!PipeSpec
=============================================================================
