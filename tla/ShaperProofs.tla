---------------------------- MODULE ShaperProofs ----------------------------
(***************************************************************************)
(* Theorems about the shaper for every bucket size, rate and packet size:   *)
(* its types, who looks at the packets a run leaves, that it keeps to both  *)
(* of its rates, and that its CoDel child does not drop too early.          *)
(***************************************************************************)
EXTENDS ShaperHistory, SequenceTheorems, TLAPS

\* A quotient is a natural number that fits the dividend.
LEMMA QuotientFits ==
  ASSUME NEW a \in Nat, NEW b \in Nat \ {0}
  PROVE  a \div b \in Nat /\ b * (a \div b) <= a
OBVIOUS

\* Multiplication by a natural number keeps the order of two integers.
LEMMA ProductsKeepOrder ==
  ASSUME NEW a \in Int, NEW b \in Int, NEW c \in Nat, a <= b
  PROVE  c * a <= c * b
OBVIOUS

\* The product of two natural numbers is one.
LEMMA ProductsAreNatural ==
  ASSUME NEW a \in Nat, NEW b \in Nat
  PROVE  a * b \in Nat
OBVIOUS

\* The tokens of a bucket that pays for a packet: what the line of its rate is
\* behind stays below what the bucket lacks, less what it has earned since.
LEMMA BucketPays ==
  ASSUME NEW size \in Nat, NEW byteTime \in Nat \ {0}, NEW tokens \in 0..size,
         elapsed \in Nat, NEW cost \in Nat \ {0}, NEW behind \in Nat,
         behind <= Larger(2 * (byteTime * (size - tokens)) - 2 * elapsed, 0),
         Available(tokens, size, byteTime) >= cost
  PROVE  /\ Available(tokens, size, byteTime) - cost \in 0..size
         /\ behind + 2 * cost * byteTime - byteTime \in Nat
         /\ behind + 2 * cost * byteTime - byteTime
              <= 2 * (byteTime * (size - (Available(tokens, size, byteTime) - cost)))
<1> DEFINE earned == Earned(byteTime)
           available == Available(tokens, size, byteTime)
<1>1. earned \in Nat /\ 2 * (byteTime * earned) <= 2 * elapsed + byteTime
  <2>1. 2 * elapsed + byteTime \in Nat /\ 2 * byteTime \in Nat \ {0}
    OBVIOUS
  <2>2. earned \in Nat /\ (2 * byteTime) * earned <= 2 * elapsed + byteTime
    BY <2>1, QuotientFits DEF Earned
  <2>3. (2 * byteTime) * earned = 2 * (byteTime * earned)
    BY <2>2
  <2> QED
    BY <2>2, <2>3
<1>2. available \in Int /\ available <= size /\ available <= tokens + earned
  BY <1>1 DEF Available, Smaller
<1>3. available - cost \in 0..size
  BY <1>2
<1> HIDE DEF earned, available
<1>4. byteTime * available <= byteTime * tokens + byteTime * earned
  <2>1. byteTime * available <= byteTime * (tokens + earned)
    BY <1>1, <1>2, ProductsKeepOrder
  <2>2. byteTime * (tokens + earned) = byteTime * tokens + byteTime * earned
    BY <1>1
  <2> QED
    BY <1>1, <1>2, <2>1, <2>2
<1>5. byteTime * available <= byteTime * size
  BY <1>2, ProductsKeepOrder
<1>6. behind <= 2 * (byteTime * (size - available)) + byteTime
  <2>1. /\ byteTime * (size - available) = byteTime * size - byteTime * available
        /\ byteTime * (size - tokens) = byteTime * size - byteTime * tokens
    BY <1>2
  <2>2. CASE behind <= 0
    BY <1>2, <1>5, <2>1, <2>2
  <2>3. CASE behind <= 2 * (byteTime * (size - tokens)) - 2 * elapsed
    BY <1>1, <1>2, <1>4, <2>1, <2>3
  <2> QED
    BY <1>2, <2>2, <2>3 DEF Larger
<1>7. byteTime * (size - (available - cost)) = byteTime * (size - available) + byteTime * cost
  BY <1>2
<1>8. 2 * cost * byteTime = 2 * (byteTime * cost) /\ byteTime * cost >= byteTime
  BY ProductsKeepOrder
<1>9. behind + 2 * cost * byteTime - byteTime \in Nat
  BY <1>8
<1>10. behind + 2 * cost * byteTime - byteTime
         <= 2 * (byteTime * (size - (available - cost)))
  BY <1>2, <1>6, <1>7, <1>8
<1> QED
  BY <1>3, <1>9, <1>10 DEF available

\* The backlog bound the clocks stop at, and the delays, are natural numbers.
LEMMA BoundsAreNatural ==
  ASSUME peak \in PeakTimes
  PROVE  /\ peak \in Nat /\ MaxElapsed \in Nat /\ MaxOverdue \in Nat
         /\ MaxElapsed >= Burst * ByteTime /\ MaxElapsed >= Mtu * peak
<1>1. peak \in Nat
  BY ShaperAssumption
<1>2. Burst * ByteTime \in Nat /\ Mtu * peak \in Nat /\ MaxSize * Interval \in Nat
  BY <1>1, ShaperAssumption, ProductsAreNatural
<1> QED
  BY <1>1, <1>2 DEF MaxElapsed, MaxOverdue, Larger

StoredPackets == [size : Sizes, age : 0..Target]

\* What is popped off a queue of packets is one of them or none, what is left is a
\* queue of packets, and none is made up.
LEMMA PoppedIsTyped ==
  ASSUME NEW q \in Seq(StoredPackets)
  PROVE  /\ Rest(q) \in Seq(StoredPackets)
         /\ Popped(q) = None \/ Popped(q) \in StoredPackets
         /\ Len(q) \in Nat
         /\ Len(Rest(q)) = IF q = <<>> THEN 0 ELSE Len(q) - 1
         /\ q = <<>> => Popped(q) = None
         /\ q # <<>> => Len(q) > 0
<1>1. CASE q = <<>>
  BY <1>1 DEF Rest, Popped
<1>2. CASE q # <<>>
  <2>1. Head(q) \in StoredPackets /\ Tail(q) \in Seq(StoredPackets)
    BY <1>2, HeadTailProperties
  <2>2. Len(q) \in Nat /\ Len(q) > 0 /\ Len(Tail(q)) = Len(q) - 1
    BY <1>2, HeadTailProperties, EmptySeq, LenProperties
  <2> QED
    BY <1>2, <2>1, <2>2 DEF Rest, Popped
<1> QED
  BY <1>1, <1>2

\* The loop of CoDel's dequeue turns only while a drop is due.
DropIsDue == pc = "drop" => dropping /\ dropNext <= 0

TypeInvariant == TypeOK /\ DropIsDue

\* Both clocks of CoDel stay in their ranges: FirstAbove sets one, ControlLaw the
\* other.
LEMMA ClocksStayTyped ==
  ASSUME NEW q, NEW t, t = None \/ t \in -1..Interval
  PROVE  /\ FirstAbove(q, t) = None \/ FirstAbove(q, t) \in -1..Interval
         /\ \A n \in -MaxOverdue..0 : ControlLaw(n) \subseteq -MaxOverdue..Interval
<1>1. FirstAbove(q, t) = None \/ FirstAbove(q, t) \in -1..Interval
  BY ShaperAssumption DEF FirstAbove
<1>2. ASSUME NEW n \in -MaxOverdue..0
      PROVE  ControlLaw(n) \subseteq -MaxOverdue..Interval
  <2>1. MaxOverdue \in Nat /\ Interval \in Nat
    BY ShaperAssumption, ProductsAreNatural DEF MaxOverdue
  <2> QED
    BY <2>1 DEF ControlLaw
<1> QED
  BY <1>1, <1>2

\* What a bucket has is a number of tokens that no delay turns negative.
LEMMA DelaysAreNatural ==
  ASSUME TypeOK, held # None
  PROVE  BTokens \in Int /\ PTokens \in Int /\ RequiredDelay \subseteq Nat
<1>1. /\ peak \in Nat /\ elapsed \in Nat /\ held.size \in Nat
      /\ btokens \in Nat /\ ptokens \in Nat /\ Burst \in Nat /\ Mtu \in Nat
      /\ ByteTime \in Nat \ {0} /\ Word \in Nat \ {0} /\ NaNDelays \subseteq Nat
  <2>1. /\ Burst \in Nat /\ Mtu \in Nat /\ NaNDelays \subseteq Nat
        /\ ByteTime \in Nat \ {0} /\ Word \in Nat \ {0} /\ Sizes \subseteq Nat
    BY ShaperAssumption
  <2>2. peak \in PeakTimes /\ elapsed \in 0..MaxElapsed
    BY DEF TypeOK
  <2>3. peak \in Nat /\ MaxElapsed \in Nat
    BY <2>2, BoundsAreNatural
  <2>4. elapsed \in Nat
    BY <2>2, <2>3
  <2>5. held.size \in Sizes
    BY DEF TypeOK
  <2>6. btokens \in Nat /\ ptokens \in Nat
    BY <2>1 DEF TypeOK
  <2> QED
    BY <2>1, <2>3, <2>4, <2>5, <2>6
<1>2. ASSUME NEW b \in Nat \ {0}, NEW tokens \in Nat, NEW n \in Nat
      PROVE  Available(tokens, n, b) \in Nat
  <2>1. Earned(b) \in Nat
    BY <1>1, QuotientFits DEF Earned
  <2> QED
    BY <2>1 DEF Available, Smaller
<1>3. BTokens \in Int
  BY <1>1, <1>2 DEF BTokens
<1>4. PTokens \in Int
  BY <1>1, <1>2 DEF PTokens
<1>5. RateDelay \in Nat
  <2>1. (-BTokens) % Word \in Nat
    BY <1>1, <1>3
  <2> QED
    BY <1>1, <2>1, ProductsAreNatural DEF RateDelay
<1>6. PeakDelay \subseteq Nat
  <2>1. (-PTokens) % Word \in Nat
    BY <1>1, <1>4
  <2>2. peak * ((-PTokens) % Word) \in Nat
    BY <1>1, <2>1, ProductsAreNatural
  <2> QED
    BY <1>1, <2>2 DEF PeakDelay
<1> QED
  BY <1>3, <1>4, <1>5, <1>6 DEF RequiredDelay, Larger

\* CoDel's dequeue, in its three forms, leaves the types as they are.
LEMMA PopsStayTyped ==
  ASSUME TypeOK, pc = "run", held = None, PopAndKeep \/ PopAndDrop \/ PopAndLoop
  PROVE  /\ queue' \in Seq(StoredPackets) /\ Stored' <= MaxSize
         /\ held' = None \/ held' \in StoredPackets
         /\ dropping' \in BOOLEAN
         /\ firstAbove' = None \/ firstAbove' \in -1..Interval
         /\ dropNext' \in -MaxOverdue..Interval
         /\ pc' \in {"idle", "run", "drop"}
         /\ DropIsDue'
<1>1. /\ queue \in Seq(StoredPackets) /\ Len(queue) <= MaxSize
      /\ MaxSize \in Nat \ {0} /\ Interval \in Nat /\ MaxOverdue \in Nat
      /\ dropping \in BOOLEAN /\ dropNext \in -MaxOverdue..Interval
  BY ShaperAssumption, BoundsAreNatural DEF TypeOK, Stored, StoredPackets
<1>2. /\ Rest(queue) \in Seq(StoredPackets)
      /\ Popped(queue) = None \/ Popped(queue) \in StoredPackets
      /\ Len(queue) \in Nat
      /\ Len(Rest(queue)) = IF queue = <<>> THEN 0 ELSE Len(queue) - 1
      /\ queue = <<>> => Popped(queue) = None
  BY <1>1, PoppedIsTyped
<1>3. /\ Rest(Rest(queue)) \in Seq(StoredPackets)
      /\ Popped(Rest(queue)) = None \/ Popped(Rest(queue)) \in StoredPackets
      /\ Len(Rest(Rest(queue))) = IF Rest(queue) = <<>> THEN 0 ELSE Len(Rest(queue)) - 1
      /\ Rest(queue) = <<>> => Popped(Rest(queue)) = None
      /\ Rest(queue) # <<>> => Len(Rest(queue)) > 0
  BY <1>2, PoppedIsTyped
<1>4. \A q : FirstAbove(q, firstAbove) = None \/ FirstAbove(q, firstAbove) \in -1..Interval
  BY ClocksStayTyped DEF TypeOK
<1>5. \A q, t : OkToDrop(q, t) \in BOOLEAN
  BY DEF OkToDrop
<1>6. CASE PopAndKeep
  <2>1. dropping' \in BOOLEAN /\ dropNext' \in -MaxOverdue..Interval
    BY <1>1, <1>6 DEF PopAndKeep
  <2>2. firstAbove' = None \/ firstAbove' \in -1..Interval
    BY <1>4, <1>6 DEF PopAndKeep, TypeOK
  <2>3. Stored' <= MaxSize
    BY <1>1, <1>2, <1>6 DEF PopAndKeep, Stored
  <2> QED
    BY <1>2, <1>6, <2>1, <2>2, <2>3 DEF PopAndKeep, DropIsDue
<1>7. CASE PopAndDrop
  <2>1. dropNext' \in -MaxOverdue..Interval
    <3>1. 0 \in -MaxOverdue..0
      BY <1>1
    <3> QED
      BY <1>7, <3>1, ClocksStayTyped DEF PopAndDrop, TypeOK
  <2>2. Stored' <= MaxSize
    BY <1>1, <1>2, <1>3, <1>7 DEF PopAndDrop, Stored
  <2> QED
    BY <1>3, <1>4, <1>7, <2>1, <2>2 DEF PopAndDrop, DropIsDue
<1>8. CASE PopAndLoop
  <2>1. Stored' <= MaxSize
    BY <1>1, <1>2, <1>8 DEF PopAndLoop, Stored
  <2> QED
    BY <1>1, <1>2, <1>4, <1>8, <2>1 DEF PopAndLoop, DropIsDue
<1> QED
  BY <1>6, <1>7, <1>8

\* A packet that is sent leaves buckets that are filled to their sizes at most.
LEMMA SendStaysTyped ==
  ASSUME TypeOK, Send
  PROVE  btokens' \in 0..Burst /\ ptokens' \in 0..Mtu
<1>1. /\ peak \in Nat /\ held.size \in Nat \ {0} /\ Burst \in Nat /\ Mtu \in Nat
      /\ BTokens \in Int /\ PTokens \in Int
  BY ShaperAssumption, DelaysAreNatural DEF TypeOK, Send
<1>2. BTokens >= 0 /\ PTokens >= 0 /\ btokens' = BTokens /\ ptokens' = PTokens
  BY DEF Send, Conforming
<1>3. \A m, n \in Int : Smaller(m, n) <= m
  BY DEF Smaller
<1>4. elapsed \in Nat /\ btokens \in Nat /\ ptokens \in Nat /\ ByteTime \in Nat \ {0}
  <2>1. elapsed \in 0..MaxElapsed /\ MaxElapsed \in Nat
    BY BoundsAreNatural DEF TypeOK
  <2>2. elapsed \in Nat
    BY <2>1
  <2> QED
    BY <1>1, <2>2, ShaperAssumption DEF TypeOK
<1>5. ASSUME NEW b \in Nat \ {0}
      PROVE  Earned(b) \in Nat
  BY <1>4, QuotientFits DEF Earned
<1>6. BTokens <= Burst
  <2>1. Available(btokens, Burst, ByteTime) \in Int /\ Available(btokens, Burst, ByteTime) <= Burst
    BY <1>1, <1>4, <1>5 DEF Available, Smaller
  <2> QED
    BY <1>1, <2>1 DEF BTokens
<1>7. PTokens <= Mtu
  <2>1. CASE peak = 0
    BY <1>1, <2>1 DEF PTokens
  <2>2. CASE peak # 0
    <3>1. Available(ptokens, Mtu, peak) \in Int /\ Available(ptokens, Mtu, peak) <= Mtu
      BY <1>1, <1>4, <1>5, <2>2 DEF Available, Smaller
    <3> QED
      BY <1>1, <2>2, <3>1 DEF PTokens
  <2> QED
    BY <2>1, <2>2
<1> QED
  BY <1>1, <1>2, <1>6, <1>7

\* Time only ages the packets, and moves the clocks within their ranges.
LEMMA TickStaysTyped ==
  ASSUME TypeOK, Tick
  PROVE  TypeOK'
<1>1. /\ peak' \in PeakTimes /\ MaxElapsed' = MaxElapsed /\ MaxElapsed \in Nat
      /\ MaxOverdue \in Nat /\ Interval \in Nat /\ MaxOverdue' = MaxOverdue
  BY BoundsAreNatural, ShaperAssumption DEF TypeOK, Tick, MaxElapsed, MaxOverdue
<1>2. elapsed' \in 0..MaxElapsed
  BY <1>1 DEF TypeOK, Tick, Smaller
<1>3. wakeIn' = None \/ wakeIn' \in Nat
  BY DEF TypeOK, Tick
<1>4. queue' \in Seq(StoredPackets) /\ Len(queue') = Len(queue)
  <2> DEFINE older == [i \in 1..Len(queue) |->
                         [size |-> queue[i].size, age |-> Smaller(queue[i].age + 1, Target)]]
  <2>1. queue \in Seq(StoredPackets) /\ Len(queue) \in Nat /\ DOMAIN queue = 1..Len(queue)
    BY LenProperties DEF TypeOK, StoredPackets
  <2>2. ASSUME NEW i \in 1..Len(queue)
        PROVE  [size |-> queue[i].size, age |-> Smaller(queue[i].age + 1, Target)]
                 \in StoredPackets
    <3>1. queue[i] \in StoredPackets
      BY <2>1, ElementOfSeq
    <3>2. Target \in Nat
      BY ShaperAssumption
    <3>3. Smaller(queue[i].age + 1, Target) \in 0..Target
      BY <3>1, <3>2 DEF Smaller, StoredPackets
    <3> QED
      BY <3>1, <3>3 DEF StoredPackets
  <2>3. older \in Seq(StoredPackets) /\ Len(older) = Len(queue)
    BY <2>1, <2>2, IsASeq
  <2>4. queue' = older
    BY <2>1 DEF Tick
  <2> QED
    BY <2>3, <2>4
<1>5. firstAbove' = None \/ firstAbove' \in -1..Interval
  BY <1>1 DEF TypeOK, Tick, Larger
<1>6. dropNext' \in -MaxOverdue..Interval
  BY <1>1 DEF TypeOK, Tick, Larger
<1>7. Stored' <= MaxSize
  BY <1>4 DEF TypeOK, Tick, Stored
<1> QED
  BY <1>1, <1>2, <1>3, <1>4, <1>5, <1>6, <1>7 DEF TypeOK, Tick, StoredPackets

\* The types hold at the start: full buckets, an empty queue.
LEMMA TypesAtFirst == Init => TypeInvariant
<1> SUFFICES ASSUME Init
             PROVE  TypeInvariant
  OBVIOUS
<1>1. /\ Burst \in Nat /\ Mtu \in Nat /\ MaxSize \in Nat /\ Interval \in Nat
      /\ Quota \in 0..Word - 1
  BY ShaperAssumption
<1>2. MaxElapsed \in Nat /\ MaxOverdue \in Nat
  BY BoundsAreNatural DEF Init
<1>3. queue \in Seq(StoredPackets) /\ Stored <= MaxSize
  BY <1>1, EmptySeq DEF Init, Stored
<1>4. 0 \in 0..MaxElapsed /\ 0 \in -MaxOverdue..Interval /\ Burst \in 0..Burst /\ Mtu \in 0..Mtu
  BY <1>1, <1>2
<1> QED
  BY <1>1, <1>3, <1>4 DEF Init, TypeInvariant, TypeOK, DropIsDue, StoredPackets

\* A run starts with m_quota and counts it down as a uint32_t.
LEMMA QuotaStaysTyped ==
  ASSUME TypeOK, [Next]_vars
  PROVE  quota' \in 0..Word - 1
<1>1. Quota \in 0..Word - 1 /\ Word \in Nat \ {0} /\ quota \in 0..Word - 1
  BY ShaperAssumption DEF TypeOK
<1>2. (quota - 1) % Word \in 0..Word - 1
  BY <1>1
<1>3. quota' \in {quota, Quota, (quota - 1) % Word}
  <2>1. CASE \/ Tick \/ WatchdogRun \/ DeviceWake \/ UNCHANGED vars
             \/ \E size \in Sizes : Enqueue(size)
    BY <2>1 DEF Tick, WatchdogRun, DeviceWake, vars, Enqueue, RunBegin
  <2>2. CASE Restart
    BY <2>2 DEF Restart, TbfPeek, DropLoop, Send, CountDown, Block, RunStopped
  <2> QED
    BY <2>1, <2>2 DEF Next
<1> QED
  BY <1>1, <1>2, <1>3

\* Every action leaves the types, and the loop's condition, as they were.
LEMMA TypesAfterAStep == TypeInvariant /\ [Next]_vars => TypeInvariant'
<1> SUFFICES ASSUME TypeOK, DropIsDue, [Next]_vars
             PROVE  TypeInvariant'
  BY DEF TypeInvariant
<1>1. /\ queue \in Seq(StoredPackets) /\ Stored <= MaxSize /\ Len(queue) \in Nat
      /\ MaxSize \in Nat \ {0} /\ MaxOverdue \in Nat /\ Interval \in Nat
      /\ quota' \in 0..Word - 1
  BY ShaperAssumption, BoundsAreNatural, PoppedIsTyped, QuotaStaysTyped
     DEF TypeOK, StoredPackets
<1>2. ASSUME NEW size \in Sizes, Enqueue(size)
      PROVE  TypeInvariant'
  <2>1. [size |-> size, age |-> 0] \in StoredPackets
    BY ShaperAssumption DEF StoredPackets
  <2>2. queue' \in Seq(StoredPackets) /\ Stored' <= MaxSize
    <3>1. CASE Stored < MaxSize
      <4>1. queue' = Append(queue, [size |-> size, age |-> 0])
        BY <1>2, <3>1 DEF Enqueue
      <4>2. queue' \in Seq(StoredPackets) /\ Len(queue') = Len(queue) + 1
        BY <1>1, <2>1, <4>1, AppendProperties
      <4> QED
        BY <1>1, <1>2, <3>1, <4>2 DEF Enqueue, Stored
    <3>2. CASE ~(Stored < MaxSize)
      BY <1>1, <1>2, <3>2 DEF Enqueue, Stored
    <3> QED
      BY <3>1, <3>2
  <2> QED
    BY <1>1, <1>2, <2>2 DEF TypeInvariant, TypeOK, DropIsDue, Enqueue, RunBegin, tbf,
       MaxElapsed, MaxOverdue, StoredPackets
<1>3. CASE TbfPeek
  BY <1>1, <1>3, PopsStayTyped
     DEF TypeInvariant, TypeOK, TbfPeek, tbf, MaxElapsed, MaxOverdue, StoredPackets
<1>4. CASE DropLoop
  <2>1. /\ Rest(queue) \in Seq(StoredPackets)
        /\ Popped(queue) = None \/ Popped(queue) \in StoredPackets
        /\ Len(Rest(queue)) = IF queue = <<>> THEN 0 ELSE Len(queue) - 1
        /\ queue = <<>> => Popped(queue) = None
    BY <1>1, PoppedIsTyped
  <2>2. firstAbove' = None \/ firstAbove' \in -1..Interval
    BY <1>4, ClocksStayTyped DEF TypeOK, DropLoop
  <2>3. dropping' \in BOOLEAN /\ dropNext' \in -MaxOverdue..Interval
    <3>1. dropNext \in -MaxOverdue..0
      BY <1>1, <1>4 DEF TypeOK, DropIsDue, DropLoop
    <3>2. ControlLaw(dropNext) \subseteq -MaxOverdue..Interval
      BY <3>1, ClocksStayTyped DEF TypeOK
    <3>3. 0 \in -MaxOverdue..Interval
      BY <1>1
    <3> QED
      BY <1>4, <3>2, <3>3 DEF DropLoop, OkToDrop
  <2>4. Stored' <= MaxSize
    <3>1. Len(queue) <= MaxSize
      BY <1>1 DEF Stored
    <3>2. queue' = Rest(queue) /\ held' = Popped(queue)
      BY <1>4 DEF DropLoop
    <3> QED
      BY <1>1, <2>1, <3>1, <3>2 DEF Stored
  <2>5. pc' \in {"idle", "run", "drop"} /\ DropIsDue'
    BY <1>4 DEF DropLoop, DropIsDue
  <2> QED
    BY <1>1, <1>4, <2>1, <2>2, <2>3, <2>4, <2>5
       DEF TypeInvariant, TypeOK, DropLoop, tbf, MaxElapsed, MaxOverdue, StoredPackets
<1>5. CASE Send
  <2>1. btokens' \in 0..Burst /\ ptokens' \in 0..Mtu
    BY <1>5, SendStaysTyped
  <2>2. elapsed' \in 0..MaxElapsed' /\ Stored' <= MaxSize
    <3>1. MaxElapsed \in Nat /\ MaxElapsed' = MaxElapsed
      BY <1>5, BoundsAreNatural DEF TypeOK, Send, MaxElapsed
    <3> QED
      BY <1>1, <1>5, <3>1 DEF Send, Stored
  <2> QED
    BY <1>1, <1>5, <2>1, <2>2
       DEF TypeInvariant, TypeOK, DropIsDue, Send, CountDown, MaxOverdue, StoredPackets
<1>6. CASE Block
  <2>1. wakeIn' = None \/ wakeIn' \in Nat
    BY <1>6, DelaysAreNatural DEF TypeOK, Block, Watchdog
  <2> QED
    BY <1>1, <1>6, <2>1
       DEF TypeInvariant, TypeOK, DropIsDue, Block, tbf, codel, MaxElapsed, MaxOverdue, Stored
<1>7. CASE RunStopped \/ WatchdogRun \/ DeviceWake
  BY <1>1, <1>7 DEF TypeInvariant, TypeOK, DropIsDue, RunStopped, WatchdogRun, DeviceWake,
     RunBegin, tbf, codel, MaxElapsed, MaxOverdue, Stored
<1>8. CASE Tick
  BY <1>8, TickStaysTyped DEF TypeInvariant, DropIsDue, Tick
<1>9. CASE UNCHANGED vars
  BY <1>1, <1>9 DEF TypeInvariant, TypeOK, DropIsDue, vars, tbf, codel, MaxElapsed, MaxOverdue, Stored
<1> QED
  BY <1>2, <1>3, <1>4, <1>5, <1>6, <1>7, <1>8, <1>9 DEF Next, Restart

\* The fields of the shaper keep their types: no bucket is filled over its size or
\* pays more than it has, the queue never holds more than MaxSize packets, the one
\* held back by a peek included, and CoDel's clocks stay near the present.
THEOREM ShaperTypeCorrect == Spec => []TypeOK
<1>1. TypeInvariant => TypeOK
  BY DEF TypeInvariant
<1> QED
  BY <1>1, TypesAtFirst, TypesAfterAStep, PTL DEF Spec

\* A run ends only where the queue disc is empty, the device stopped, the watchdog
\* set or the quota used up, and all of these stay as they are until the next run
\* starts, but that the watchdog's time comes nearer.
LEMMA NothingIsAbandoned ==
  TypeInvariant /\ NotAbandoned /\ [Next]_vars => NotAbandoned'
<1> SUFFICES ASSUME TypeOK, NotAbandoned, [Next]_vars, pc' = "idle", Stored' > 0
             PROVE  stopped' \/ wakeIn' # None \/ (quota' = 0 /\ held' = None)
  BY DEF NotAbandoned, TypeInvariant
<1>1. None \notin Nat \cup StoredPackets
  BY ShaperAssumption DEF StoredPackets
<1>2. \A q \in Seq(StoredPackets) :
        /\ Rest(q) \in Seq(StoredPackets)
        /\ Popped(q) = None => Rest(q) = <<>>
  <2> SUFFICES ASSUME NEW q \in Seq(StoredPackets)
               PROVE  /\ Rest(q) \in Seq(StoredPackets)
                      /\ Popped(q) = None => Rest(q) = <<>>
    OBVIOUS
  <2>1. q # <<>> => Head(q) \in StoredPackets
    BY HeadTailProperties
  <2> QED
    BY <1>1, <2>1, PoppedIsTyped DEF Popped, Rest
<1>3. queue \in Seq(StoredPackets)
  BY DEF TypeOK, StoredPackets
<1>4. queue' = <<>> => held' # None
  BY EmptySeq DEF Stored
<1>5. CASE TbfPeek
  <2>1. CASE PopAndKeep
    BY <1>2, <1>3, <1>4, <2>1 DEF PopAndKeep, Popped, Rest
  <2>2. CASE PopAndDrop
    BY <1>2, <1>3, <1>4, <2>2 DEF PopAndDrop
  <2>3. CASE PopAndLoop
    BY <2>3 DEF PopAndLoop
  <2> QED
    BY <1>5, <2>1, <2>2, <2>3 DEF TbfPeek
<1>6. CASE DropLoop
  BY <1>2, <1>3, <1>4, <1>6 DEF DropLoop
<1>7. CASE Send
  BY <1>4, <1>7 DEF Send, CountDown
<1>8. CASE Block
  <2>1. RequiredDelay \subseteq Nat
    BY <1>8, DelaysAreNatural DEF Block
  <2> QED
    BY <1>1, <1>8, <2>1 DEF Block, Watchdog
<1>9. CASE RunStopped
  BY <1>9 DEF RunStopped
<1>10. CASE Tick
  <2>1. Len(queue') = Len(queue) /\ held' = held
    <3>1. Len(queue) \in Nat /\ DOMAIN queue = 1..Len(queue)
      BY <1>3, LenProperties
    <3> QED
      BY <1>10, <3>1 DEF Tick
  <2>2. Stored > 0
    BY <2>1 DEF Stored
  <2>3. wakeIn # None => wakeIn - 1 \in Int /\ wakeIn - 1 \in Nat
    BY <1>10 DEF TypeOK, Tick
  <2> QED
    BY <1>1, <1>10, <2>2, <2>3 DEF NotAbandoned, Tick
<1>11. CASE UNCHANGED vars
  BY <1>11 DEF vars, codel, NotAbandoned, Stored
<1>12. CASE (\E size \in Sizes : Enqueue(size)) \/ WatchdogRun \/ DeviceWake
  BY <1>12 DEF Enqueue, WatchdogRun, DeviceWake, RunBegin
<1> QED
  BY <1>5, <1>6, <1>7, <1>8, <1>9, <1>10, <1>11, <1>12 DEF Next, Restart

\* Whenever nothing runs and there are packets, the stopped device will wake the
\* queue disc or the watchdog will, the one set before and kept, the one that fires
\* in vain and the one that is expired when a packet is blocked all included; or the
\* last run used up its quota, and TBF holds no packet back.
THEOREM NoPacketIsAbandoned == Spec => []NotAbandoned
<1>1. Init => NotAbandoned
  BY EmptySeq DEF Init, NotAbandoned, Stored
<1> QED
  BY <1>1, TypesAtFirst, TypesAfterAStep, NothingIsAbandoned, PTL DEF Spec

-----------------------------------------------------------------------------
(***************************************************************************)
(* The rates.  A line that starts full and the bucket move together: the    *)
(* line is never further behind than the bucket lacks tokens, less what it  *)
(* will be found to have earned since the last packet.                      *)
(***************************************************************************)
Behind(n, tokens, size, byteTime) ==
  n <= Larger(2 * (byteTime * (size - tokens)) - 2 * elapsed, 0)

RatesInvariant ==
  /\ excess \in Nat /\ Behind(excess, btokens, Burst, ByteTime)
  /\ pexcess \in Nat
  /\ peak = 0 => pexcess = 0
  /\ peak # 0 => Behind(pexcess, ptokens, Mtu, peak)

HistoryInvariant == TypeInvariant /\ RatesInvariant

\* A tick drains the line and lets the bucket earn; once elapsed has stopped at its
\* bound the bucket is full and the line has nothing to catch up with.
LEMMA BucketFills ==
  ASSUME NEW size \in Nat, NEW byteTime \in Nat, NEW tokens \in 0..size, NEW n \in Nat,
         elapsed \in 0..MaxElapsed, MaxElapsed \in Nat, size * byteTime <= MaxElapsed,
         Behind(n, tokens, size, byteTime), elapsed' = Smaller(elapsed + 1, MaxElapsed)
  PROVE  /\ Drained(n) \in Nat
         /\ Drained(n) <= Larger(2 * (byteTime * (size - tokens)) - 2 * elapsed', 0)
<1> DEFINE lack == byteTime * (size - tokens)
<1>1. lack \in Nat /\ lack <= MaxElapsed
  <2>1. size - tokens \in Nat /\ size - tokens <= size
    OBVIOUS
  <2>2. lack \in Nat /\ lack <= byteTime * size
    BY <2>1, ProductsAreNatural, ProductsKeepOrder
  <2> QED
    BY <2>2
<1>2. n <= Larger(2 * lack - 2 * elapsed, 0)
  BY DEF Behind
<1> HIDE DEF lack
<1>3. Drained(n) \in Nat
  BY DEF Drained, Larger
<1>4. elapsed \in Nat /\ elapsed <= MaxElapsed
  OBVIOUS
<1>5. CASE elapsed = MaxElapsed
  <2>1. n = 0 /\ elapsed' = MaxElapsed
    BY <1>1, <1>2, <1>4, <1>5 DEF Larger, Smaller
  <2> QED
    BY <1>1, <1>3, <2>1 DEF Drained, Larger, lack
<1>6. CASE elapsed # MaxElapsed
  <2>1. elapsed' = elapsed + 1
    BY <1>4, <1>6 DEF Smaller
  <2>2. Drained(n) <= Larger(2 * lack - 2 * elapsed', 0)
    BY <1>1, <1>2, <1>4, <2>1 DEF Drained, Larger
  <2> QED
    BY <1>3, <2>2 DEF lack
<1> QED
  BY <1>5, <1>6

\* Send charges both lines for what it takes from the buckets.
LEMMA SendKeepsRates ==
  ASSUME TypeOK, RatesInvariant, HistorySend
  PROVE  RatesInvariant'
<1>1. /\ held.size \in Nat \ {0} /\ Burst \in Nat /\ Mtu \in Nat
      /\ peak \in Nat /\ ByteTime \in Nat \ {0} /\ PTokens \in Int /\ BTokens \in Int
  BY ShaperAssumption, DelaysAreNatural DEF TypeOK, HistorySend, Send
<1>2. elapsed \in Nat /\ btokens \in 0..Burst /\ ptokens \in 0..Mtu
  <2>1. elapsed \in 0..MaxElapsed /\ MaxElapsed \in Nat
    BY BoundsAreNatural DEF TypeOK
  <2>2. elapsed \in Nat
    BY <2>1
  <2> QED
    BY <2>2 DEF TypeOK
<1>3. /\ btokens' = BTokens /\ ptokens' = PTokens /\ elapsed' = 0 /\ peak' = peak
      /\ BTokens >= 0 /\ PTokens >= 0
      /\ excess' = Charged(excess, ByteTime)
      /\ pexcess' = IF peak = 0 THEN 0 ELSE Charged(pexcess, peak)
  BY DEF HistorySend, Send, Conforming
<1>4. ASSUME NEW size \in Nat, NEW byteTime \in Nat \ {0}, NEW tokens \in 0..size,
             NEW n \in Nat, Behind(n, tokens, size, byteTime),
             NEW left \in Nat, left = Available(tokens, size, byteTime) - held.size
      PROVE  /\ Charged(n, byteTime) \in Nat
             /\ Charged(n, byteTime) <= Larger(2 * (byteTime * (size - left)) - 2 * 0, 0)
  <2>1. Available(tokens, size, byteTime) \in Int
    <3>1. Earned(byteTime) \in Nat
      BY <1>2, QuotientFits DEF Earned
    <3> QED
      BY <3>1 DEF Available, Smaller
  <2>2. Available(tokens, size, byteTime) >= held.size
    BY <1>1, <1>4, <2>1
  <2>3. /\ left \in 0..size /\ Charged(n, byteTime) \in Nat
        /\ Charged(n, byteTime) <= 2 * (byteTime * (size - left))
    BY <1>1, <1>2, <1>4, <2>2, BucketPays DEF Behind, Charged
  <2>4. byteTime * (size - left) \in Nat
    BY <2>3, ProductsAreNatural
  <2> QED
    BY <2>3, <2>4 DEF Larger
<1>5. excess' \in Nat /\ Behind(excess, btokens, Burst, ByteTime)'
  <2>1. BTokens \in Nat /\ BTokens = Available(btokens, Burst, ByteTime) - held.size
    BY <1>1, <1>3 DEF BTokens
  <2> QED
    BY <1>1, <1>2, <1>3, <1>4, <2>1 DEF RatesInvariant, Behind
<1>6. CASE peak = 0
  BY <1>3, <1>5, <1>6 DEF RatesInvariant
<1>7. CASE peak # 0
  <2>1. PTokens \in Nat /\ PTokens = Available(ptokens, Mtu, peak) - held.size
    BY <1>1, <1>3, <1>7 DEF PTokens
  <2>2. peak \in Nat \ {0} /\ pexcess \in Nat /\ Behind(pexcess, ptokens, Mtu, peak)
    BY <1>1, <1>7 DEF RatesInvariant
  <2>3. /\ Charged(pexcess, peak) \in Nat
        /\ Charged(pexcess, peak) <= Larger(2 * (peak * (Mtu - PTokens)) - 2 * 0, 0)
    BY <1>1, <1>2, <1>4, <2>1, <2>2
  <2>4. pexcess' \in Nat /\ Behind(pexcess, ptokens, Mtu, peak)'
    BY <1>3, <1>7, <2>3 DEF Behind
  <2> QED
    BY <1>3, <1>5, <1>7, <2>4 DEF RatesInvariant
<1> QED
  BY <1>6, <1>7

\* Time drains both lines while both buckets earn.
LEMMA TickKeepsRates ==
  ASSUME TypeOK, RatesInvariant, HistoryTick
  PROVE  RatesInvariant'
<1>1. /\ Burst \in Nat /\ Mtu \in Nat /\ ByteTime \in Nat /\ peak \in Nat
      /\ btokens \in 0..Burst /\ ptokens \in 0..Mtu /\ elapsed \in 0..MaxElapsed
      /\ MaxElapsed \in Nat /\ Burst * ByteTime <= MaxElapsed /\ Mtu * peak <= MaxElapsed
  BY ShaperAssumption, BoundsAreNatural DEF TypeOK
<1>2. /\ elapsed' = Smaller(elapsed + 1, MaxElapsed) /\ peak' = peak
      /\ btokens' = btokens /\ ptokens' = ptokens
      /\ excess' = Drained(excess) /\ pexcess' = Drained(pexcess)
  BY DEF HistoryTick, Tick
<1>3. /\ excess \in Nat /\ Behind(excess, btokens, Burst, ByteTime)
      /\ pexcess \in Nat
      /\ peak # 0 => Behind(pexcess, ptokens, Mtu, peak)
      /\ peak = 0 => pexcess = 0
  BY DEF RatesInvariant
<1>4. excess' \in Nat /\ Behind(excess, btokens, Burst, ByteTime)'
  <2>1. /\ Drained(excess) \in Nat
        /\ Drained(excess) <= Larger(2 * (ByteTime * (Burst - btokens)) - 2 * elapsed', 0)
    BY <1>1, <1>2, <1>3, BucketFills
  <2> QED
    BY <1>2, <2>1 DEF Behind
<1>5. CASE peak = 0
  <2>1. pexcess' = 0
    BY <1>2, <1>3, <1>5 DEF Drained, Larger
  <2> QED
    BY <1>2, <1>4, <1>5, <2>1 DEF RatesInvariant
<1>6. CASE peak # 0
  <2>1. /\ Drained(pexcess) \in Nat
        /\ Drained(pexcess) <= Larger(2 * (peak * (Mtu - ptokens)) - 2 * elapsed', 0)
    BY <1>1, <1>2, <1>3, <1>6, BucketFills
  <2>2. pexcess' \in Nat /\ Behind(pexcess, ptokens, Mtu, peak)'
    BY <1>2, <2>1 DEF Behind
  <2> QED
    BY <1>2, <1>4, <1>6, <2>2 DEF RatesInvariant
<1> QED
  BY <1>5, <1>6

\* Every step of the recorded shaper is a step of the shaper.
LEMMA HistoryOnlyRecords ==
  /\ HistoryInit => Init
  /\ [HistoryNext]_historyVars => [Next]_vars
BY DEF HistoryInit, HistoryNext, HistoryEnqueue, HistoryPop, HistorySend, HistoryTick,
   HistoryOther, historyVars, Next, Restart

\* Full buckets, and lines with nothing to catch up with.
LEMMA RatesAtFirst == HistoryInit => HistoryInvariant
<1> SUFFICES ASSUME HistoryInit
             PROVE  HistoryInvariant
  OBVIOUS
<1>1. TypeInvariant
  BY TypesAtFirst DEF HistoryInit
<1>2. excess = 0 /\ pexcess = 0
  BY DEF HistoryInit
<1>3. \A m \in Int : 0 <= Larger(m, 0)
  BY DEF Larger
<1>4. /\ Burst \in Nat /\ Mtu \in Nat /\ ByteTime \in Nat /\ peak \in Nat
      /\ btokens = Burst /\ ptokens = Mtu /\ elapsed = 0
  BY ShaperAssumption DEF HistoryInit, Init
<1>5. Behind(excess, btokens, Burst, ByteTime) /\ Behind(pexcess, ptokens, Mtu, peak)
  <2>1. /\ ByteTime * (Burst - btokens) \in Int /\ peak * (Mtu - ptokens) \in Int
    BY <1>4
  <2> QED
    BY <1>2, <1>3, <1>4, <2>1 DEF Behind
<1> QED
  BY <1>1, <1>2, <1>5 DEF HistoryInvariant, RatesInvariant

\* Sending and time move the lines; nothing else does, nor the buckets.
LEMMA RatesAfterAStep ==
  HistoryInvariant /\ [HistoryNext]_historyVars => HistoryInvariant'
<1> SUFFICES ASSUME TypeInvariant, RatesInvariant, [HistoryNext]_historyVars
             PROVE  HistoryInvariant'
  BY DEF HistoryInvariant
<1>1. TypeOK
  BY DEF TypeInvariant
<1>2. TypeInvariant'
  BY HistoryOnlyRecords, TypesAfterAStep
<1>3. CASE HistorySend
  BY <1>1, <1>2, <1>3, SendKeepsRates DEF HistoryInvariant
<1>4. CASE HistoryTick
  BY <1>1, <1>2, <1>4, TickKeepsRates DEF HistoryInvariant
<1>5. ASSUME UNCHANGED <<excess, pexcess, peak, tbf>>
      PROVE  HistoryInvariant'
  <2>1. RatesInvariant'
    BY <1>5 DEF RatesInvariant, Behind, tbf
  <2> QED
    BY <1>2, <2>1 DEF HistoryInvariant
<1>6. ASSUME NEW size \in Sizes, HistoryEnqueue(size)
      PROVE  HistoryInvariant'
  BY <1>5, <1>6 DEF HistoryEnqueue, Enqueue
<1>7. CASE HistoryPop
  BY <1>5, <1>7 DEF HistoryPop, TbfPeek, DropLoop
<1>8. CASE HistoryOther
  BY <1>5, <1>8 DEF HistoryOther, Block, RunStopped, WatchdogRun, DeviceWake
<1>9. CASE UNCHANGED historyVars
  BY <1>5, <1>9 DEF historyVars, vars
<1> QED
  BY <1>3, <1>4, <1>6, <1>7, <1>8, <1>9 DEF HistoryNext

\* A line is behind by what its bucket holds at most.
LEMMA LinesKeepUp == HistoryInvariant => RatesHold
<1> SUFFICES ASSUME TypeOK, RatesInvariant
             PROVE  RatesHold
  BY DEF HistoryInvariant, TypeInvariant
<1>1. /\ Burst \in Nat /\ Mtu \in Nat /\ ByteTime \in Nat /\ peak \in Nat
      /\ btokens \in 0..Burst /\ ptokens \in 0..Mtu /\ elapsed \in Nat
  <2>1. elapsed \in 0..MaxElapsed /\ MaxElapsed \in Nat
    BY BoundsAreNatural DEF TypeOK
  <2>2. elapsed \in Nat
    BY <2>1
  <2> QED
    BY <2>2, ShaperAssumption DEF TypeOK
<1>2. ASSUME NEW size \in Nat, NEW byteTime \in Nat, NEW tokens \in 0..size, NEW n \in Nat,
             Behind(n, tokens, size, byteTime)
      PROVE  n <= 2 * (byteTime * size)
  <2>1. size - tokens \in Nat /\ size - tokens <= size
    OBVIOUS
  <2>2. /\ byteTime * (size - tokens) <= byteTime * size
        /\ byteTime * (size - tokens) \in Nat /\ byteTime * size \in Nat
    BY <2>1, ProductsKeepOrder, ProductsAreNatural
  <2> QED
    BY <1>1, <1>2, <2>2 DEF Behind, Larger
<1>3. excess <= 2 * Burst * ByteTime
  <2>1. excess <= 2 * (ByteTime * Burst)
    BY <1>1, <1>2 DEF RatesInvariant
  <2> QED
    BY <1>1, <2>1
<1>4. pexcess <= 2 * Mtu * peak
  <2>1. pexcess <= 2 * (peak * Mtu)
    <3>1. CASE peak = 0
      BY <1>1, <3>1 DEF RatesInvariant
    <3>2. CASE peak # 0
      <4>1. pexcess \in Nat /\ Behind(pexcess, ptokens, Mtu, peak)
        BY <3>2 DEF RatesInvariant
      <4> QED
        BY <1>1, <1>2, <4>1
    <3> QED
      BY <3>1, <3>2
  <2> QED
    BY <1>1, <2>1
<1> QED
  BY <1>3, <1>4 DEF RatesHold

\* Whatever the traffic, the device and CoDel do, the bytes sent in any stretch of
\* time are at most the first bucket and what m_rate sends in it, and at most the
\* second bucket and what the peak rate of a queue disc that has one sends, but for
\* the half byte a packet that DoDequeue's round may add.
THEOREM RatesAreKept == HistorySpec => []RatesHold
<1> QED
  BY LinesKeepUp, RatesAtFirst, RatesAfterAStep, PTL DEF HistorySpec
-----------------------------------------------------------------------------
(***************************************************************************)
(* CoDel drops no packet before the delay has lasted for an interval.       *)
(***************************************************************************)

\* No packets, no bytes.
LEMMA NoBytesInNoPackets == Bytes(<<>>) = 0
<1> DEFINE Iter(s, rest) == IF s = {} THEN 0 ELSE rest
           size(i, n) == <<>>[i].size + n
           pick(s) == CHOOSE x \in s : TRUE
           g == CHOOSE f : f = [s \in SUBSET {} |->
                  IF s = {} THEN 0 ELSE size(pick(s), f[s \ {pick(s)}])]
<1>1. DOMAIN <<>> = {}
  OBVIOUS
<1>2. Bytes(<<>>) = g[{}]
  BY <1>1, Zenon DEF Bytes, FoldSeq, FoldFunction, FoldFunctionOnSet, MapThenFoldSet
<1>3. \E f : f = [s \in SUBSET {} |-> IF s = {} THEN 0 ELSE size(pick(s), f[s \ {pick(s)}])]
  <2> DEFINE f == [s \in SUBSET {} |-> 0]
  <2>1. f = [s \in SUBSET {} |-> IF s = {} THEN 0 ELSE size(pick(s), f[s \ {pick(s)}])]
    <3>1. \A s \in SUBSET {} : s = {}
      OBVIOUS
    <3> HIDE DEF size, pick
    <3> QED
      BY <3>1
  <2> QED
    BY <2>1
<1>4. g = [s \in SUBSET {} |-> IF s = {} THEN 0 ELSE size(pick(s), g[s \ {pick(s)}])]
  <2> HIDE DEF size, pick
  <2> QED
    BY <1>3
<1>5. {} \in SUBSET {}
  OBVIOUS
<1> QED
  <2> HIDE DEF size, pick, g
  <2> QED
    BY <1>2, <1>4, <1>5

\* A packet that is above the target is not the last one of the queue.
LEMMA AboveLeavesPackets ==
  ASSUME NEW q, Above(q)
  PROVE  q # <<>> /\ Rest(q) # <<>> /\ Head(q).age = Target
<1>1. q # <<>> /\ Head(q).age = Target /\ Bytes(Rest(q)) >= MinBytes
  BY DEF Above
<1>2. CASE Rest(q) = <<>>
  <2>1. 0 >= MinBytes
    BY <1>1, <1>2, NoBytesInNoPackets
  <2> QED
    BY <2>1, ShaperAssumption
<1> QED
  BY <1>1, <1>2

\* What m_firstAboveTime knows: since it was set no empty queue has been seen and
\* every packet popped was above the target, and the packet in the loop of CoDel's
\* dequeue was popped after the interval that follows.
DropInv ==
  /\ aboveFor \in 0..Interval + 1
  /\ firstAbove # None => queue # <<>> /\ Interval - firstAbove <= aboveFor
  /\ pc = "drop" => aboveFor > Interval

\* What a dequeue of CoDel leaves: either m_firstAboveTime is reset or all it has
\* popped was above the target, and packets are left.
LEMMA PopsAboveTarget ==
  ASSUME TypeOK, DropInv, HistoryPop
  PROVE  /\ aboveFor' \in {aboveFor, 0}
         /\ firstAbove' # None =>
              /\ queue' # <<>> /\ aboveFor' = aboveFor
              /\ firstAbove' = IF firstAbove = None THEN Interval ELSE firstAbove
         /\ pc' = "drop" => aboveFor > Interval /\ firstAbove' # None
         /\ Stored' < Stored => aboveFor > Interval
<1>1. /\ queue \in Seq(StoredPackets)
      /\ firstAbove = None \/ firstAbove \in -1..Interval
      /\ held = None \/ held \in StoredPackets
      /\ Interval \in Nat /\ None \notin Nat
      /\ None \notin StoredPackets
  BY ShaperAssumption DEF TypeOK, StoredPackets
<1>2. /\ Rest(queue) \in Seq(StoredPackets) /\ Len(queue) \in Nat
      /\ Popped(queue) = None \/ Popped(queue) \in StoredPackets
      /\ Len(Rest(queue)) = IF queue = <<>> THEN 0 ELSE Len(queue) - 1
      /\ queue = <<>> => Popped(queue) = None
      /\ queue # <<>> => Len(queue) > 0
  BY <1>1, PoppedIsTyped
<1>3. /\ Rest(Rest(queue)) \in Seq(StoredPackets)
      /\ Len(Rest(Rest(queue))) = IF Rest(queue) = <<>> THEN 0 ELSE Len(Rest(queue)) - 1
      /\ Rest(queue) # <<>> => Len(Rest(queue)) > 0
  BY <1>2, PoppedIsTyped
<1>4. \A q, t : FirstAbove(q, t) # None =>
        /\ Above(q)
        /\ FirstAbove(q, t) = IF t = None THEN Interval ELSE t
  BY DEF FirstAbove
<1>5. ASSUME OkToDrop(queue, firstAbove)
      PROVE  aboveFor > Interval /\ Above(queue) /\ firstAbove # None
  <2>1. firstAbove # None /\ firstAbove < 0 /\ Above(queue)
    BY <1>5 DEF OkToDrop
  <2>2. firstAbove = -1 /\ Interval - firstAbove <= aboveFor
    BY <1>1, <2>1 DEF DropInv
  <2> QED
    BY <1>1, <2>1, <2>2 DEF DropInv
<1>6. aboveFor' \in {aboveFor, 0}
  BY DEF HistoryPop
<1>7. ASSUME queue' = Rest(queue), Above(queue)
      PROVE  aboveFor' = aboveFor /\ queue' # <<>>
  <2>1. queue # <<>> /\ Rest(queue) # <<>> /\ Head(queue).age = Target
    BY <1>7, AboveLeavesPackets
  <2>2. Head(queue) = queue[1]
    BY <1>1, <2>1, HeadTailProperties
  <2>3. \A i \in 1..Len(queue) - Len(queue') : i = 1
    BY <1>2, <1>7, <2>1
  <2> QED
    BY <1>7, <2>1, <2>2, <2>3 DEF HistoryPop
<1>8. ASSUME PopAndDrop, Above(Rest(queue))
      PROVE  aboveFor' = aboveFor /\ queue' # <<>>
  <2>1. /\ queue # <<>> /\ Head(queue).age = Target
        /\ Rest(queue) # <<>> /\ Head(Rest(queue)).age = Target
        /\ Rest(Rest(queue)) # <<>> /\ queue' = Rest(Rest(queue))
    BY <1>5, <1>8, AboveLeavesPackets DEF PopAndDrop
  <2>2. Head(queue) = queue[1] /\ Head(Rest(queue)) = queue[2]
    <3>1. Len(Tail(queue)) > 0 /\ Tail(queue) = Rest(queue) /\ Len(Tail(queue)) = Len(queue) - 1
      BY <1>2, <1>3, <2>1 DEF Rest
    <3>2. Head(queue) = queue[1] /\ \A i \in 1..Len(Tail(queue)) : Tail(queue)[i] = queue[i + 1]
      BY <1>1, <2>1, HeadTailProperties
    <3>3. 1 \in 1..Len(Tail(queue))
      BY <1>2, <3>1
    <3>4. Head(Rest(queue)) = Rest(queue)[1]
      BY <1>2, <2>1, HeadTailProperties
    <3> QED
      BY <3>1, <3>2, <3>3, <3>4
  <2>3. \A i \in 1..Len(queue) - Len(queue') : i = 1 \/ i = 2
    BY <1>2, <1>3, <2>1
  <2> QED
    BY <2>1, <2>2, <2>3 DEF HistoryPop
<1>9. CASE TbfPeek /\ PopAndKeep
  <2>1. /\ held = None /\ held' = Popped(queue) /\ queue' = Rest(queue) /\ pc' # "drop"
    BY <1>9 DEF TbfPeek, PopAndKeep
  <2>2. ~(Stored' < Stored)
    <3>1. CASE queue = <<>>
      BY <1>2, <2>1, <3>1 DEF Stored
    <3>2. CASE queue # <<>>
      <4>1. Popped(queue) \in StoredPackets /\ Popped(queue) # None
        BY <1>1, <3>2, HeadTailProperties DEF Popped
      <4>2. Stored = Len(queue) /\ Stored' = Len(queue) - 1 + 1
        BY <1>2, <2>1, <3>2, <4>1 DEF Stored
      <4> QED
        BY <1>2, <4>2
    <3> QED
      BY <3>1, <3>2
  <2>3. CASE queue = <<>>
    BY <1>6, <1>9, <2>1, <2>2, <2>3 DEF PopAndKeep, DropInv
  <2>4. CASE queue # <<>>
    <3>1. firstAbove' = FirstAbove(queue, firstAbove)
      BY <1>9, <2>4 DEF PopAndKeep
    <3> QED
      BY <1>4, <1>6, <1>7, <2>1, <2>2, <3>1
  <2> QED
    BY <2>3, <2>4
<1>10. CASE TbfPeek /\ PopAndDrop
  <2>1. /\ OkToDrop(queue, firstAbove) /\ pc' # "drop"
        /\ firstAbove' = FirstAbove(Rest(queue), firstAbove)
    BY <1>10 DEF PopAndDrop
  <2> QED
    BY <1>4, <1>5, <1>6, <1>8, <1>10, <2>1
<1>11. CASE TbfPeek /\ PopAndLoop
  <2>1. /\ OkToDrop(queue, firstAbove) /\ queue' = Rest(queue)
        /\ firstAbove' = FirstAbove(queue, firstAbove)
    BY <1>11 DEF PopAndLoop
  <2>2. FirstAbove(queue, firstAbove) = firstAbove
    BY <1>5, <2>1 DEF FirstAbove
  <2> QED
    BY <1>5, <1>6, <1>7, <2>1, <2>2
<1>12. CASE DropLoop
  <2>1. /\ pc = "drop" /\ held' = Popped(queue) /\ queue' = Rest(queue)
        /\ firstAbove' = FirstAbove(queue, firstAbove)
        /\ dropping' = OkToDrop(queue, firstAbove)
        /\ pc' = "drop" => dropping'
    BY <1>12 DEF DropLoop
  <2>2. aboveFor > Interval
    BY <2>1 DEF DropInv
  <2>3. OkToDrop(queue, firstAbove) => FirstAbove(queue, firstAbove) = firstAbove
    BY <1>5 DEF FirstAbove
  <2> QED
    BY <1>4, <1>5, <1>6, <1>7, <2>1, <2>2, <2>3
<1> QED
  BY <1>9, <1>10, <1>11, <1>12 DEF HistoryPop, TbfPeek

\* It holds at first.
LEMMA DropInvAtFirst == HistoryInit => DropInv
BY ShaperAssumption DEF HistoryInit, Init, DropInv

\* A pop leaves what it knows true.
LEMMA PopsKeepDropInv ==
  ASSUME TypeOK, DropInv, HistoryPop
  PROVE  DropInv'
<1>1. /\ Interval \in Nat /\ None \notin Nat
      /\ firstAbove = None \/ firstAbove \in -1..Interval
  BY ShaperAssumption DEF TypeOK
<1>2. aboveFor' \in 0..Interval + 1
  BY <1>1, PopsAboveTarget DEF DropInv
<1>3. firstAbove' # None => queue' # <<>> /\ Interval - firstAbove' <= aboveFor'
  <2>1. CASE firstAbove = None
    BY <1>1, <1>2, <2>1, PopsAboveTarget
  <2>2. CASE firstAbove # None
    BY <2>2, PopsAboveTarget DEF DropInv
  <2> QED
    BY <2>1, <2>2
<1>4. pc' = "drop" => aboveFor' > Interval
  BY PopsAboveTarget
<1> QED
  BY <1>2, <1>3, <1>4 DEF DropInv

\* A tick moves both clocks.
LEMMA TicksKeepDropInv ==
  ASSUME TypeOK, DropInv, HistoryTick
  PROVE  DropInv'
<1>1. /\ Interval \in Nat /\ None \notin Nat /\ queue \in Seq(StoredPackets)
      /\ firstAbove = None \/ firstAbove \in -1..Interval
  BY ShaperAssumption DEF TypeOK, StoredPackets
<1>2. /\ pc' = "idle" /\ aboveFor' = Smaller(aboveFor + 1, Interval + 1)
      /\ firstAbove' = IF firstAbove = None THEN None ELSE Larger(firstAbove - 1, -1)
      /\ queue' = [i \in DOMAIN queue |->
                      [size |-> queue[i].size, age |-> Smaller(queue[i].age + 1, Target)]]
  BY DEF HistoryTick, Tick
<1>3. aboveFor' \in 0..Interval + 1
  BY <1>1, <1>2 DEF DropInv, Smaller
<1>4. ASSUME firstAbove' # None
      PROVE  queue' # <<>> /\ Interval - firstAbove' <= aboveFor'
  <2>1. firstAbove # None
    BY <1>2, <1>4
  <2>2. queue # <<>> /\ Interval - firstAbove <= aboveFor
    BY <2>1 DEF DropInv
  <2>3. queue' # <<>>
    BY <1>1, <1>2, <2>2, EmptySeq
  <2>4. firstAbove' = Larger(firstAbove - 1, -1) /\ aboveFor \in 0..Interval + 1
    BY <1>2, <2>1 DEF DropInv
  <2> QED
    BY <1>1, <1>2, <2>1, <2>2, <2>3, <2>4 DEF Larger, Smaller
<1> QED
  BY <1>2, <1>3, <1>4 DEF DropInv

\* It is kept by every step.
LEMMA DropInvAfterAStep ==
  TypeOK /\ DropInv /\ [HistoryNext]_historyVars => DropInv'
<1> SUFFICES ASSUME TypeOK, DropInv, [HistoryNext]_historyVars
             PROVE  DropInv'
  OBVIOUS
<1>1. CASE HistoryPop
  BY <1>1, PopsKeepDropInv
<1>2. CASE HistoryTick
  BY <1>2, TicksKeepDropInv
<1>3. ASSUME NEW size \in Sizes, HistoryEnqueue(size)
      PROVE  DropInv'
  <2>1. /\ queue' = queue \/ queue' = Append(queue, [size |-> size, age |-> 0])
        /\ pc' = "run" /\ UNCHANGED <<firstAbove, aboveFor>>
    BY <1>3 DEF HistoryEnqueue, Enqueue, RunBegin
  <2>2. [size |-> size, age |-> 0] \in StoredPackets /\ queue \in Seq(StoredPackets)
    BY ShaperAssumption DEF TypeOK, StoredPackets
  <2>3. queue # <<>> => queue' # <<>>
    BY <2>1, <2>2, AppendProperties, EmptySeq
  <2> QED
    BY <2>1, <2>3 DEF DropInv
<1>4. CASE HistorySend
  <2>1. pc' # "drop" /\ UNCHANGED <<queue, firstAbove, aboveFor>>
    BY <1>4 DEF HistorySend, Send, CountDown
  <2> QED
    BY <2>1 DEF DropInv
<1>5. CASE HistoryOther
  <2>1. pc' # "drop" /\ UNCHANGED <<queue, firstAbove, aboveFor>>
    BY <1>5 DEF HistoryOther, Block, RunStopped, WatchdogRun, DeviceWake, RunBegin, codel
  <2> QED
    BY <2>1 DEF DropInv
<1>6. CASE UNCHANGED historyVars
  BY <1>6 DEF historyVars, vars, codel, DropInv
<1> QED
  BY <1>1, <1>2, <1>3, <1>4, <1>5, <1>6 DEF HistoryNext

\* Only a dequeue of CoDel and a packet sent make the packets fewer.
LEMMA OnlyPopsDrop ==
  ASSUME TypeOK, [HistoryNext]_historyVars, ~HistoryPop, ~Send
  PROVE  ~(Stored' < Stored)
<1>1. Len(queue) \in Nat /\ Stored \in Nat /\ queue \in Seq(StoredPackets)
  BY LenProperties DEF TypeOK, Stored, StoredPackets
<1>2. ASSUME Len(queue') \in Nat, Len(queue') >= Len(queue), held' = held
      PROVE  ~(Stored' < Stored)
  BY <1>1, <1>2 DEF Stored
<1>3. ASSUME NEW size \in Sizes, HistoryEnqueue(size)
      PROVE  ~(Stored' < Stored)
  <2>1. /\ queue' = queue \/ queue' = Append(queue, [size |-> size, age |-> 0])
        /\ held' = held
    BY <1>3 DEF HistoryEnqueue, Enqueue
  <2>2. Len(queue') \in Nat /\ Len(queue') >= Len(queue)
    <3>1. CASE queue' = queue
      BY <1>1, <3>1
    <3>2. CASE queue' = Append(queue, [size |-> size, age |-> 0])
      <4>1. [size |-> size, age |-> 0] \in StoredPackets
        BY ShaperAssumption DEF StoredPackets
      <4> QED
        BY <1>1, <3>2, <4>1, AppendProperties
    <3> QED
      BY <2>1, <3>1, <3>2
  <2> QED
    BY <1>2, <2>1, <2>2
<1>4. CASE HistoryTick
  <2>1. /\ queue' = [i \in DOMAIN queue |->
                        [size |-> queue[i].size, age |-> Smaller(queue[i].age + 1, Target)]]
        /\ held' = held /\ DOMAIN queue = 1..Len(queue)
    BY <1>1, <1>4, LenProperties DEF HistoryTick, Tick
  <2>2. queue' \in Seq({queue'[i] : i \in 1..Len(queue)})
    BY <1>1, <2>1, IsASeq
  <2>3. Len(queue') = Len(queue)
    BY <1>1, <2>1, <2>2, LenProperties
  <2> QED
    BY <1>1, <1>2, <2>1, <2>3
<1>5. CASE HistoryOther
  BY <1>1, <1>2, <1>5 DEF HistoryOther, Block, RunStopped, WatchdogRun, DeviceWake, codel
<1>6. CASE UNCHANGED historyVars
  BY <1>1, <1>2, <1>6 DEF historyVars, vars, codel
<1> QED
  BY <1>3, <1>4, <1>5, <1>6 DEF HistoryNext, HistorySend

\* CoDel drops a packet only after more than an interval in which every packet it
\* popped had waited for the target and the queue was never emptied.
THEOREM DropsFollowAnInterval == HistorySpec => DropsOnlyAfterInterval
<1>1. TypeOK /\ DropInv /\ [HistoryNext]_historyVars =>
        [Stored' < Stored /\ ~Send => aboveFor > Interval]_vars
  BY PopsAboveTarget, OnlyPopsDrop
<1>2. TypeInvariant => TypeOK
  BY DEF TypeInvariant
<1>3. HistoryInit => TypeInvariant
  BY TypesAtFirst, HistoryOnlyRecords
<1>4. TypeInvariant /\ [HistoryNext]_historyVars => TypeInvariant'
  BY TypesAfterAStep, HistoryOnlyRecords
<1> QED
  BY <1>1, <1>2, <1>3, <1>4, DropInvAtFirst, DropInvAfterAStep, PTL
     DEF HistorySpec, DropsOnlyAfterInterval
=============================================================================
