----------------------------- MODULE DRRProofs -----------------------------
(***************************************************************************)
(* Theorems about DRR for every set of flows, packet sizes, quanta and      *)
(* limits.                                                                  *)
(***************************************************************************)
EXTENDS DRRFair, ListLemmas

\* PacketDequeued leaves integers in the four counters.
LEMMA CountersStayIntegers ==
  ASSUME TypeOK, NEW f \in Flows, NEW size \in Int, PacketDequeued(f, size)
  PROVE  /\ childPackets' \in [Flows -> Int]
         /\ childBytes' \in [Flows -> Int]
         /\ nPackets' \in Int
         /\ nBytes' \in Int
BY DEF TypeOK, PacketDequeued

\* Taking the head of a stored queue leaves queues of packets.
LEMMA TailStaysTyped ==
  ASSUME TypeOK, NEW f \in Flows, queue[f] # <<>>
  PROVE  /\ [queue EXCEPT ![f] = Tail(@)] \in [Flows -> Seq(Sizes)]
         /\ Head(queue[f]) \in Sizes
         /\ Head(queue[f]) \in Int
<1>1. queue[f] \in Seq(Sizes)
  BY DEF TypeOK
<1>2. Head(queue[f]) \in Sizes /\ Tail(queue[f]) \in Seq(Sizes)
  BY <1>1, HeadTailProperties
<1>3. Sizes \subseteq Int
  BY SizesAssumption
<1>4. Head(queue[f]) \in Int
  BY <1>2, <1>3, Zenon
<1> QED
  BY <1>2, <1>4 DEF TypeOK

\* The packet a non-empty peek returns is one of the packets that arrived.
LEMMA PeekIsAPacket ==
  ASSUME TypeOK, NEW f \in Flows, Peek(f) # NoPacket
  PROVE  /\ Peek(f) \in Sizes
         /\ held[f] = NoPacket => queue[f] # <<>> /\ Peek(f) = Head(queue[f])
BY TailStaysTyped DEF TypeOK, Peek

\* The front of a non-empty m_flowList is a flow, and taking it off or moving it
\* to the end leaves a list of flows.
LEMMA FlowListStaysTyped ==
  ASSUME TypeOK, flowList # <<>>
  PROVE  /\ Head(flowList) \in Flows
         /\ Tail(flowList) \in Seq(Flows)
         /\ Append(Tail(flowList), Head(flowList)) \in Seq(Flows)
BY HeadTailProperties, AppendProperties DEF TypeOK

\* A deficit with a quantum added, modulo 2^32, is a deficit.
LEMMA CreditIsADeficit ==
  ASSUME TypeOK, NEW f \in Flows
  PROVE  Credit(f) \in 0..Word - 1
<1>1. deficit[f] + quantum \in Nat
  BY QuantaAssumption DEF TypeOK
<1> QED
  BY <1>1, WordAssumption DEF Credit

\* A visit that ends without a packet found one that the credit does not cover.
LEMMA DeferIsShort ==
  ASSUME TypeOK, NEW f \in Flows, Defer(f)
  PROVE  Peek(f) \in Sizes /\ Peek(f) # NoPacket /\ Credit(f) < Peek(f)
<1>1. Peek(f) \in Sizes /\ Peek(f) # NoPacket
  BY PeekIsAPacket DEF Defer
<1>2. Peek(f) \in Nat /\ Word \in Nat
  BY <1>1, SizesAssumption, WordAssumption
<1>3. Credit(f) \in Int
  BY <1>2, CreditIsADeficit
<1> QED
  BY <1>1, <1>2, <1>3 DEF Defer, Covered

\* DRR's fields keep their types: no step reads a queue that is empty, and a
\* deficit stays a uint32_t.
THEOREM TypeCorrect == Spec => []TypeOK
<1> USE SizesAssumption, QuantaAssumption, WordAssumption DEF NoPacket
<1>1. Init => TypeOK
  BY DEF Init, TypeOK
<1>2. TypeOK /\ [Next]_vars => TypeOK'
  <2> SUFFICES ASSUME TypeOK, [Next]_vars
               PROVE TypeOK'
    OBVIOUS
  <2>1. ASSUME NEW f \in Flows, NEW size \in Sizes, Enqueue(f, size)
        PROVE TypeOK'
    <3>1. /\ classes' \in Seq(Flows)
          /\ flowList' \in Seq(Flows)
      BY <2>1, AppendProperties DEF Enqueue, TypeOK, Activated
    <3>2. /\ status' \in [Flows -> {"INACTIVE", "ACTIVE"}]
          /\ pc' \in {"idle", "overlimit", "dequeue", "fault"}
      BY <2>1 DEF Enqueue, TypeOK, AfterEnqueue
    <3>3. /\ queue' \in [Flows -> Seq(Sizes)]
          /\ childPackets' \in [Flows -> Int] /\ childBytes' \in [Flows -> Int]
          /\ nPackets' \in Int /\ nBytes' \in Int
      <4>1. CASE ChildAccepts(f, size)
        <5>1. Append(queue[f], size) \in Seq(Sizes)
          BY AppendProperties DEF TypeOK
        <5>2. size \in Int
          OBVIOUS
        <5> QED
          BY <4>1, <5>1, <5>2 DEF ChildAccepts, TypeOK
      <4>2. CASE ChildRefuses(f, size)
        BY <4>2 DEF ChildRefuses, TypeOK, total
      <4> QED
        BY <2>1, <4>1, <4>2 DEF Enqueue
    <3> QED
      BY <2>1, <3>1, <3>2, <3>3 DEF Enqueue, TypeOK
  <2>2. ASSUME NEW f \in Flows, DropHead(f)
        PROVE TypeOK'
    <3>1. Head(queue[f]) \in Int
      BY <2>2, TailStaysTyped DEF DropHead
    <3>2. queue' \in [Flows -> Seq(Sizes)]
      BY <2>2, TailStaysTyped DEF DropHead
    <3>3. /\ childPackets' \in [Flows -> Int] /\ childBytes' \in [Flows -> Int]
          /\ nPackets' \in Int /\ nBytes' \in Int
      BY <2>2, <3>1, CountersStayIntegers DEF DropHead, total, TypeOK
    <3> QED
      BY <2>2, <3>2, <3>3 DEF DropHead, AfterEnqueue, TypeOK
  <2>3. ASSUME NEW f \in Flows, DropNull(f)
        PROVE TypeOK'
    BY <2>3 DEF DropNull, child, total, TypeOK
  <2>4. ASSUME NEW f \in Flows, CoDelDrop(f)
        PROVE TypeOK'
    <3>1. Head(queue[f]) \in Int
      BY <2>4, TailStaysTyped DEF CoDelDrop
    <3>2. queue' \in [Flows -> Seq(Sizes)]
      BY <2>4, TailStaysTyped DEF CoDelDrop
    <3>3. /\ childPackets' \in [Flows -> Int] /\ childBytes' \in [Flows -> Int]
          /\ nPackets' \in Int /\ nBytes' \in Int
      BY <2>4, <3>1, CountersStayIntegers DEF CoDelDrop
    <3> QED
      BY <2>4, <3>2, <3>3 DEF CoDelDrop, TypeOK
  <2>5. ASSUME NEW f \in Flows, Serve(f)
        PROVE TypeOK'
    <3>1. Peek(f) \in Sizes /\ Peek(f) \in Nat
      BY <2>5, PeekIsAPacket DEF Serve
    <3>2. Credit(f) \in 0..Word - 1 /\ Credit(f) >= Peek(f)
      BY <2>5, CreditIsADeficit DEF Serve, Covered
    <3>3. /\ childPackets' \in [Flows -> Int] /\ childBytes' \in [Flows -> Int]
          /\ nPackets' \in Int /\ nBytes' \in Int
      BY <2>5, <3>1, CountersStayIntegers DEF Serve
    <3>4. /\ queue' \in [Flows -> Seq(Sizes)]
          /\ held' \in [Flows -> Sizes \cup {NoPacket}]
      BY <2>5, PeekIsAPacket, TailStaysTyped DEF Serve, TypeOK
    <3>5. flowList' \in Seq(Flows)
      BY <2>5, FlowListStaysTyped DEF Serve, Visiting, Rotated, Emptied
    <3>6. 0 \in 0..Word - 1 /\ Credit(f) - Peek(f) \in 0..Word - 1
      BY <3>1, <3>2
    <3>7. deficit' \in [Flows -> 0..Word - 1]
      BY <2>5, <3>6 DEF Serve, TypeOK
    <3>8. status' \in [Flows -> {"INACTIVE", "ACTIVE"}]
      BY <2>5 DEF Serve, TypeOK
    <3> QED
      BY <2>5, <3>3, <3>4, <3>5, <3>7, <3>8 DEF Serve, TypeOK
  <2>6. ASSUME NEW f \in Flows, Defer(f)
        PROVE TypeOK'
    <3>1. /\ queue' \in [Flows -> Seq(Sizes)]
          /\ held' \in [Flows -> Sizes \cup {NoPacket}]
      BY <2>6, PeekIsAPacket, TailStaysTyped DEF Defer, TypeOK
    <3>2. flowList' \in Seq(Flows)
      BY <2>6, FlowListStaysTyped DEF Defer, Visiting, Rotated
    <3>3. deficit' \in [Flows -> 0..Word - 1]
      BY <2>6, CreditIsADeficit DEF Defer, TypeOK
    <3> QED
      BY <2>6, <3>1, <3>2, <3>3 DEF Defer, TypeOK, total
  <2>7. ASSUME NEW f \in Flows, PeekNull(f)
        PROVE TypeOK'
    <3>1. flowList' \in Seq(Flows)
      BY <2>7, FlowListStaysTyped DEF PeekNull, Visiting
    <3>2. deficit' \in [Flows -> 0..Word - 1]
      BY <2>7, CreditIsADeficit DEF PeekNull, TypeOK
    <3> QED
      BY <2>7, <3>1, <3>2 DEF PeekNull, TypeOK, child, total
  <2>8. ASSUME NEW q \in Quanta, SetQuantum(q)
        PROVE TypeOK'
    BY <2>8 DEF SetQuantum, child, total, TypeOK
  <2>9. CASE UNCHANGED vars
    BY <2>9 DEF vars, child, total, TypeOK
  <2> QED
    BY <2>1, <2>2, <2>3, <2>4, <2>5, <2>6, <2>7, <2>8, <2>9
       DEF Next, DRRDrop, Visit
<1> QED
  BY <1>1, <1>2, PTL DEF Spec
-----------------------------------------------------------------------------
\* How many packets child f stores, the held one included.
PacketsIn(f) == Len(queue[f]) + (IF held[f] = NoPacket THEN 0 ELSE 1)

\* The packet count of child f is right, or DRRDrop is at the flow, which holds
\* a peeked packet, and will stay there.
CountedOrWedged(f) ==
  \/ childPackets[f] = PacketsIn(f)
  \/ pc = "overlimit" /\ held[f] # NoPacket /\ IsFattest(f)

\* DRRDrop runs exactly while the byte count is above the limit.
LimitInv == /\ pc \in {"idle", "dequeue"} => nBytes <= Limit
            /\ pc = "overlimit" => nBytes > Limit

\* The inductive invariant behind the theorems below.  The counts have to be part
\* of it: a flow turns inactive when its child's count says it is empty.
Structure ==
  /\ TypeOK
  /\ NoDuplicates
  /\ InactiveIsReset
  /\ HeldIsShort
  /\ pc # "fault" => /\ \A f \in Flows : status[f] = "ACTIVE" <=> f \in ToSet(flowList)
                     /\ \A f \in Flows : CountedOrWedged(f)
                     /\ LimitInv

\* Only one flow is the fat one.
LEMMA FattestIsUnique ==
  ASSUME TypeOK, NEW f \in Flows, NEW g \in Flows, IsFattest(f), IsFattest(g)
  PROVE  f = g
<1>1. childBytes[f] \in Int /\ childBytes[g] \in Int /\ classes \in Seq(Flows)
  BY DEF TypeOK
<1>2. PICK i \in DOMAIN classes :
        /\ f = classes[i]
        /\ \A j \in DOMAIN classes :
             childBytes[classes[j]] < childBytes[f]
               \/ (j >= i /\ childBytes[classes[j]] = childBytes[f])
  BY DEF IsFattest
<1>3. PICK k \in DOMAIN classes :
        /\ g = classes[k]
        /\ \A j \in DOMAIN classes :
             childBytes[classes[j]] < childBytes[g]
               \/ (j >= k /\ childBytes[classes[j]] = childBytes[g])
  BY DEF IsFattest
<1>4. i \in Nat /\ k \in Nat
  BY <1>1
<1>5. childBytes[g] < childBytes[f] \/ (k >= i /\ childBytes[g] = childBytes[f])
  BY <1>2, <1>3
<1>6. childBytes[f] < childBytes[g] \/ (i >= k /\ childBytes[f] = childBytes[g])
  BY <1>2, <1>3
<1>7. i = k
  BY <1>1, <1>4, <1>5, <1>6
<1> QED
  BY <1>2, <1>3, <1>7

\* The length of the packets stored is what PacketsIn counts.
LEMMA StoredLength ==
  ASSUME TypeOK, NEW f \in Flows
  PROVE  Len(Stored(f)) = PacketsIn(f)
<1>1. queue[f] \in Seq(Sizes)
  BY DEF TypeOK
<1>2. CASE held[f] = NoPacket
  BY <1>1, <1>2, ConcatEmptySeq DEF Stored, PacketsIn
<1>3. CASE held[f] # NoPacket
  <2>1. <<held[f]>> \in Seq(Sizes) /\ Len(<<held[f]>>) = 1
    BY <1>3 DEF TypeOK
  <2>2. Len(Stored(f)) = 1 + Len(queue[f])
    BY <1>1, <1>3, <2>1, ConcatProperties DEF Stored
  <2> QED
    BY <1>1, <1>3, <2>2 DEF PacketsIn
<1> QED
  BY <1>2, <1>3

\* The two uses of the lemmas about lists: a visit takes the front of m_flowList off,
\* or moves it to the end.
LEMMA VisitKeepsDistinct ==
  ASSUME TypeOK, NoDuplicates, flowList # <<>>
  PROVE  /\ \A i, j \in DOMAIN Tail(flowList) :
              Tail(flowList)[i] = Tail(flowList)[j] => i = j
         /\ ToSet(Tail(flowList)) = ToSet(flowList) \ {Head(flowList)}
         /\ Head(flowList) \in ToSet(flowList)
         /\ LET r == Append(Tail(flowList), Head(flowList))
            IN  /\ \A i, j \in DOMAIN r : r[i] = r[j] => i = j
                /\ ToSet(r) = ToSet(flowList)
<1> DEFINE t == Tail(flowList)
           h == Head(flowList)
<1>1. flowList \in Seq(Flows) /\ \A i, j \in DOMAIN flowList : flowList[i] = flowList[j] => i = j
  BY DEF TypeOK, NoDuplicates
<1>2. /\ t \in Seq(Flows)
      /\ \A i, j \in DOMAIN t : t[i] = t[j] => i = j
      /\ ToSet(t) = ToSet(flowList) \ {h}
  BY <1>1, TailKeepsDistinct
<1>3. h \in Flows /\ h \in ToSet(flowList)
  <2>1. 1 \in DOMAIN flowList /\ h = flowList[1]
    BY <1>1, HeadTailProperties, LenProperties, EmptySeq
  <2> QED
    BY <1>1, <2>1, HeadTailProperties DEF ToSet
<1>4. /\ \A i, j \in DOMAIN Append(t, h) : Append(t, h)[i] = Append(t, h)[j] => i = j
      /\ ToSet(Append(t, h)) = ToSet(t) \cup {h}
  <2> HIDE DEF t, h
  <2> QED
    BY <1>2, <1>3, AppendKeepsDistinct
<1> QED
  BY <1>2, <1>3, <1>4

\* A flow on the list is active, so a visited flow is.
LEMMA VisitedIsActive ==
  ASSUME Structure, NEW f \in Flows, Visiting(f)
  PROVE  status[f] = "ACTIVE" /\ pc # "fault" /\ flowList # <<>>
<1>1. flowList # <<>> /\ f = Head(flowList) /\ pc # "fault"
  BY DEF Visiting
<1>2. f \in ToSet(flowList)
  BY <1>1, VisitKeepsDistinct DEF Structure
<1> QED
  BY <1>1, <1>2 DEF Structure

\* Enqueue keeps the structure: an inactive flow is not on the list yet, and
\* packet and count arrive together or not at all.
LEMMA EnqueueKeepsStructure ==
  ASSUME Structure, TypeOK', NEW f \in Flows, NEW size \in Sizes, Enqueue(f, size)
  PROVE  Structure'
<1> USE DEF Structure
<1>1. TypeOK /\ pc = "idle" /\ pc' \in {"idle", "overlimit"}
  BY DEF Enqueue, AfterEnqueue
<1>2. LimitInv'
  <2>1. nBytes' \in Int /\ Limit \in Int
    BY LimitsAssumption DEF TypeOK
  <2> QED
    BY <2>1 DEF Enqueue, AfterEnqueue, LimitInv
<1>3. /\ NoDuplicates'
      /\ \A g \in Flows : status'[g] = "ACTIVE" <=> g \in ToSet(flowList')
  <2>1. CASE status[f] = "INACTIVE"
    <3>1. f \notin ToSet(flowList)
      BY <1>1, <2>1
    <3>2. flowList \in Seq(Flows) /\ flowList' = Append(flowList, f)
      BY <2>1 DEF TypeOK, Enqueue, Activated
    <3>3. /\ \A i, j \in DOMAIN flowList' : flowList'[i] = flowList'[j] => i = j
          /\ ToSet(flowList') = ToSet(flowList) \cup {f}
      BY <3>1, <3>2, AppendKeepsDistinct DEF NoDuplicates
    <3> QED
      BY <1>1, <3>3 DEF NoDuplicates, Enqueue, TypeOK
  <2>2. CASE status[f] # "INACTIVE"
    <3>1. status[f] = "ACTIVE" /\ status' = status /\ flowList' = flowList
      BY <2>2 DEF TypeOK, Enqueue, Activated
    <3> QED
      BY <1>1, <3>1 DEF NoDuplicates
  <2> QED
    BY <2>1, <2>2
<1>4. InactiveIsReset'
  <2> SUFFICES ASSUME NEW g \in Flows, status'[g] = "INACTIVE"
               PROVE /\ queue'[g] = <<>> /\ held'[g] = NoPacket
                     /\ deficit'[g] = 0 /\ childPackets'[g] = 0
    BY DEF InactiveIsReset
  <2>1. g # f /\ status[g] = "INACTIVE"
    BY DEF Enqueue, TypeOK
  <2>2. queue'[g] = queue[g] /\ childPackets'[g] = childPackets[g]
    BY <2>1 DEF Enqueue, ChildAccepts, ChildRefuses, TypeOK
  <2> QED
    BY <1>1, <2>1, <2>2 DEF InactiveIsReset, Enqueue
<1>5. HeldIsShort'
  BY <1>1 DEF HeldIsShort, Enqueue
<1>6. \A g \in Flows : CountedOrWedged(g)'
  <2> SUFFICES ASSUME NEW g \in Flows
               PROVE childPackets'[g] = Len(queue'[g]) + (IF held'[g] = NoPacket THEN 0 ELSE 1)
    BY DEF CountedOrWedged, PacketsIn
  <2>1. childPackets[g] = Len(queue[g]) + (IF held[g] = NoPacket THEN 0 ELSE 1)
    BY <1>1 DEF CountedOrWedged, PacketsIn
  <2>2. held' = held /\ queue[g] \in Seq(Sizes) /\ childPackets[g] \in Int
    BY DEF Enqueue, TypeOK
  <2>3. Len(queue[g]) \in Nat
    BY <2>2, LenProperties
  <2>4. CASE ChildAccepts(f, size) /\ g = f
    <3>1. queue'[g] = Append(queue[g], size) /\ childPackets'[g] = childPackets[g] + 1
      BY <2>4 DEF ChildAccepts, TypeOK
    <3>2. Len(queue'[g]) = Len(queue[g]) + 1
      BY <2>2, <3>1, AppendProperties
    <3>3. CASE held[g] = NoPacket
      BY <2>1, <2>2, <2>3, <3>1, <3>2, <3>3
    <3>4. CASE held[g] # NoPacket
      BY <2>1, <2>2, <2>3, <3>1, <3>2, <3>4
    <3> QED
      BY <3>3, <3>4
  <2>5. CASE ChildRefuses(f, size) \/ g # f
    <3>1. queue'[g] = queue[g] /\ childPackets'[g] = childPackets[g]
      BY <2>5 DEF Enqueue, ChildAccepts, ChildRefuses, TypeOK
    <3> QED
      BY <2>1, <2>2, <3>1
  <2> QED
    BY <2>4, <2>5 DEF Enqueue
<1> QED
  BY <1>1, <1>2, <1>3, <1>4, <1>5, <1>6

\* DRRDrop keeps the structure.  It is at the only fat flow, so the flow whose
\* count may be wrong is the one it takes the next packet of.
LEMMA DropHeadKeepsStructure ==
  ASSUME Structure, TypeOK', NEW f \in Flows, DropHead(f)
  PROVE  Structure'
<1> USE DEF Structure
<1>1. /\ TypeOK /\ pc = "overlimit" /\ pc' \in {"idle", "overlimit"}
      /\ nBytes > Limit /\ IsFattest(f) /\ queue[f] # <<>>
      /\ classes' = classes /\ flowList' = flowList /\ status' = status
      /\ deficit' = deficit /\ held' = held
  BY DEF DropHead, AfterEnqueue, LimitInv
<1>2. LimitInv'
  <2>1. nBytes' \in Int /\ Limit \in Int
    BY LimitsAssumption DEF TypeOK
  <2> QED
    BY <2>1 DEF DropHead, AfterEnqueue, LimitInv
<1>3. status[f] = "ACTIVE"
  BY <1>1 DEF InactiveIsReset, TypeOK
<1>4. \A g \in Flows : g # f => queue'[g] = queue[g] /\ childPackets'[g] = childPackets[g]
  BY DEF DropHead, PacketDequeued, TypeOK
<1>5. InactiveIsReset'
  <2> SUFFICES ASSUME NEW g \in Flows, status'[g] = "INACTIVE"
               PROVE /\ queue'[g] = <<>> /\ held'[g] = NoPacket
                     /\ deficit'[g] = 0 /\ childPackets'[g] = 0
    BY DEF InactiveIsReset
  <2>1. g # f /\ status[g] = "INACTIVE"
    BY <1>1, <1>3
  <2> QED
    BY <1>1, <1>4, <2>1 DEF InactiveIsReset
<1>6. \A g \in Flows : CountedOrWedged(g)'
  <2>1. CASE held[f] = NoPacket
    <3> SUFFICES ASSUME NEW g \in Flows
                 PROVE childPackets'[g] = Len(queue'[g]) + (IF held'[g] = NoPacket THEN 0 ELSE 1)
      BY DEF CountedOrWedged, PacketsIn
    <3>1. ~(held[g] # NoPacket /\ IsFattest(g))
      BY <1>1, <2>1, FattestIsUnique
    <3>2. childPackets[g] = Len(queue[g]) + (IF held[g] = NoPacket THEN 0 ELSE 1)
      BY <1>1, <3>1 DEF CountedOrWedged, PacketsIn
    <3>3. CASE g = f
      <4>1. /\ queue'[f] = Tail(queue[f]) /\ childPackets'[f] = childPackets[f] - 1
            /\ queue[f] \in Seq(Sizes) /\ childPackets[f] \in Int
        BY <2>1 DEF DropHead, PacketDequeued, TypeOK
      <4>2. Len(Tail(queue[f])) = Len(queue[f]) - 1 /\ Len(queue[f]) \in Nat
        BY <1>1, <4>1, HeadTailProperties, LenProperties
      <4> QED
        BY <1>1, <2>1, <3>2, <3>3, <4>1, <4>2
    <3>4. CASE g # f
      BY <1>1, <1>4, <3>2, <3>4
    <3> QED
      BY <3>3, <3>4
  <2>2. CASE held[f] # NoPacket
    <3>1. /\ childPackets' = childPackets /\ childBytes' = childBytes
          /\ nBytes' = nBytes /\ pc' = "overlimit"
      BY <1>1, <2>2 DEF DropHead, total, AfterEnqueue
    <3>2. IsFattest(f)'
      BY <1>1, <3>1 DEF IsFattest
    <3>3. CountedOrWedged(f)'
      BY <1>1, <2>2, <3>1, <3>2 DEF CountedOrWedged
    <3>4. ASSUME NEW g \in Flows, g # f PROVE CountedOrWedged(g)'
      <4>1. ~IsFattest(g)
        BY <1>1, <3>4, FattestIsUnique
      <4>2. childPackets[g] = PacketsIn(g)
        BY <1>1, <4>1 DEF CountedOrWedged
      <4> QED
        BY <1>1, <1>4, <3>4, <4>2 DEF CountedOrWedged, PacketsIn
    <3> QED
      BY <3>3, <3>4
  <2> QED
    BY <2>1, <2>2
<1> QED
  BY <1>1, <1>2, <1>5, <1>6 DEF NoDuplicates, HeldIsShort

\* A drop by CoDel keeps the structure.
LEMMA CoDelDropKeepsStructure ==
  ASSUME Structure, TypeOK', NEW f \in Flows, CoDelDrop(f)
  PROVE  Structure'
<1> USE DEF Structure
<1>1. /\ TypeOK /\ pc \in {"idle", "dequeue"} /\ pc' = "dequeue"
      /\ queue[f] # <<>> /\ held[f] = NoPacket
      /\ flowList' = flowList /\ status' = status
      /\ deficit' = deficit /\ held' = held
  BY DEF CoDelDrop, Visiting
<1>2. status[f] = "ACTIVE"
  BY VisitedIsActive DEF CoDelDrop
<1>3. \A g \in Flows : g # f => queue'[g] = queue[g] /\ childPackets'[g] = childPackets[g]
  BY DEF CoDelDrop, PacketDequeued, TypeOK
<1>4. LimitInv'
  <2>1. Head(queue[f]) \in Nat
    BY <1>1, TailStaysTyped, SizesAssumption
  <2>2. nBytes' = nBytes - Head(queue[f]) /\ nBytes \in Int /\ Limit \in Int
    BY LimitsAssumption DEF CoDelDrop, PacketDequeued, TypeOK
  <2> QED
    BY <1>1, <2>1, <2>2 DEF LimitInv
<1>5. InactiveIsReset'
  BY <1>1, <1>2, <1>3 DEF InactiveIsReset
<1>6. \A g \in Flows : CountedOrWedged(g)'
  <2> SUFFICES ASSUME NEW g \in Flows
               PROVE childPackets'[g] = Len(queue'[g]) + (IF held'[g] = NoPacket THEN 0 ELSE 1)
    BY DEF CountedOrWedged, PacketsIn
  <2>1. childPackets[g] = Len(queue[g]) + (IF held[g] = NoPacket THEN 0 ELSE 1)
    BY <1>1 DEF CountedOrWedged, PacketsIn
  <2>2. CASE g = f
    <3>1. /\ queue'[f] = Tail(queue[f]) /\ childPackets'[f] = childPackets[f] - 1
          /\ queue[f] \in Seq(Sizes) /\ childPackets[f] \in Int
      BY DEF CoDelDrop, PacketDequeued, TypeOK
    <3>2. Len(Tail(queue[f])) = Len(queue[f]) - 1 /\ Len(queue[f]) \in Nat
      BY <1>1, <3>1, HeadTailProperties, LenProperties
    <3> QED
      BY <1>1, <2>1, <2>2, <3>1, <3>2
  <2>3. CASE g # f
    BY <1>1, <1>3, <2>1, <2>3
  <2> QED
    BY <2>2, <2>3
<1> QED
  BY <1>1, <1>4, <1>5, <1>6 DEF NoDuplicates, HeldIsShort

\* A sent packet keeps the structure: the count is 1 only for the packet sent,
\* so a flow that turns inactive leaves nothing behind.
LEMMA ServeKeepsStructure ==
  ASSUME Structure, TypeOK', NEW f \in Flows, Serve(f)
  PROVE  Structure'
<1> USE DEF Structure
<1>1. /\ TypeOK /\ NoDuplicates /\ pc \in {"idle", "dequeue"} /\ pc' = "idle"
      /\ flowList # <<>> /\ f = Head(flowList)
  BY DEF Serve, Visiting
<1>2. Peek(f) \in Sizes /\ Peek(f) \in Nat
  BY PeekIsAPacket, SizesAssumption DEF Serve
<1>3. childPackets[f] = PacketsIn(f) /\ childPackets[f] \in Int
  BY <1>1 DEF CountedOrWedged, TypeOK
<1>4. /\ queue'[f] \in Seq(Sizes) /\ held'[f] = NoPacket
      /\ Len(queue'[f]) = childPackets[f] - 1
  <2>1. CASE held[f] = NoPacket
    <3>1. queue[f] # <<>> /\ queue'[f] = Tail(queue[f]) /\ held'[f] = NoPacket
      BY <2>1, PeekIsAPacket DEF Serve, TypeOK
    <3>2. queue[f] \in Seq(Sizes)
      BY DEF TypeOK
    <3>3. Len(queue'[f]) = Len(queue[f]) - 1 /\ Len(queue[f]) \in Nat /\ queue'[f] \in Seq(Sizes)
      BY <3>1, <3>2, HeadTailProperties, LenProperties
    <3> QED
      BY <1>3, <2>1, <3>1, <3>3 DEF PacketsIn
  <2>2. CASE held[f] # NoPacket
    <3>1. queue'[f] = queue[f] /\ queue[f] \in Seq(Sizes) /\ held'[f] = NoPacket
      BY <2>2 DEF Serve, TypeOK
    <3>2. Len(queue[f]) \in Nat
      BY <3>1, LenProperties
    <3> QED
      BY <1>3, <2>2, <3>1, <3>2 DEF PacketsIn
  <2> QED
    BY <2>1, <2>2
<1>5. childPackets'[f] = childPackets[f] - 1
  BY DEF Serve, PacketDequeued, TypeOK
<1>6. \A g \in Flows : g # f => /\ queue'[g] = queue[g] /\ held'[g] = held[g]
                               /\ childPackets'[g] = childPackets[g]
                               /\ deficit'[g] = deficit[g] /\ status'[g] = status[g]
  BY DEF Serve, PacketDequeued, TypeOK
<1>7. LimitInv'
  <2>1. nBytes' = nBytes - Peek(f) /\ nBytes \in Int /\ Limit \in Int
    BY LimitsAssumption DEF Serve, PacketDequeued, TypeOK
  <2> QED
    BY <1>1, <1>2, <2>1 DEF LimitInv
<1>8. /\ NoDuplicates'
      /\ \A g \in Flows : status'[g] = "ACTIVE" <=> g \in ToSet(flowList')
  <2>1. status[f] = "ACTIVE"
    BY VisitedIsActive DEF Serve
  <2>2. CASE childPackets'[f] = 0
    <3>1. flowList' = Tail(flowList) /\ status' = [status EXCEPT ![f] = "INACTIVE"]
      BY <2>2 DEF Serve, Emptied
    <3>2. /\ \A i, j \in DOMAIN flowList' : flowList'[i] = flowList'[j] => i = j
          /\ ToSet(flowList') = ToSet(flowList) \ {f}
      BY <1>1, <3>1, VisitKeepsDistinct
    <3> QED
      BY <1>1, <3>1, <3>2 DEF NoDuplicates, TypeOK
  <2>3. CASE childPackets'[f] # 0
    <3>1. flowList' = Append(Tail(flowList), f) /\ status' = status
      BY <2>3 DEF Serve, Emptied, Rotated
    <3>2. /\ \A i, j \in DOMAIN flowList' : flowList'[i] = flowList'[j] => i = j
          /\ ToSet(flowList') = ToSet(flowList)
      BY <1>1, <3>1, VisitKeepsDistinct
    <3> QED
      BY <1>1, <3>1, <3>2 DEF NoDuplicates
  <2> QED
    BY <2>2, <2>3
<1>9. InactiveIsReset'
  <2> SUFFICES ASSUME NEW g \in Flows, status'[g] = "INACTIVE"
               PROVE /\ queue'[g] = <<>> /\ held'[g] = NoPacket
                     /\ deficit'[g] = 0 /\ childPackets'[g] = 0
    BY DEF InactiveIsReset
  <2>1. CASE g = f
    <3>1. childPackets'[f] = 0
      <4>1. status[f] = "ACTIVE"
        BY VisitedIsActive DEF Serve
      <4> QED
        BY <2>1, <4>1 DEF Serve, Emptied
    <3>2. Len(queue'[f]) = 0
      BY <1>3, <1>4, <1>5, <3>1
    <3>3. queue'[f] = <<>>
      BY <1>4, <3>2, EmptySeq
    <3>4. deficit'[f] = 0
      BY <3>1 DEF Serve, TypeOK, Emptied
    <3> QED
      BY <1>4, <2>1, <3>1, <3>3, <3>4
  <2>2. CASE g # f
    BY <1>1, <1>6, <2>2 DEF InactiveIsReset
  <2> QED
    BY <2>1, <2>2
<1>10. HeldIsShort'
  BY <1>1, <1>4, <1>6 DEF HeldIsShort
<1>11. \A g \in Flows : CountedOrWedged(g)'
  <2> SUFFICES ASSUME NEW g \in Flows
               PROVE childPackets'[g] = PacketsIn(g)'
    BY DEF CountedOrWedged
  <2>1. CASE g = f
    <3>1. Len(queue'[f]) \in Nat
      BY <1>4, LenProperties
    <3>2. PacketsIn(f)' = Len(queue'[f])
      BY <1>4, <3>1 DEF PacketsIn
    <3> QED
      BY <1>4, <1>5, <2>1, <3>2
  <2>2. CASE g # f
    <3>1. childPackets[g] = PacketsIn(g)
      BY <1>1 DEF CountedOrWedged
    <3> QED
      BY <1>6, <2>2, <3>1 DEF PacketsIn
  <2> QED
    BY <2>1, <2>2
<1> QED
  BY <1>1, <1>7, <1>8, <1>9, <1>10, <1>11

\* A visit that ends without a packet keeps the structure: the packet moves from
\* the queue to the child's hands, and the deficit is short of it.
LEMMA DeferKeepsStructure ==
  ASSUME Structure, TypeOK', NEW f \in Flows, Defer(f)
  PROVE  Structure'
<1> USE DEF Structure
<1>1. /\ TypeOK /\ NoDuplicates /\ pc \in {"idle", "dequeue"} /\ pc' = "dequeue"
      /\ flowList # <<>> /\ f = Head(flowList) /\ status' = status
      /\ childPackets' = childPackets /\ nBytes' = nBytes
  BY DEF Defer, Visiting, total
<1>2. /\ Peek(f) \in Sizes /\ Peek(f) # NoPacket
      /\ Credit(f) < Peek(f)
  BY DeferIsShort
<1>3. status[f] = "ACTIVE"
  BY VisitedIsActive DEF Defer
<1>4. /\ held'[f] = Peek(f) /\ deficit'[f] = Credit(f)
      /\ \A g \in Flows : g # f => /\ queue'[g] = queue[g] /\ held'[g] = held[g]
                                  /\ deficit'[g] = deficit[g]
  BY DEF Defer, TypeOK
<1>5. PacketsIn(f)' = PacketsIn(f)
  <2>1. CASE held[f] = NoPacket
    <3>1. queue[f] # <<>> /\ queue'[f] = Tail(queue[f])
      BY <2>1, PeekIsAPacket DEF Defer, TypeOK
    <3>2. queue[f] \in Seq(Sizes)
      BY DEF TypeOK
    <3>3. Len(queue'[f]) = Len(queue[f]) - 1 /\ Len(queue[f]) \in Nat
      BY <3>1, <3>2, HeadTailProperties, LenProperties
    <3> QED
      BY <1>2, <1>4, <2>1, <3>3 DEF PacketsIn
  <2>2. CASE held[f] # NoPacket
    BY <1>2, <1>4, <2>2 DEF PacketsIn, Defer
  <2> QED
    BY <2>1, <2>2
<1>6. LimitInv'
  BY <1>1 DEF LimitInv
<1>7. /\ NoDuplicates'
      /\ \A g \in Flows : status'[g] = "ACTIVE" <=> g \in ToSet(flowList')
  <2>1. flowList' = Append(Tail(flowList), f)
    BY DEF Defer, Rotated
  <2>2. /\ \A i, j \in DOMAIN flowList' : flowList'[i] = flowList'[j] => i = j
        /\ ToSet(flowList') = ToSet(flowList)
    BY <1>1, <2>1, VisitKeepsDistinct
  <2> QED
    BY <1>1, <2>2 DEF NoDuplicates
<1>8. InactiveIsReset'
  BY <1>1, <1>3, <1>4 DEF InactiveIsReset
<1>9. HeldIsShort'
  BY <1>1, <1>2, <1>4 DEF HeldIsShort
<1>10. \A g \in Flows : CountedOrWedged(g)'
  <2> SUFFICES ASSUME NEW g \in Flows
               PROVE childPackets'[g] = PacketsIn(g)'
    BY DEF CountedOrWedged
  <2>1. childPackets[g] = PacketsIn(g)
    BY <1>1 DEF CountedOrWedged
  <2>2. PacketsIn(g)' = PacketsIn(g)
    BY <1>4, <1>5 DEF PacketsIn
  <2> QED
    BY <1>1, <2>1, <2>2
<1> QED
  BY <1>1, <1>6, <1>7, <1>8, <1>9, <1>10

\* The visit that crashes leaves m_flowList without duplicates.
LEMMA PeekNullKeepsStructure ==
  ASSUME Structure, TypeOK', NEW f \in Flows, PeekNull(f)
  PROVE  Structure'
<1>1. TypeOK /\ NoDuplicates /\ flowList # <<>> /\ flowList' = Tail(flowList) /\ pc' = "fault"
  BY DEF PeekNull, Visiting, Structure
<1>2. NoDuplicates'
  BY <1>1, VisitKeepsDistinct DEF NoDuplicates
<1>3. status[f] = "ACTIVE" /\ held[f] = NoPacket
  BY VisitedIsActive DEF PeekNull, Peek
<1>4. /\ queue' = queue /\ held' = held /\ childPackets' = childPackets /\ status' = status
      /\ \A g \in Flows : g # f => deficit'[g] = deficit[g]
  BY <1>1 DEF PeekNull, child, TypeOK
<1>5. InactiveIsReset' /\ HeldIsShort'
  BY <1>3, <1>4 DEF Structure, InactiveIsReset, HeldIsShort
<1> QED
  BY <1>1, <1>2, <1>5 DEF Structure

THEOREM StructureInvariant == Spec => []Structure
<1>1. Init => Structure
  <2> SUFFICES ASSUME Init PROVE Structure
    OBVIOUS
  <2>1. TypeOK
    BY SizesAssumption, QuantaAssumption, WordAssumption DEF Init, TypeOK, NoPacket
  <2>2. NoDuplicates /\ ToSet(flowList) = {}
    BY DEF Init, NoDuplicates, ToSet
  <2>3. InactiveIsReset /\ HeldIsShort /\ LimitInv
    BY LimitsAssumption DEF Init, InactiveIsReset, HeldIsShort, LimitInv, NoPacket
  <2>4. \A f \in Flows : CountedOrWedged(f)
    BY DEF Init, CountedOrWedged, PacketsIn, NoPacket
  <2>5. \A f \in Flows : status[f] = "ACTIVE" <=> f \in ToSet(flowList)
    BY <2>2 DEF Init
  <2> QED
    BY <2>1, <2>2, <2>3, <2>4, <2>5 DEF Structure
<1>2. Structure /\ TypeOK' /\ [Next]_vars => Structure'
  <2> SUFFICES ASSUME Structure, TypeOK', [Next]_vars
               PROVE Structure'
    OBVIOUS
  <2>1. ASSUME NEW f \in Flows, DropNull(f)
        PROVE Structure'
    BY <2>1 DEF DropNull, child, total, Structure, NoDuplicates, InactiveIsReset, HeldIsShort
  <2>2. ASSUME UNCHANGED <<classes, flowList, status, deficit, child, total, pc>>
        PROVE Structure'
    <3>1. NoDuplicates' /\ InactiveIsReset' /\ HeldIsShort'
      BY <2>2 DEF Structure, NoDuplicates, InactiveIsReset, HeldIsShort, child
    <3>2. ASSUME pc' # "fault"
          PROVE /\ \A f \in Flows : status'[f] = "ACTIVE" <=> f \in ToSet(flowList')
                /\ LimitInv'
      BY <2>2, <3>2 DEF Structure, LimitInv, child, total
    <3>3. ASSUME pc' # "fault", NEW f \in Flows
          PROVE CountedOrWedged(f)'
      <4>1. CountedOrWedged(f)
        BY <2>2, <3>3 DEF Structure
      <4> QED
        BY <2>2, <4>1 DEF CountedOrWedged, PacketsIn, IsFattest, child
    <3> QED
      BY <3>1, <3>2, <3>3 DEF Structure
  <2>3. ASSUME \/ \E q \in Quanta : SetQuantum(q)
               \/ UNCHANGED vars
        PROVE Structure'
    BY <2>2, <2>3 DEF SetQuantum, vars
  <2> QED
    BY <2>1, <2>2, <2>3, EnqueueKeepsStructure, DropHeadKeepsStructure,
       CoDelDropKeepsStructure, ServeKeepsStructure, DeferKeepsStructure,
       PeekNullKeepsStructure
       DEF Next, DRRDrop, Visit
<1> QED
  BY <1>1, <1>2, TypeCorrect, PTL DEF Spec
-----------------------------------------------------------------------------
\* A flow is on m_flowList exactly while it is ACTIVE, and never twice (DoEnqueue
\* and DoDequeue push_back).
THEOREM ListMatchesStatus == Spec => []ListIsExact
<1>1. Structure => ListIsExact
  BY DEF Structure, ListedIffActive, ListIsExact
<1> QED
  BY <1>1, StructureInvariant, PTL

\* A flow that DoDequeue made inactive has no packet and no deficit left.
THEOREM InactiveFlowsAreReset == Spec => []InactiveIsReset
<1>1. Structure => InactiveIsReset
  BY DEF Structure
<1> QED
  BY <1>1, StructureInvariant, PTL

\* A child holds a peeked packet only while the deficit is short of it.
THEOREM HeldPacketsAreShort == Spec => []HeldIsShort
<1>1. Structure => HeldIsShort
  BY DEF Structure
<1> QED
  BY <1>1, StructureInvariant, PTL

\* Whenever DoEnqueue has returned, at most ByteLimit bytes are queued.
THEOREM LimitHolds == Spec => []LimitAtRest
<1>1. Structure => LimitAtRest
  BY DEF Structure, LimitInv, LimitAtRest
<1> QED
  BY <1>1, StructureInvariant, PTL

\* Once DRRDrop is about to take a packet of a flow whose child holds a peeked
\* packet, DoEnqueue never returns: it runs into the null dereference.
THEOREM HeldDropNeverReturns == Spec => HeldDropIsFatal
<1>1. ASSUME Structure, [Next]_vars, Wedged
      PROVE  Wedged' \/ pc' = "fault"
  <2>1. PICK f \in Flows : IsFattest(f) /\ held[f] # NoPacket
    BY <1>1 DEF Wedged
  <2>2. pc = "overlimit" /\ TypeOK /\ nBytes > Limit
    BY <1>1 DEF Wedged, Structure, LimitInv
  <2>3. ASSUME NEW g \in Flows, DropHead(g)
        PROVE Wedged'
    <3>1. g = f
      BY <2>1, <2>2, <2>3, FattestIsUnique DEF DropHead
    <3>2. /\ classes' = classes /\ childBytes' = childBytes
          /\ held' = held /\ pc' = "overlimit"
      BY <2>1, <2>2, <2>3, <3>1 DEF DropHead, total, AfterEnqueue
    <3>3. IsFattest(f)'
      BY <2>1, <3>2 DEF IsFattest
    <3> QED
      BY <2>1, <3>2, <3>3 DEF Wedged
  <2>4. ASSUME NEW g \in Flows, DropNull(g)
        PROVE pc' = "fault"
    BY <2>4 DEF DropNull
  <2>5. CASE UNCHANGED vars
    BY <2>1, <2>2, <2>5 DEF vars, child, Wedged, IsFattest
  <2>6. ~\E g \in Flows, size \in Sizes : Enqueue(g, size)
    BY <2>2 DEF Enqueue
  <2>7. ~\E g \in Flows : CoDelDrop(g) \/ Serve(g) \/ Defer(g) \/ PeekNull(g)
    BY <2>2 DEF CoDelDrop, Serve, Defer, PeekNull, Visiting
  <2>8. ~\E q \in Quanta : SetQuantum(q)
    BY <2>2 DEF SetQuantum
  <2> QED
    BY <1>1, <2>3, <2>4, <2>5, <2>6, <2>7, <2>8 DEF Next, DRRDrop, Visit
<1>2. Structure /\ [Next]_vars => [Wedged => Wedged' \/ pc' = "fault"]_vars
  BY <1>1
<1> QED
  BY <1>2, StructureInvariant, PTL DEF Spec, HeldDropIsFatal

\* With quanta no larger than any packet, the credit of a flow that is visited is
\* short of 2^32: no deficit wraps.
LEMMA SmallQuantaDoNotWrap ==
  ASSUME \A q \in Quanta, s \in Sizes : q <= s,
         TypeOK, DeficitBound, pc # "fault", NEW f \in Flows
  PROVE  Credit(f) = deficit[f] + quantum
<1>1. PICK s \in Sizes : deficit[f] < s
  BY DEF DeficitBound
<1>2. deficit[f] \in 0..Word - 1 /\ quantum \in Quanta
  BY DEF TypeOK
<1>3. quantum \in Nat /\ s \in Nat /\ Word \in Nat /\ quantum + s < Word
  BY <1>2, SizesAssumption, QuantaAssumption, WordAssumption
<1>4. deficit[f] \in Nat
  BY <1>2, <1>3
<1>5. deficit[f] + quantum \in Nat /\ deficit[f] + quantum < Word
  BY <1>1, <1>3, <1>4
<1>6. \A x, w \in Nat : x < w => x % w = x
  OBVIOUS
<1> QED
  BY <1>3, <1>5, <1>6 DEF Credit

\* If no quantum exceeds the smallest packet, a flow never saves up a deficit of
\* a largest packet, so m_deficit is nowhere near its 32 bits however long the
\* flow stays active.  (With a larger quantum the code's one packet per visit
\* lets the deficit grow without bound.)
THEOREM DeficitIsBounded ==
  ASSUME \A q \in Quanta, s \in Sizes : q <= s
  PROVE  Spec => []DeficitBound
<1>1. Init => DeficitBound
  <2>1. PICK s : s \in Sizes
    BY SizesAssumption
  <2>2. 0 < s
    BY <2>1, SizesAssumption
  <2> QED
    BY <2>1, <2>2 DEF Init, DeficitBound
<1>2. ASSUME TypeOK, DeficitBound, [Next]_vars
      PROVE  DeficitBound'
  <2>1. ASSUME NEW f \in Flows, Serve(f)
        PROVE DeficitBound'
    <3>1. Credit(f) = deficit[f] + quantum /\ Credit(f) >= Peek(f)
      BY <1>2, <2>1, SmallQuantaDoNotWrap DEF Serve, Visiting, Covered
    <3>2. Peek(f) \in Sizes
      BY <1>2, <2>1, PeekIsAPacket DEF Serve
    <3>3. quantum \in Quanta /\ deficit[f] \in 0..Word - 1
      BY <1>2 DEF TypeOK
    <3>4. quantum <= Peek(f)
      BY <3>2, <3>3
    <3>5. quantum \in Nat /\ Peek(f) \in Nat /\ deficit[f] \in Int
      <4>1. quantum \in Nat /\ Peek(f) \in Nat /\ Word \in Nat
        BY <3>2, <3>3, SizesAssumption, QuantaAssumption, WordAssumption
      <4> QED
        BY <3>3, <4>1
    <3>6. PICK s \in Sizes : deficit[f] < s
      BY <1>2, <2>1 DEF DeficitBound, Serve, Visiting
    <3>7. s \in Nat /\ 0 < s
      BY <3>6, SizesAssumption
    <3>8. Credit(f) - Peek(f) < s
      BY <3>1, <3>4, <3>5, <3>6, <3>7
    <3>9. /\ deficit'[f] = 0 \/ deficit'[f] = Credit(f) - Peek(f)
          /\ \A g \in Flows : g # f => deficit'[g] = deficit[g]
      BY <1>2, <2>1 DEF Serve, TypeOK
    <3>10. deficit'[f] < s
      BY <3>7, <3>8, <3>9
    <3> QED
      BY <1>2, <2>1, <3>9, <3>10 DEF DeficitBound, Serve, Visiting
  <2>2. ASSUME NEW f \in Flows, Defer(f)
        PROVE DeficitBound'
    <3>1. Peek(f) \in Sizes /\ Credit(f) < Peek(f)
      BY <1>2, <2>2, DeferIsShort
    <3>2. /\ deficit'[f] = Credit(f)
          /\ \A g \in Flows : g # f => deficit'[g] = deficit[g]
      BY <1>2, <2>2 DEF Defer, TypeOK
    <3> QED
      BY <1>2, <2>2, <3>1, <3>2 DEF DeficitBound, Defer, Visiting
  <2>3. ASSUME UNCHANGED deficit, pc # "fault" \/ pc' = "fault"
        PROVE DeficitBound'
    BY <1>2, <2>3 DEF DeficitBound
  <2>4. ASSUME NEW f \in Flows, NEW size \in Sizes, Enqueue(f, size)
        PROVE DeficitBound'
    BY <2>3, <2>4 DEF Enqueue
  <2>5. ASSUME DRRDrop
        PROVE DeficitBound'
    BY <2>3, <2>5 DEF DRRDrop, DropHead, DropNull
  <2>6. ASSUME NEW f \in Flows, CoDelDrop(f)
        PROVE DeficitBound'
    BY <2>3, <2>6 DEF CoDelDrop, Visiting
  <2>7. ASSUME NEW f \in Flows, PeekNull(f)
        PROVE DeficitBound'
    BY <2>7 DEF PeekNull, DeficitBound
  <2>8. ASSUME NEW q \in Quanta, SetQuantum(q)
        PROVE DeficitBound'
    BY <2>3, <2>8 DEF SetQuantum
  <2>9. CASE UNCHANGED vars
    BY <1>2, <2>9 DEF vars, DeficitBound
  <2> QED
    BY <1>2, <2>1, <2>2, <2>4, <2>5, <2>6, <2>7, <2>8, <2>9 DEF Next, Visit
<1> QED
  BY <1>1, <1>2, TypeCorrect, PTL DEF Spec

\* With every quantum at least the largest packet, no visit ends without a packet
\* sent, so no child is left holding one, as long as no deficit wraps.  The wrap
\* is the only other way into the state DRRDrop cannot handle.
THEOREM NothingIsHeldWithoutWrap ==
  ASSUME \A q \in Quanta, s \in Sizes : s <= q
  PROVE  Spec /\ [](\A f \in Flows : deficit[f] + quantum < Word) => []NothingHeld
<1> DEFINE NoWrap == \A f \in Flows : deficit[f] + quantum < Word
<1>1. Init => NothingHeld
  BY DEF Init, NothingHeld
<1>2. ASSUME TypeOK, NoWrap, NothingHeld, [Next]_vars
      PROVE  NothingHeld'
  <2>1. ASSUME UNCHANGED held
        PROVE NothingHeld'
    BY <1>2, <2>1 DEF NothingHeld
  <2>2. ASSUME NEW f \in Flows, Serve(f)
        PROVE NothingHeld'
    BY <1>2, <2>1, <2>2 DEF Serve, NothingHeld
  <2>3. ASSUME NEW f \in Flows, Defer(f)
        PROVE NothingHeld'
    <3>1. Peek(f) \in Sizes /\ Credit(f) < Peek(f)
      BY <1>2, <2>3, DeferIsShort
    <3>2. quantum \in Quanta /\ deficit[f] \in 0..Word - 1
      BY <1>2 DEF TypeOK
    <3>3. Peek(f) <= quantum
      BY <3>1, <3>2
    <3>4. /\ quantum \in Nat /\ Peek(f) \in Nat /\ Word \in Nat
          /\ deficit[f] \in Nat
      <4>1. quantum \in Nat /\ Peek(f) \in Nat /\ Word \in Nat
        BY <3>1, <3>2, SizesAssumption, QuantaAssumption, WordAssumption
      <4> QED
        BY <3>2, <4>1
    <3>5. deficit[f] + quantum \in Nat /\ deficit[f] + quantum < Word
      BY <1>2, <3>4
    <3>6. \A x, w \in Nat : x < w => x % w = x
      OBVIOUS
    <3>7. Credit(f) = deficit[f] + quantum
      BY <3>4, <3>5, <3>6 DEF Credit
    <3> QED
      BY <3>1, <3>3, <3>4, <3>7
  <2>4. ASSUME NEW f \in Flows, NEW size \in Sizes, Enqueue(f, size)
        PROVE NothingHeld'
    BY <2>1, <2>4 DEF Enqueue
  <2>5. ASSUME DRRDrop
        PROVE NothingHeld'
    BY <2>1, <2>5 DEF DRRDrop, DropHead, DropNull, child
  <2>6. ASSUME NEW f \in Flows, CoDelDrop(f)
        PROVE NothingHeld'
    BY <2>1, <2>6 DEF CoDelDrop
  <2>7. ASSUME NEW f \in Flows, PeekNull(f)
        PROVE NothingHeld'
    BY <2>1, <2>7 DEF PeekNull, child
  <2>8. ASSUME NEW q \in Quanta, SetQuantum(q)
        PROVE NothingHeld'
    BY <2>1, <2>8 DEF SetQuantum, child
  <2>9. CASE UNCHANGED vars
    BY <2>1, <2>9 DEF vars, child
  <2> QED
    BY <1>2, <2>2, <2>3, <2>4, <2>5, <2>6, <2>7, <2>8, <2>9 DEF Next, Visit
<1> QED
  BY <1>1, <1>2, TypeCorrect, PTL DEF Spec
-----------------------------------------------------------------------------
\* Packets are not empty.
LEMMA SizesAreNaturals ==
  \A size \in Sizes : size \in Nat /\ size \in Int /\ size > 0
BY SizesAssumption

\* The bytes in a queue: none, one packet more at the end, one less at the front.
LEMMA BytesOfQueue ==
  ASSUME NEW q \in Seq(Sizes)
  PROVE  /\ Bytes(q) \in Nat
         /\ \A size \in Sizes : Bytes(Append(q, size)) = Bytes(q) + size
         /\ q # <<>> => Bytes(q) = Head(q) + Bytes(Tail(q))
         /\ \A size \in Sizes : Bytes(<<size>> \o q) = size + Bytes(q)
<1>1. Sizes \subseteq Nat
  BY SizesAssumption
<1>2. \A i \in 1..Len(q) : q[i] \in Nat
  BY <1>1, ElementOfSeq
<1>3. q \in Seq(Nat) /\ q \in Seq(Int)
  <2>1. q = [i \in 1..Len(q) |-> q[i]] /\ Len(q) \in Nat
    BY LenProperties
  <2>2. \A i \in 1..Len(q) : q[i] \in Int
    BY <1>2
  <2> QED
    BY <1>2, <2>1, <2>2, IsASeq
<1>4. Bytes(q) \in Nat
  BY <1>3, SumIsNatural DEF Bytes
<1>5. \A size \in Sizes : size \in Int
  BY <1>1
<1>6. \A size \in Sizes : Bytes(Append(q, size)) = Bytes(q) + size
  BY <1>3, <1>5, SumOfAppend, Zenon DEF Bytes
<1>7. q # <<>> => Bytes(q) = Head(q) + Bytes(Tail(q))
  BY <1>3, SumOfTail, Zenon DEF Bytes
<1>8. \A size \in Sizes : Bytes(<<size>> \o q) = size + Bytes(q)
  BY <1>3, <1>5, SumOfCons, Zenon DEF Bytes
<1> QED
  BY <1>4, <1>6, <1>7, <1>8

\* The bytes of the packets stored in child f, the held one included.
BytesStored(f) == held[f] + Bytes(queue[f])

LEMMA StoredBytes ==
  ASSUME TypeOK, NEW f \in Flows
  PROVE  Bytes(Stored(f)) = BytesStored(f)
<1>1. queue[f] \in Seq(Sizes) /\ held[f] \in Sizes \cup {NoPacket}
  BY DEF TypeOK
<1>2. Bytes(queue[f]) \in Nat
  BY <1>1, BytesOfQueue
<1>3. CASE held[f] = NoPacket
  BY <1>1, <1>2, <1>3, ConcatEmptySeq DEF Stored, BytesStored, NoPacket
<1>4. CASE held[f] # NoPacket
  BY <1>1, <1>4, BytesOfQueue DEF Stored, BytesStored
<1> QED
  BY <1>3, <1>4

\* The byte count of child f is right, or DRRDrop is at the flow for good.
BytesCountedOrWedged(f) ==
  \/ childBytes[f] = BytesStored(f)
  \/ pc = "overlimit" /\ held[f] # NoPacket /\ IsFattest(f)

\* A counter added up over all flows.
Sum(counter) == FoldFunction(+, 0, counter)

\* What the DRR queue disc counts is what its children count.
TotalsMatch == nPackets = Sum(childPackets) /\ nBytes = Sum(childBytes)

\* The counters of bytes and of all flows, on top of Structure.
CountersInv ==
  /\ TotalsMatch
  /\ pc # "fault" => \A f \in Flows : BytesCountedOrWedged(f)

\* A packet that a child and the DRR queue disc both count keeps the two in step.
LEMMA CountedTogether ==
  ASSUME IsFiniteSet(Flows), TypeOK, TotalsMatch, NEW f \in Flows, NEW n \in Int, NEW size \in Int,
         childPackets' = [childPackets EXCEPT ![f] = @ + n],
         childBytes' = [childBytes EXCEPT ![f] = @ + size],
         nPackets' = nPackets + n, nBytes' = nBytes + size
  PROVE  TotalsMatch'
<1>1. /\ childPackets \in [Flows -> Int] /\ childBytes \in [Flows -> Int]
      /\ childPackets[f] + n \in Int /\ childBytes[f] + size \in Int
      /\ childPackets[f] \in Int /\ childBytes[f] \in Int
  BY DEF TypeOK
<1>2. \A w \in [Flows -> Int] : \A g \in Flows : \A m \in Int :
        Sum(w) \in Int /\ Sum([w EXCEPT ![g] = m]) = Sum(w) - w[g] + m
  BY SumUpdate, Zenon DEF Sum
<1>3. childPackets' = [childPackets EXCEPT ![f] = childPackets[f] + n]
      /\ childBytes' = [childBytes EXCEPT ![f] = childBytes[f] + size]
  OBVIOUS
<1>4. /\ Sum(childPackets) \in Int
      /\ Sum(childPackets') = Sum(childPackets) - childPackets[f] + (childPackets[f] + n)
  <2>1. Sum([childPackets EXCEPT ![f] = childPackets[f] + n])
          = Sum(childPackets) - childPackets[f] + (childPackets[f] + n)
    BY <1>1, <1>2, Zenon
  <2>2. Sum(childPackets) \in Int
    BY <1>1, <1>2, Zenon
  <2> QED
    BY <1>3, <2>1, <2>2, Zenon
<1>5. /\ Sum(childBytes) \in Int
      /\ Sum(childBytes') = Sum(childBytes) - childBytes[f] + (childBytes[f] + size)
  <2>1. Sum([childBytes EXCEPT ![f] = childBytes[f] + size])
          = Sum(childBytes) - childBytes[f] + (childBytes[f] + size)
    BY <1>1, <1>2, Zenon
  <2>2. Sum(childBytes) \in Int
    BY <1>1, <1>2, Zenon
  <2> QED
    BY <1>3, <2>1, <2>2, Zenon
<1>6. Sum(childPackets') = nPackets'
  BY <1>1, <1>4 DEF TotalsMatch
<1>7. Sum(childBytes') = nBytes'
  BY <1>1, <1>5 DEF TotalsMatch
<1>8. Sum(childPackets)' = Sum(childPackets') /\ Sum(childBytes)' = Sum(childBytes')
  OBVIOUS
<1> QED
  BY <1>6, <1>7, <1>8 DEF TotalsMatch

\* So does PacketDequeued.
LEMMA DequeuedTogether ==
  ASSUME IsFiniteSet(Flows), TypeOK, TotalsMatch, NEW f \in Flows, NEW size \in Int,
         PacketDequeued(f, size)
  PROVE  TotalsMatch' /\ childBytes' = [childBytes EXCEPT ![f] = @ - size]
<1>1. /\ childPackets[f] \in Int /\ childBytes[f] \in Int /\ nPackets \in Int /\ nBytes \in Int
      /\ -1 \in Int /\ -size \in Int
  BY DEF TypeOK
<1>2. /\ childPackets' = [childPackets EXCEPT ![f] = @ + -1]
      /\ childBytes' = [childBytes EXCEPT ![f] = @ + -size]
      /\ nPackets' = nPackets + -1 /\ nBytes' = nBytes + -size
  BY <1>1 DEF PacketDequeued
<1> QED
  BY <1>1, <1>2, CountedTogether DEF PacketDequeued

\* A step that changes the bytes of one flow at most, stored and counted alike.
LEMMA OneFlowChanges ==
  ASSUME CountersInv, TypeOK, ~Wedged, pc # "fault", NEW f \in Flows, NEW n \in Int,
         \A g \in Flows : g # f => /\ queue'[g] = queue[g] /\ held'[g] = held[g]
                                   /\ childBytes'[g] = childBytes[g],
         childBytes'[f] = childBytes[f] + n,
         BytesStored(f)' = BytesStored(f) + n
  PROVE  \A g \in Flows : BytesCountedOrWedged(g)'
<1> SUFFICES ASSUME NEW g \in Flows PROVE childBytes'[g] = BytesStored(g)'
  BY DEF BytesCountedOrWedged
<1>1. childBytes[g] = BytesStored(g)
  BY DEF CountersInv, BytesCountedOrWedged, Wedged
<1>2. CASE g = f
  BY <1>1, <1>2
<1>3. CASE g # f
  BY <1>1, <1>3 DEF BytesStored
<1> QED
  BY <1>2, <1>3

\* The bytes of a child one of whose packets is stored, dropped, sent or held.
LEMMA BytesMove ==
  ASSUME TypeOK, TypeOK', NEW f \in Flows
  PROVE  /\ \A size \in Sizes :
              held'[f] = held[f] /\ queue'[f] = Append(queue[f], size)
                => BytesStored(f)' = BytesStored(f) + size
         /\ held'[f] = held[f] /\ queue[f] # <<>> /\ queue'[f] = Tail(queue[f])
              => BytesStored(f)' = BytesStored(f) - Head(queue[f])
         /\ held[f] = NoPacket /\ queue[f] # <<>> /\ queue'[f] = Tail(queue[f])
              /\ held'[f] = Head(queue[f])
              => BytesStored(f)' = BytesStored(f)
         /\ held'[f] = NoPacket /\ queue'[f] = queue[f]
              => BytesStored(f)' = BytesStored(f) - held[f]
         /\ BytesStored(f) \in Nat
<1>1. queue[f] \in Seq(Sizes) /\ held[f] \in Nat
  <2>1. queue[f] \in Seq(Sizes) /\ held[f] \in Sizes \cup {0}
    BY DEF TypeOK, NoPacket
  <2> QED
    BY <2>1, SizesAreNaturals
<1>2. Bytes(queue[f]) \in Nat
  BY <1>1, BytesOfQueue
<1>3. BytesStored(f)' = held'[f] + Bytes(queue'[f])
  BY DEF BytesStored
<1>4. ASSUME NEW size \in Sizes, held'[f] = held[f], queue'[f] = Append(queue[f], size)
      PROVE  BytesStored(f)' = BytesStored(f) + size
  <2>1. Bytes(queue'[f]) = Bytes(queue[f]) + size /\ size \in Nat
    BY <1>1, <1>4, BytesOfQueue, SizesAssumption
  <2> QED
    BY <1>1, <1>2, <1>3, <1>4, <2>1 DEF BytesStored
<1>5. ASSUME queue[f] # <<>>, queue'[f] = Tail(queue[f])
      PROVE  /\ Bytes(queue[f]) = Head(queue[f]) + Bytes(queue'[f])
             /\ Head(queue[f]) \in Nat /\ Bytes(queue'[f]) \in Nat
  <2>1. Head(queue[f]) \in Sizes /\ Tail(queue[f]) \in Seq(Sizes)
    BY <1>1, <1>5, HeadTailProperties
  <2> QED
    BY <1>1, <1>5, <2>1, BytesOfQueue, SizesAssumption
<1>6. held'[f] = NoPacket /\ queue'[f] = queue[f] => BytesStored(f)' = BytesStored(f) - held[f]
  BY <1>1, <1>2, <1>3 DEF BytesStored, NoPacket
<1>7. ASSUME held'[f] = held[f], queue[f] # <<>>, queue'[f] = Tail(queue[f])
      PROVE  BytesStored(f)' = BytesStored(f) - Head(queue[f])
  BY <1>1, <1>3, <1>5, <1>7 DEF BytesStored
<1>8. ASSUME held[f] = NoPacket, held'[f] = Head(queue[f]), queue[f] # <<>>,
             queue'[f] = Tail(queue[f])
      PROVE  BytesStored(f)' = BytesStored(f)
  BY <1>1, <1>3, <1>5, <1>8 DEF BytesStored, NoPacket
<1> QED
  BY <1>1, <1>2, <1>4, <1>6, <1>7, <1>8 DEF BytesStored

\* Nothing is wedged outside DRRDrop, nor while the fat flow holds no packet.
LEMMA NotWedged ==
  ASSUME TypeOK
  PROVE  /\ pc # "overlimit" => ~Wedged
         /\ \A f \in Flows : IsFattest(f) /\ held[f] = NoPacket => ~Wedged
BY FattestIsUnique DEF Wedged

\* DoEnqueue counts the packet with the child, or not at all.
LEMMA EnqueueKeepsCounters ==
  ASSUME IsFiniteSet(Flows), CountersInv, TypeOK, TypeOK',
         NEW f \in Flows, NEW size \in Sizes, Enqueue(f, size)
  PROVE  CountersInv'
<1>1. pc = "idle" /\ held' = held /\ ~Wedged /\ size \in Int
  BY NotWedged, SizesAssumption DEF Enqueue
<1>2. CASE ChildAccepts(f, size)
  <2>1. TotalsMatch'
    <3>1. /\ childPackets' = [childPackets EXCEPT ![f] = @ + 1]
          /\ childBytes' = [childBytes EXCEPT ![f] = @ + size]
          /\ nPackets' = nPackets + 1 /\ nBytes' = nBytes + size
      BY <1>2 DEF ChildAccepts
    <3>2. TotalsMatch /\ 1 \in Int
      BY DEF CountersInv
    <3> QED
      BY <1>1, <3>1, <3>2, CountedTogether
  <2>2. /\ queue'[f] = Append(queue[f], size) /\ childBytes'[f] = childBytes[f] + size
        /\ \A g \in Flows : g # f => queue'[g] = queue[g] /\ childBytes'[g] = childBytes[g]
    BY <1>2 DEF ChildAccepts, TypeOK
  <2>3. BytesStored(f)' = BytesStored(f) + size
    BY <1>1, <2>2, BytesMove
  <2>4. \A g \in Flows : BytesCountedOrWedged(g)'
    BY <1>1, <2>2, <2>3, OneFlowChanges
  <2> QED
    BY <2>1, <2>4 DEF CountersInv
<1>3. CASE ChildRefuses(f, size)
  <2>1. queue' = queue /\ childPackets' = childPackets /\ childBytes' = childBytes /\ total' = total
    BY <1>3 DEF ChildRefuses
  <2>2. \A g \in Flows : childBytes[g] = BytesStored(g)
    BY <1>1 DEF CountersInv, BytesCountedOrWedged
  <2> QED
    BY <1>1, <2>1, <2>2 DEF CountersInv, TotalsMatch, BytesCountedOrWedged, BytesStored, total
<1> QED
  BY <1>2, <1>3 DEF Enqueue

\* DRRDrop counts the packet with the child, unless the child holds another: then
\* it stays at this flow.
LEMMA DropHeadKeepsCounters ==
  ASSUME IsFiniteSet(Flows), CountersInv, Structure, TypeOK', NEW f \in Flows, DropHead(f)
  PROVE  CountersInv'
<1>1. /\ TypeOK /\ pc = "overlimit" /\ IsFattest(f) /\ queue[f] # <<>> /\ held' = held
      /\ queue'[f] = Tail(queue[f]) /\ Head(queue[f]) \in Int
      /\ \A g \in Flows : g # f => queue'[g] = queue[g]
      /\ nBytes > Limit /\ classes' = classes
  BY TailStaysTyped DEF DropHead, Structure, TypeOK, LimitInv
<1>2. CASE held[f] = NoPacket
  <2>1. TotalsMatch' /\ childBytes' = [childBytes EXCEPT ![f] = @ - Head(queue[f])]
    BY <1>1, <1>2, DequeuedTogether DEF DropHead, CountersInv
  <2>2. /\ childBytes'[f] = childBytes[f] + -Head(queue[f]) /\ -Head(queue[f]) \in Int
        /\ \A g \in Flows : g # f => childBytes'[g] = childBytes[g]
    <3>1. /\ childBytes'[f] = childBytes[f] - Head(queue[f]) /\ childBytes[f] \in Int
          /\ \A g \in Flows : g # f => childBytes'[g] = childBytes[g]
      BY <1>1, <2>1 DEF TypeOK
    <3> QED
      BY <1>1, <3>1
  <2>3. BytesStored(f)' = BytesStored(f) + -Head(queue[f])
    <3>1. BytesStored(f)' = BytesStored(f) - Head(queue[f]) /\ BytesStored(f) \in Nat
      BY <1>1, BytesMove
    <3> QED
      BY <1>1, <3>1
  <2>4. ~Wedged
    BY <1>1, <1>2, NotWedged
  <2>5. \A g \in Flows : BytesCountedOrWedged(g)'
    BY <1>1, <2>2, <2>3, <2>4, OneFlowChanges
  <2> QED
    BY <2>1, <2>5 DEF CountersInv
<1>3. CASE held[f] # NoPacket
  <2>1. /\ childPackets' = childPackets /\ childBytes' = childBytes
        /\ nPackets' = nPackets /\ nBytes' = nBytes /\ pc' = "overlimit"
    BY <1>1, <1>3 DEF DropHead, total, AfterEnqueue
  <2>2. IsFattest(f)' /\ BytesCountedOrWedged(f)'
    BY <1>1, <1>3, <2>1 DEF IsFattest, BytesCountedOrWedged
  <2>3. ASSUME NEW g \in Flows, g # f PROVE BytesCountedOrWedged(g)'
    <3>1. ~IsFattest(g)
      BY <1>1, <2>3, FattestIsUnique
    <3>2. childBytes[g] = BytesStored(g)
      BY <1>1, <3>1 DEF CountersInv, BytesCountedOrWedged
    <3> QED
      BY <1>1, <2>1, <2>3, <3>2 DEF BytesCountedOrWedged, BytesStored
  <2> QED
    BY <2>1, <2>2, <2>3 DEF CountersInv, TotalsMatch
<1> QED
  BY <1>2, <1>3

\* A visit of DoDequeue counts what it drops and what it sends.
LEMMA VisitKeepsCounters ==
  ASSUME IsFiniteSet(Flows), CountersInv, TypeOK, TypeOK', NEW f \in Flows,
         CoDelDrop(f) \/ Serve(f) \/ Defer(f)
  PROVE  CountersInv'
<1>1. ~Wedged /\ pc # "fault"
  BY NotWedged DEF CoDelDrop, Serve, Defer, Visiting
<1>2. CASE CoDelDrop(f)
  <2>1. Head(queue[f]) \in Int /\ queue[f] # <<>> /\ PacketDequeued(f, Head(queue[f]))
    BY <1>2, TailStaysTyped DEF CoDelDrop
  <2>2. TotalsMatch' /\ childBytes' = [childBytes EXCEPT ![f] = @ - Head(queue[f])]
    BY <2>1, DequeuedTogether DEF CountersInv
  <2>3. /\ queue'[f] = Tail(queue[f]) /\ held' = held
        /\ childBytes'[f] = childBytes[f] + -Head(queue[f]) /\ -Head(queue[f]) \in Int
        /\ \A g \in Flows : g # f => queue'[g] = queue[g] /\ childBytes'[g] = childBytes[g]
    BY <1>2, <2>1, <2>2 DEF CoDelDrop, TypeOK
  <2>4. BytesStored(f)' = BytesStored(f) + -Head(queue[f])
    <3>1. BytesStored(f)' = BytesStored(f) - Head(queue[f]) /\ BytesStored(f) \in Nat
      BY <2>1, <2>3, BytesMove
    <3> QED
      BY <2>1, <3>1
  <2>5. \A g \in Flows : BytesCountedOrWedged(g)'
    BY <1>1, <2>3, <2>4, OneFlowChanges
  <2> QED
    BY <2>2, <2>5 DEF CountersInv
<1>3. CASE Serve(f)
  <2>1. /\ Peek(f) \in Int /\ Peek(f) # NoPacket /\ PacketDequeued(f, Peek(f))
        /\ held[f] = NoPacket => queue[f] # <<>> /\ Peek(f) = Head(queue[f])
        /\ held[f] # NoPacket => Peek(f) = held[f]
    <3>1. Peek(f) # NoPacket /\ PacketDequeued(f, Peek(f))
      BY <1>3 DEF Serve
    <3>2. Peek(f) \in Int /\ (held[f] = NoPacket => queue[f] # <<>> /\ Peek(f) = Head(queue[f]))
      BY <3>1, PeekIsAPacket, SizesAreNaturals
    <3> QED
      BY <3>1, <3>2 DEF Peek
  <2>2. TotalsMatch' /\ childBytes' = [childBytes EXCEPT ![f] = @ - Peek(f)]
    BY <2>1, DequeuedTogether DEF CountersInv
  <2>3. /\ childBytes'[f] = childBytes[f] + -Peek(f) /\ -Peek(f) \in Int
        /\ \A g \in Flows : g # f => /\ queue'[g] = queue[g] /\ held'[g] = held[g]
                                     /\ childBytes'[g] = childBytes[g]
    <3>1. /\ childBytes'[f] = childBytes[f] - Peek(f) /\ childBytes[f] \in Int
          /\ \A g \in Flows : g # f => childBytes'[g] = childBytes[g]
      BY <2>1, <2>2 DEF TypeOK
    <3>2. \A g \in Flows : g # f => queue'[g] = queue[g] /\ held'[g] = held[g]
      BY <1>3 DEF Serve, TypeOK
    <3> QED
      BY <2>1, <3>1, <3>2
  <2>4. BytesStored(f)' = BytesStored(f) - Peek(f) /\ BytesStored(f) \in Nat
    <3>1. CASE held[f] = NoPacket
      <4>1. queue'[f] = Tail(queue[f]) /\ held'[f] = held[f]
        BY <1>3, <3>1 DEF Serve, TypeOK
      <4> QED
        BY <2>1, <3>1, <4>1, BytesMove
    <3>2. CASE held[f] # NoPacket
      <4>1. queue'[f] = queue[f] /\ held'[f] = NoPacket
        BY <1>3, <3>2 DEF Serve, TypeOK
      <4> QED
        BY <2>1, <3>2, <4>1, BytesMove
    <3> QED
      BY <3>1, <3>2
  <2>5. BytesStored(f)' = BytesStored(f) + -Peek(f)
    BY <2>1, <2>4
  <2>6. \A g \in Flows : BytesCountedOrWedged(g)'
    BY <1>1, <2>3, <2>5, OneFlowChanges
  <2> QED
    BY <2>2, <2>6 DEF CountersInv
<1>4. CASE Defer(f)
  <2>1. /\ Peek(f) # NoPacket
        /\ held[f] = NoPacket => queue[f] # <<>> /\ Peek(f) = Head(queue[f])
        /\ held[f] # NoPacket => Peek(f) = held[f]
    BY <1>4, PeekIsAPacket DEF Defer, Peek
  <2>2. /\ held'[f] = Peek(f) /\ childBytes' = childBytes /\ childPackets' = childPackets
        /\ nPackets' = nPackets /\ nBytes' = nBytes
        /\ queue'[f] = IF held[f] = NoPacket THEN Tail(queue[f]) ELSE queue[f]
        /\ \A g \in Flows : g # f => queue'[g] = queue[g] /\ held'[g] = held[g]
    BY <1>4 DEF Defer, TypeOK, total
  <2>3. BytesStored(f)' = BytesStored(f)
    <3>1. CASE held[f] = NoPacket
      BY <2>1, <2>2, <3>1, BytesMove
    <3>2. CASE held[f] # NoPacket
      BY <2>1, <2>2, <3>2 DEF BytesStored
    <3> QED
      BY <3>1, <3>2
  <2>4. /\ BytesStored(f)' = BytesStored(f) + 0 /\ childBytes'[f] = childBytes[f] + 0
    <3>1. BytesStored(f) \in Nat /\ childBytes[f] \in Int
      BY BytesMove DEF TypeOK
    <3> QED
      BY <2>2, <2>3, <3>1
  <2>5. \A g \in Flows : BytesCountedOrWedged(g)'
    <3>1. 0 \in Int /\ \A g \in Flows : g # f => /\ queue'[g] = queue[g] /\ held'[g] = held[g]
                                                 /\ childBytes'[g] = childBytes[g]
      BY <2>2
    <3> QED
      BY <1>1, <2>4, <3>1, OneFlowChanges
  <2> QED
    BY <2>2, <2>5 DEF CountersInv, TotalsMatch
<1> QED
  BY <1>2, <1>3, <1>4

\* The counters stay so, at every step.
LEMMA CountersAreInvariant ==
  ASSUME IsFiniteSet(Flows)
  PROVE  Spec => []CountersInv
<1>1. Init => CountersInv
  <2> SUFFICES ASSUME Init PROVE CountersInv
    OBVIOUS
  <2>1. TotalsMatch
    <3>1. Sum([f \in Flows |-> 0]) = 0
      BY SumOfZeros, Zenon DEF Sum
    <3> QED
      BY <3>1 DEF Init, TotalsMatch
  <2>2. Bytes(<<>>) = 0
    BY SumOfEmpty DEF Bytes
  <2> QED
    BY <2>1, <2>2 DEF Init, CountersInv, BytesCountedOrWedged, BytesStored, NoPacket
<1>2. CountersInv /\ Structure /\ TypeOK' /\ [Next]_vars => CountersInv'
  <2> SUFFICES ASSUME CountersInv, Structure, TypeOK', [Next]_vars
               PROVE CountersInv'
    OBVIOUS
  <2>1. TypeOK
    BY DEF Structure
  <2>2. ASSUME UNCHANGED <<child, total>>, pc' = "fault"
        PROVE CountersInv'
    BY <2>2 DEF CountersInv, TotalsMatch, child, total
  <2>3. ASSUME UNCHANGED <<classes, child, total, pc>>
        PROVE CountersInv'
    BY <2>3 DEF CountersInv, TotalsMatch, BytesCountedOrWedged, BytesStored, IsFattest,
                child, total
  <2>4. ASSUME NEW f \in Flows, DropNull(f) \/ PeekNull(f)
        PROVE CountersInv'
    BY <2>2, <2>4 DEF DropNull, PeekNull
  <2>5. ASSUME \/ \E q \in Quanta : SetQuantum(q)
               \/ UNCHANGED vars
        PROVE CountersInv'
    BY <2>3, <2>5 DEF SetQuantum, vars
  <2> QED
    BY <2>1, <2>4, <2>5, EnqueueKeepsCounters, DropHeadKeepsCounters, VisitKeepsCounters
       DEF Next, DRRDrop, Visit
<1> QED
  BY <1>1, <1>2, StructureInvariant, TypeCorrect, PTL DEF Spec

\* Between two calls, and between two visits of DoDequeue, every counter is the
\* number and the bytes of the packets that are really stored, through all the
\* connected traces of DRR and its children.
THEOREM CountersAreExact ==
  ASSUME IsFiniteSet(Flows)
  PROVE  Spec => []CountersExact
<1>1. Structure /\ CountersInv => CountersExact
  <2> SUFFICES ASSUME Structure, CountersInv, pc \in {"idle", "dequeue"}
               PROVE /\ \A f \in Flows : /\ childPackets[f] = Len(Stored(f))
                                         /\ childBytes[f] = Bytes(Stored(f))
                     /\ TotalsMatch
    BY Zenon DEF CountersExact, TotalsMatch, Sum
  <2>1. TypeOK
    BY DEF Structure
  <2>2. ASSUME NEW f \in Flows
        PROVE childPackets[f] = Len(Stored(f)) /\ childBytes[f] = Bytes(Stored(f))
    BY <2>1, StoredLength, StoredBytes
       DEF Structure, CountedOrWedged, CountersInv, BytesCountedOrWedged
  <2> QED
    BY <2>2 DEF CountersInv
<1> QED
  BY <1>1, StructureInvariant, CountersAreInvariant, PTL
-----------------------------------------------------------------------------
(***************************************************************************)
(* DRR implements RoundRobin, safety part, as long as DRRDrop meets no held *)
(* packet and the limit has room for one largest packet of every listed     *)
(* flow.  Without the first a drop takes a packet from behind the held one, *)
(* without the second a flow may lose its only packet and stay listed.      *)
(***************************************************************************)

\* The queues of RoundRobin that the refinement mapping computes.
Fifo == [f \in Flows |-> Stored(f)]

\* A flow of the list has been created and has a packet, and no call crashed.
ServiceInv ==
  /\ pc # "fault"
  /\ \A f \in Flows : status[f] = "ACTIVE" => f \in ToSet(classes) /\ Stored(f) # <<>>

\* The limit has room for a packet of M bytes of every listed flow.
RoomFor(M) == M * Cardinality(ToSet(flowList)) <= Limit

\* No packet is larger than M, and an empty child takes one of them.
FitsAll(M) == /\ M \in Nat /\ M <= ChildMaxSize
              /\ \A size \in Sizes : size <= M

\* The packets of child f: the queue, behind the held one.
LEMMA StoredPackets ==
  ASSUME TypeOK, NEW f \in Flows
  PROVE  /\ Stored(f) \in Seq(Sizes)
         /\ held[f] = NoPacket => Stored(f) = queue[f]
         /\ held[f] # NoPacket => /\ Stored(f) = <<held[f]>> \o queue[f] /\ Stored(f) # <<>>
                                  /\ Head(Stored(f)) = held[f] /\ Tail(Stored(f)) = queue[f]
         /\ Stored(f) = <<>> <=> Peek(f) = NoPacket
<1>1. queue[f] \in Seq(Sizes) /\ held[f] \in Sizes \cup {NoPacket}
  BY DEF TypeOK
<1>2. CASE held[f] = NoPacket
  <2>1. Stored(f) = queue[f]
    BY <1>1, <1>2, ConcatEmptySeq DEF Stored
  <2>2. queue[f] # <<>> => Head(queue[f]) \in Sizes
    BY <1>1, HeadTailProperties
  <2>3. queue[f] # <<>> => Head(queue[f]) # NoPacket
    BY <2>2, SizesAreNaturals DEF NoPacket
  <2> QED
    BY <1>1, <1>2, <2>1, <2>3 DEF Peek
<1>3. CASE held[f] # NoPacket
  <2>1. Stored(f) = <<held[f]>> \o queue[f] /\ held[f] \in Sizes
    BY <1>1, <1>3 DEF Stored
  <2>2. \A x \in Sizes, q \in Seq(Sizes) :
          /\ <<x>> \o q \in Seq(Sizes) /\ <<x>> \o q # <<>>
          /\ Head(<<x>> \o q) = x /\ Tail(<<x>> \o q) = q
    OBVIOUS
  <2>3. Stored(f) \in Seq(Sizes) /\ Stored(f) # <<>>
        /\ Head(Stored(f)) = held[f] /\ Tail(Stored(f)) = queue[f]
    BY <1>1, <2>1, <2>2
  <2> QED
    BY <1>3, <2>1, <2>3 DEF Peek
<1> QED
  BY <1>2, <1>3

\* The packets of the other children stay.
LEMMA FifoUpdate ==
  ASSUME NEW f \in Flows, NEW q, Stored(f)' = q,
         \A g \in Flows : g # f => queue'[g] = queue[g] /\ held'[g] = held[g]
  PROVE  Fifo' = [Fifo EXCEPT ![f] = q]
<1>1. \A g \in Flows : g # f => Stored(g)' = Stored(g)
  BY DEF Stored
<1>2. \A g \in Flows : Stored(g)' = IF g = f THEN q ELSE Stored(g)
  BY <1>1
<1> QED
  BY <1>2, Zenon DEF Fifo

\* The fat flow has two packets: with one in each listed flow, and none in the
\* others, the limit would not be exceeded.
LEMMA FatFlowHasTwo ==
  ASSUME IsFiniteSet(Flows), Structure, CountersInv, ServiceInv, ~Wedged, NEW M, FitsAll(M),
         RoomFor(M), pc = "overlimit", NEW f \in Flows, IsFattest(f)
  PROVE  held[f] = NoPacket /\ Stored(f) = queue[f] /\ Len(queue[f]) > 1
<1> DEFINE A == ToSet(flowList)
<1>1. TypeOK /\ held[f] = NoPacket /\ nBytes > Limit /\ pc # "fault"
  BY DEF Structure, Wedged, LimitInv
<1>2. \A g \in Flows : childBytes[g] = BytesStored(g)
  BY DEF CountersInv, BytesCountedOrWedged, Wedged
<1>3. \A g \in Flows : g \in A <=> status[g] = "ACTIVE"
  BY <1>1 DEF Structure
<1>4. A \in SUBSET Flows
  BY <1>1, ElementOfSeq, LenProperties DEF ToSet, TypeOK
<1>5. childBytes \in [Flows -> Int] /\ nBytes \in Int /\ Limit \in Int /\ M \in Nat
  BY <1>1, LimitsAssumption DEF TypeOK, FitsAll
<1>6. childBytes[f] > M
  <2> SUFFICES ASSUME childBytes[f] <= M PROVE FALSE
    BY <1>5
  <2>1. ASSUME NEW g \in A PROVE childBytes[g] <= M
    <3>1. g \in Flows /\ g \in ToSet(classes)
      BY <1>3, <1>4, <2>1 DEF ServiceInv
    <3>2. childBytes[g] <= childBytes[f]
      BY <1>5, <3>1 DEF IsFattest, ToSet
    <3> QED
      BY <1>5, <3>1, <3>2
  <2>2. ASSUME NEW g \in Flows \ A PROVE childBytes[g] = 0
    <3>1. status[g] = "INACTIVE"
      BY <1>1, <1>3, <2>2 DEF TypeOK
    <3>2. queue[g] = <<>> /\ held[g] = 0
      BY <3>1 DEF Structure, InactiveIsReset, NoPacket
    <3>3. Bytes(<<>>) = 0
      BY SumOfEmpty DEF Bytes
    <3>4. childBytes[g] = held[g] + Bytes(queue[g])
      BY <1>2, <2>2 DEF BytesStored
    <3> QED
      BY <3>2, <3>3, <3>4
  <2> HIDE DEF A
  <2>3. FoldFunction(+, 0, childBytes) <= M * Cardinality(A)
    BY <1>4, <1>5, <2>1, <2>2, SumIsBounded
  <2>4. Sum(childBytes) <= M * Cardinality(A)
    BY <2>3, Zenon DEF Sum
  <2>5. nBytes = Sum(childBytes)
    BY DEF CountersInv, TotalsMatch
  <2>6. M * Cardinality(A) <= Limit
    BY DEF A, RoomFor
  <2>7. M * Cardinality(A) \in Int
    <3>1. IsFiniteSet(A)
      BY <1>4, FS_Subset
    <3>2. Cardinality(A) \in Int
      BY <3>1, FS_CardinalityType
    <3>3. \A m, n \in Int : m * n \in Int
      OBVIOUS
    <3> QED
      BY <1>5, <3>2, <3>3
  <2> QED
    BY <1>1, <1>5, <2>4, <2>5, <2>6, <2>7
<1>7. queue[f] \in Seq(Sizes) /\ Bytes(queue[f]) > M
  <2>1. queue[f] \in Seq(Sizes)
    BY <1>1 DEF TypeOK
  <2>2. childBytes[f] = 0 + Bytes(queue[f]) /\ Bytes(queue[f]) \in Nat
    BY <1>1, <1>2, <2>1, BytesOfQueue DEF BytesStored, NoPacket
  <2> QED
    BY <1>6, <2>1, <2>2
<1>8. Bytes(<<>>) = 0
  BY SumOfEmpty DEF Bytes
<1>9. queue[f] # <<>>
  BY <1>5, <1>7, <1>8
<1>10. /\ Head(queue[f]) \in Sizes /\ Tail(queue[f]) \in Seq(Sizes)
       /\ Len(Tail(queue[f])) = Len(queue[f]) - 1 /\ Len(queue[f]) \in Nat \ {0}
  BY <1>7, <1>9, HeadTailProperties, LenProperties, EmptySeq
<1>11. Len(queue[f]) # 1
  <2> SUFFICES ASSUME Len(queue[f]) = 1 PROVE FALSE
    OBVIOUS
  <2>1. Tail(queue[f]) = <<>>
    <3>1. Len(Tail(queue[f])) = 0
      BY <1>10
    <3> QED
      BY <1>10, <3>1, EmptySeq
  <2>2. Bytes(queue[f]) = Head(queue[f]) + 0
    BY <1>7, <1>8, <1>9, <2>1, BytesOfQueue
  <2>3. Head(queue[f]) \in Nat /\ Head(queue[f]) <= M
    BY <1>10, SizesAreNaturals DEF FitsAll
  <2> QED
    BY <1>5, <1>7, <2>2, <2>3
<1>12. Stored(f) = queue[f]
  BY <1>1, StoredPackets
<1>13. Len(queue[f]) > 1
  <2>1. Len(queue[f]) \in Nat /\ Len(queue[f]) # 0
    BY <1>10
  <2>2. \A n \in Nat : n # 0 /\ n # 1 => n > 1
    OBVIOUS
  <2> QED
    BY <1>11, <2>1, <2>2, Zenon
<1> QED
  BY <1>1, <1>12, <1>13

\* DoEnqueue is an arrival, or the child's refusal of a packet for a flow that has
\* others.
LEMMA EnqueueIsArrival ==
  ASSUME Structure, CountersInv, ServiceInv, TypeOK', NEW M, FitsAll(M),
         NEW f \in Flows, NEW size \in Sizes, Enqueue(f, size)
  PROVE  ServiceInv' /\ [RR!Next]_RR!vars
<1>1. /\ TypeOK /\ pc = "idle" /\ pc' # "fault" /\ held' = held
      /\ status' = [status EXCEPT ![f] = "ACTIVE"] /\ flowList' = Activated(f)
      /\ classes' = IF f \in ToSet(classes) THEN classes ELSE Append(classes, f)
  BY DEF Structure, Enqueue, AfterEnqueue
<1>2. \A g \in Flows : childBytes[g] = BytesStored(g)
  BY <1>1 DEF CountersInv, BytesCountedOrWedged
<1>3. \A g \in Flows : Stored(g) # <<>> <=> status[g] = "ACTIVE"
  <2>1. ASSUME NEW g \in Flows, status[g] = "INACTIVE" PROVE Stored(g) = <<>>
    <3>1. queue[g] = <<>> /\ held[g] = NoPacket
      BY <2>1 DEF Structure, InactiveIsReset
    <3> QED
      BY <1>1, <3>1, StoredPackets
  <2> QED
    BY <1>1, <2>1 DEF TypeOK, ServiceInv
<1>4. f \in ToSet(classes') /\ \A g \in Flows : g \in ToSet(classes) => g \in ToSet(classes')
  <2>1. classes \in Seq(Flows)
    BY <1>1 DEF TypeOK
  <2>2. /\ Len(classes) \in Nat /\ DOMAIN classes = 1..Len(classes)
        /\ DOMAIN Append(classes, f) = 1..Len(classes) + 1
        /\ \A i \in 1..Len(classes) : Append(classes, f)[i] = classes[i]
        /\ Append(classes, f)[Len(classes) + 1] = f
    BY <2>1, AppendProperties, LenProperties
  <2> QED
    BY <1>1, <2>2 DEF ToSet
<1>5. CASE ChildAccepts(f, size)
  <2>1. /\ queue'[f] = Append(queue[f], size)
        /\ \A g \in Flows : g # f => queue'[g] = queue[g] /\ held'[g] = held[g]
    BY <1>1, <1>5 DEF ChildAccepts, TypeOK
  <2>2. Stored(f)' = Append(Stored(f), size)
    <3>1. queue[f] \in Seq(Sizes) /\ held[f] \in Sizes \cup {NoPacket}
      BY <1>1 DEF TypeOK
    <3>2. \A x \in Sizes, q \in Seq(Sizes) : <<x>> \o Append(q, size) = Append(<<x>> \o q, size)
      OBVIOUS
    <3>3. Append(queue[f], size) \in Seq(Sizes)
      BY <3>1, AppendProperties
    <3>4. CASE held[f] = NoPacket
      BY <1>1, <2>1, <3>1, <3>3, <3>4, ConcatEmptySeq DEF Stored
    <3>5. CASE held[f] # NoPacket
      BY <1>1, <2>1, <3>1, <3>2, <3>5 DEF Stored
    <3> QED
      BY <3>4, <3>5
  <2>3. Stored(f)' # <<>>
    BY <1>1, <2>2, StoredPackets, AppendProperties
  <2>4. Fifo' = [Fifo EXCEPT ![f] = Append(Fifo[f], size)]
    BY <2>1, <2>2, FifoUpdate DEF Fifo
  <2>5. RR!Arrive(f, size)
    <3>1. flowList' = IF Fifo[f] = <<>> THEN Append(flowList, f) ELSE flowList
      BY <1>1, <1>3 DEF Activated, Fifo, TypeOK
    <3> QED
      BY <2>4, <3>1 DEF RR!Arrive, Fifo
  <2>6. \A g \in Flows : g # f => Stored(g)' = Stored(g) /\ status'[g] = status[g]
    BY <1>1, <2>1 DEF Stored, TypeOK
  <2>7. ServiceInv'
    BY <1>1, <1>4, <2>3, <2>6 DEF ServiceInv
  <2> QED
    BY <2>5, <2>7 DEF RR!Next
<1>6. CASE ChildRefuses(f, size)
  <2>1. status[f] = "ACTIVE"
    <3> SUFFICES ASSUME status[f] = "INACTIVE" PROVE FALSE
      BY <1>1 DEF TypeOK
    <3>1. queue[f] = <<>> /\ held[f] = 0
      BY DEF Structure, InactiveIsReset, NoPacket
    <3>2. Bytes(<<>>) = 0
      BY SumOfEmpty DEF Bytes
    <3>3. childBytes[f] = held[f] + Bytes(queue[f])
      BY <1>2 DEF BytesStored
    <3>4. childBytes[f] = 0
      BY <3>1, <3>2, <3>3
    <3>5. 0 + size > ChildMaxSize
      BY <1>6, <3>4 DEF ChildRefuses
    <3>6. size \in Nat /\ size <= M /\ M <= ChildMaxSize /\ M \in Nat /\ ChildMaxSize \in Nat
      BY SizesAreNaturals, LimitsAssumption DEF FitsAll
    <3> QED
      BY <3>5, <3>6
  <2>2. /\ status' = status /\ flowList' = flowList /\ queue' = queue
    BY <1>1, <1>6, <2>1 DEF ChildRefuses, Activated, TypeOK
  <2>3. \A g \in Flows : Stored(g)' = Stored(g)
    BY <1>1, <2>2 DEF Stored
  <2>4. ServiceInv'
    BY <1>1, <1>4, <2>2, <2>3 DEF ServiceInv
  <2>5. UNCHANGED RR!vars
    BY <2>2, <2>3 DEF RR!vars
  <2> QED
    BY <2>4, <2>5
<1> QED
  BY <1>5, <1>6 DEF Enqueue

\* A drop, by DRRDrop or by CoDel, is a loss of the oldest of several packets.
LEMMA DropIsLoss ==
  ASSUME TypeOK, TypeOK', ServiceInv, NEW f \in Flows, held[f] = NoPacket, Len(queue[f]) > 1,
         queue' = [queue EXCEPT ![f] = Tail(@)],
         UNCHANGED <<classes, flowList, status, held>>, pc' # "fault"
  PROVE  ServiceInv' /\ [RR!Next]_RR!vars
<1>1. queue[f] \in Seq(Sizes) /\ queue[f] # <<>> /\ Stored(f) = queue[f]
  <2>1. Len(<<>>) = 0
    OBVIOUS
  <2>2. queue[f] \in Seq(Sizes) /\ queue[f] # <<>>
    BY <2>1 DEF TypeOK
  <2> QED
    BY <2>2, StoredPackets
<1>2. /\ queue'[f] = Tail(queue[f])
      /\ \A g \in Flows : g # f => queue'[g] = queue[g] /\ held'[g] = held[g]
  BY DEF TypeOK
<1>3. Stored(f)' = Tail(queue[f])
  BY <1>1, <1>2, ConcatEmptySeq, HeadTailProperties DEF Stored
<1>4. Tail(queue[f]) # <<>>
  <2>1. Len(Tail(queue[f])) = Len(queue[f]) - 1 /\ Len(queue[f]) \in Nat
    BY <1>1, HeadTailProperties, LenProperties
  <2>2. \A n \in Nat : n > 1 => n - 1 # 0
    OBVIOUS
  <2>3. Len(Tail(queue[f])) # 0
    BY <2>1, <2>2, Zenon
  <2>4. Len(<<>>) = 0
    OBVIOUS
  <2> QED
    BY <2>3, <2>4, Zenon
<1>5. Fifo' = [Fifo EXCEPT ![f] = Tail(Fifo[f])] /\ Len(Fifo[f]) > 1
  BY <1>1, <1>2, <1>3, FifoUpdate DEF Fifo
<1>6. RR!Lose(f)
  BY <1>5 DEF RR!Lose, Fifo
<1>7. \A g \in Flows : g # f => Stored(g)' = Stored(g)
  BY <1>2 DEF Stored
<1>8. ServiceInv'
  BY <1>3, <1>4, <1>7 DEF ServiceInv
<1> QED
  BY <1>6, <1>8 DEF RR!Next

\* A visit that sends a packet sends the oldest, and takes the flow's turn.
LEMMA ServeIsSend ==
  ASSUME Structure, TypeOK', ServiceInv, NEW f \in Flows, Serve(f)
  PROVE  ServiceInv' /\ [RR!Next]_RR!vars
<1>1. /\ TypeOK /\ pc \in {"idle", "dequeue"} /\ pc' = "idle" /\ classes' = classes
      /\ flowList # <<>> /\ f = Head(flowList) /\ Peek(f) # NoPacket
  BY DEF Structure, Serve, Visiting
<1>2. /\ Stored(f) \in Seq(Sizes) /\ Stored(f) # <<>>
      /\ held[f] = NoPacket => queue[f] # <<>> /\ Stored(f) = queue[f]
      /\ held[f] # NoPacket => Tail(Stored(f)) = queue[f]
  BY <1>1, StoredPackets, PeekIsAPacket
<1>3. Stored(f)' = queue'[f] /\ queue'[f] = Tail(Stored(f))
  <2>1. held'[f] = NoPacket
    BY DEF Serve, Structure, TypeOK
  <2>2. queue'[f] \in Seq(Sizes)
    BY DEF TypeOK
  <2>3. Stored(f)' = queue'[f]
    BY <2>1, <2>2, ConcatEmptySeq DEF Stored
  <2>4. queue'[f] = Tail(Stored(f))
    BY <1>1, <1>2 DEF Serve, TypeOK
  <2> QED
    BY <2>3, <2>4
<1>4. \A g \in Flows : g # f => /\ queue'[g] = queue[g] /\ held'[g] = held[g]
                                /\ status'[g] = status[g]
  BY <1>1 DEF Serve, TypeOK
<1>5. Fifo' = [Fifo EXCEPT ![f] = Tail(Fifo[f])] /\ Fifo[f] # <<>>
  BY <1>2, <1>3, <1>4, FifoUpdate DEF Fifo
<1>6. childPackets[f] = Len(Stored(f)) /\ childPackets'[f] = childPackets[f] - 1
  BY <1>1, StoredLength DEF Structure, CountedOrWedged, Serve, PacketDequeued, TypeOK
<1>7. Len(Stored(f)) \in Nat
  BY <1>2, LenProperties
<1>8. Emptied(f) <=> Len(Stored(f)) = 1
  BY <1>6, <1>7 DEF Emptied
<1>9. RR!Send(f)
  <2>1. flowList' = IF Len(Fifo[f]) = 1 THEN Tail(flowList) ELSE Append(Tail(flowList), f)
    BY <1>8 DEF Serve, Rotated, Fifo
  <2> QED
    BY <1>1, <1>5, <2>1 DEF RR!Send, Fifo
<1>10. status'[f] = "ACTIVE" => Stored(f)' # <<>> /\ f \in ToSet(classes')
  <2>1. status[f] = "ACTIVE"
    BY VisitedIsActive DEF Serve
  <2>2. status'[f] = IF Emptied(f) THEN "INACTIVE" ELSE status[f]
    BY <1>1 DEF Serve, TypeOK
  <2>3. Len(Tail(Stored(f))) = Len(Stored(f)) - 1
    BY <1>2, HeadTailProperties
  <2>4. Len(Stored(f)) # 1 => Tail(Stored(f)) # <<>>
    <3>1. Len(Stored(f)) # 1 => Len(Tail(Stored(f))) # 0
      BY <1>7, <2>3
    <3> QED
      BY <3>1, EmptySeq
  <2> QED
    BY <1>1, <1>3, <1>8, <2>1, <2>2, <2>4 DEF ServiceInv
<1>11. \A g \in Flows : g # f => Stored(g)' = Stored(g)
  BY <1>4 DEF Stored
<1>12. ServiceInv'
  BY <1>1, <1>4, <1>10, <1>11 DEF ServiceInv
<1> QED
  BY <1>9, <1>12 DEF RR!Next

\* A visit that sends nothing passes the turn on and keeps the packets in order.
LEMMA DeferIsPass ==
  ASSUME Structure, TypeOK', ServiceInv, NEW f \in Flows, Defer(f)
  PROVE  ServiceInv' /\ [RR!Next]_RR!vars
<1>1. /\ TypeOK /\ pc' = "dequeue" /\ classes' = classes /\ status' = status
      /\ flowList # <<>> /\ f = Head(flowList) /\ Peek(f) # NoPacket
      /\ flowList' = Append(Tail(flowList), f)
  BY DEF Structure, Defer, Visiting, Rotated
<1>2. /\ Stored(f) \in Seq(Sizes) /\ Stored(f) # <<>>
      /\ held[f] = NoPacket => /\ queue[f] # <<>> /\ Stored(f) = queue[f]
                               /\ Peek(f) = Head(queue[f])
  BY <1>1, StoredPackets, PeekIsAPacket
<1>3. /\ held'[f] = Peek(f)
      /\ queue'[f] = IF held[f] = NoPacket THEN Tail(queue[f]) ELSE queue[f]
      /\ \A g \in Flows : g # f => queue'[g] = queue[g] /\ held'[g] = held[g]
  BY <1>1 DEF Defer, TypeOK
<1>4. Stored(f)' = Stored(f)
  <2>1. CASE held[f] = NoPacket
    <3>1. queue[f] \in Seq(Sizes)
      BY <1>1 DEF TypeOK
    <3>2. <<Head(queue[f])>> \o Tail(queue[f]) = queue[f]
      BY <1>2, <2>1, <3>1
    <3> QED
      BY <1>1, <1>2, <1>3, <2>1, <3>2 DEF Stored
  <2>2. CASE held[f] # NoPacket
    BY <1>3, <2>2 DEF Stored, Peek
  <2> QED
    BY <2>1, <2>2
<1>5. \A g \in Flows : Stored(g)' = Stored(g)
  BY <1>3, <1>4 DEF Stored
<1>6. ServiceInv'
  BY <1>1, <1>5 DEF ServiceInv
<1>7. [g \in Flows |-> Stored(g)]' = [g \in Flows |-> Stored(g)]
  BY <1>5
<1>8. RR!Pass(f)
  BY <1>1, <1>2, <1>7 DEF RR!Pass
<1> QED
  BY <1>6, <1>8 DEF RR!Next

\* With room for a largest packet of every listed flow, with at least a byte left
\* behind what CoDel drops, and with no held packet met by DRRDrop, no call crashes
\* and every step is one of a round robin scheduler over the packets stored, or no
\* step of it at all.
THEOREM ServesRoundRobin ==
  ASSUME IsFiniteSet(Flows), NEW M, FitsAll(M), MinBytes > 0
  PROVE  Spec /\ []~Wedged /\ []RoomFor(M) => RR!Spec
<1>1. Init => ServiceInv /\ RR!Init
  <2> SUFFICES ASSUME Init PROVE ServiceInv /\ RR!Init
    OBVIOUS
  <2>1. \A f \in Flows : Stored(f) = <<>>
    BY ConcatEmptySeq DEF Init, Stored
  <2> QED
    BY <2>1 DEF Init, ServiceInv, RR!Init
<1>2. /\ Structure /\ CountersInv /\ ServiceInv /\ TypeOK' /\ ~Wedged /\ RoomFor(M) /\ [Next]_vars
      => ServiceInv' /\ [RR!Next]_RR!vars
  <2> SUFFICES ASSUME Structure, CountersInv, ServiceInv, TypeOK', ~Wedged, RoomFor(M), [Next]_vars
               PROVE ServiceInv' /\ [RR!Next]_RR!vars
    OBVIOUS
  <2>1. TypeOK
    BY DEF Structure
  <2>2. ASSUME NEW f \in Flows, NEW size \in Sizes, Enqueue(f, size)
        PROVE ServiceInv' /\ [RR!Next]_RR!vars
    BY <2>2, EnqueueIsArrival
  <2>3. ASSUME NEW f \in Flows, DropHead(f)
        PROVE ServiceInv' /\ [RR!Next]_RR!vars
    <3>1. held[f] = NoPacket /\ Len(queue[f]) > 1
      BY <2>3, FatFlowHasTwo DEF DropHead
    <3>2. /\ queue' = [queue EXCEPT ![f] = Tail(@)] /\ pc' # "fault"
          /\ UNCHANGED <<classes, flowList, status, held>>
      BY <2>3 DEF DropHead, AfterEnqueue
    <3> QED
      BY <2>1, <3>1, <3>2, DropIsLoss
  <2>4. ASSUME NEW f \in Flows, DropNull(f)
        PROVE FALSE
    <3>1. queue[f] = <<>> /\ Len(queue[f]) > 1
      BY <2>4, FatFlowHasTwo DEF DropNull
    <3>2. Len(<<>>) = 0
      OBVIOUS
    <3> QED
      BY <3>1, <3>2
  <2>5. ASSUME NEW f \in Flows, CoDelDrop(f)
        PROVE ServiceInv' /\ [RR!Next]_RR!vars
    <3>1. /\ held[f] = NoPacket /\ queue[f] # <<>> /\ Bytes(Tail(queue[f])) >= MinBytes
          /\ queue' = [queue EXCEPT ![f] = Tail(@)] /\ pc' # "fault"
          /\ UNCHANGED <<classes, flowList, status, held>>
      BY <2>5 DEF CoDelDrop
    <3>2. queue[f] \in Seq(Sizes)
      BY <2>1 DEF TypeOK
    <3>3. /\ Tail(queue[f]) \in Seq(Sizes) /\ Len(queue[f]) \in Nat
          /\ Len(Tail(queue[f])) = Len(queue[f]) - 1
      BY <3>1, <3>2, HeadTailProperties, LenProperties
    <3>4. Tail(queue[f]) # <<>>
      <4>1. Bytes(<<>>) = 0
        BY SumOfEmpty DEF Bytes
      <4>2. Bytes(Tail(queue[f])) >= MinBytes
        BY <3>1
      <4>3. ~(0 >= MinBytes)
        <5>1. MinBytes \in Nat
          BY LimitsAssumption
        <5> QED
          BY <5>1
      <4> QED
        BY <4>1, <4>2, <4>3, Zenon
    <3>5. Len(Tail(queue[f])) # 0
      BY <3>3, <3>4, EmptySeq
    <3>6. Len(Tail(queue[f])) \in Nat
      BY <3>3, LenProperties
    <3>7. Len(queue[f]) > 1
      <4>1. Len(queue[f]) \in Nat /\ Len(Tail(queue[f])) = Len(queue[f]) - 1
        BY <3>3
      <4>2. \A m, n \in Nat : m # 0 /\ m = n - 1 => n > 1
        OBVIOUS
      <4> QED
        BY <3>5, <3>6, <4>1, <4>2, Zenon
    <3> QED
      BY <2>1, <3>1, <3>7, DropIsLoss
  <2>6. ASSUME NEW f \in Flows, Serve(f) \/ Defer(f)
        PROVE ServiceInv' /\ [RR!Next]_RR!vars
    BY <2>6, ServeIsSend, DeferIsPass
  <2>7. ASSUME NEW f \in Flows, PeekNull(f)
        PROVE FALSE
    <3>1. Visiting(f) /\ Peek(f) = NoPacket
      BY <2>7 DEF PeekNull
    <3>2. status[f] = "ACTIVE"
      BY <3>1, VisitedIsActive
    <3> QED
      BY <2>1, <3>1, <3>2, StoredPackets DEF ServiceInv
  <2>8. ASSUME \/ \E q \in Quanta : SetQuantum(q)
               \/ UNCHANGED vars
        PROVE ServiceInv' /\ [RR!Next]_RR!vars
    <3>1. UNCHANGED <<classes, flowList, status, queue, held, pc>>
      BY <2>8 DEF SetQuantum, vars, child
    <3>2. \A g \in Flows : Stored(g)' = Stored(g)
      BY <3>1 DEF Stored
    <3>3. UNCHANGED RR!vars
      BY <3>1, <3>2 DEF RR!vars
    <3> QED
      BY <3>1, <3>2, <3>3 DEF ServiceInv
  <2> QED
    BY <2>2, <2>3, <2>4, <2>5, <2>6, <2>7, <2>8 DEF Next, DRRDrop, Visit
<1> QED
  BY <1>1, <1>2, StructureInvariant, CountersAreInvariant, TypeCorrect, PTL DEF Spec, RR!Spec

\* Quanta no smaller than a packet keep DRRDrop from held packets, as long as no
\* deficit wraps.
COROLLARY LargeQuantaServeRoundRobin ==
  ASSUME IsFiniteSet(Flows), NEW M, FitsAll(M), MinBytes > 0,
         \A q \in Quanta, s \in Sizes : s <= q
  PROVE  Spec /\ [](\A f \in Flows : deficit[f] + quantum < Word) /\ []RoomFor(M) => RR!Spec
<1>1. TypeOK /\ NothingHeld => ~Wedged
  BY DEF NothingHeld, Wedged, IsFattest, TypeOK
<1> QED
  BY <1>1, NothingIsHeldWithoutWrap, ServesRoundRobin, TypeCorrect, PTL
-----------------------------------------------------------------------------
(***************************************************************************)
(* Two flows share the bytes.  What one is ahead of the other is what the   *)
(* quanta they were given differ by, which their order on m_flowList says,  *)
(* up to what each had saved at first and has saved now.                    *)
(***************************************************************************)

\* Flow f may be n bytes ahead of g when the list is L, the deficits are d and the
\* quantum is q: the flow behind on the list has had one turn more than at the
\* start of the comparison, or else the one in front one less; either may have
\* started with a deficit.
MayLead(n, f, g, L, d, q) ==
  \E base \in {0, -q}, a, b \in 0..Max(Sizes) - 1 :
    n = base + (IF Precedes(L, g, f) THEN q ELSE 0) + (a - d[f]) - (b - d[g])

Comparable(f, g) == f # g /\ status[f] = "ACTIVE" /\ status[g] = "ACTIVE"

LeadsMatch ==
  \A f, g \in Flows : IF Comparable(f, g)
                      THEN MayLead(ahead[f][g], f, g, flowList, deficit, quantum)
                      ELSE ahead[f][g] = 0

\* The inductive invariant behind BytesFair.
FairInv ==
  /\ ahead \in [Flows -> [Flows -> Int]]
  /\ pc # "fault" => LeadsMatch
  /\ pc = "fault" => BytesFair

\* Sizes are finitely many, and one quantum is given, no larger than any of them: with a
\* larger one a turn is one packet whatever its size, and BytesFair does not hold.
FixedSmallQuantum ==
  /\ IsFiniteSet(Sizes)
  /\ \A q \in Quanta, s \in Sizes : q <= s
  /\ \A p, q \in Quanta : p = q

\* The bounds are those of Cap.
LEMMA LargestSizes ==
  ASSUME FixedSmallQuantum, TypeOK
  PROVE  /\ Max(Sizes) \in Sizes /\ Max(Sizes) \in Nat \ {0}
         /\ \A s \in Sizes : s <= Max(Sizes)
         /\ quantum \in Nat /\ Cap = 2 + 2 * Max(Sizes) + quantum
<1>1. Sizes \in SUBSET Int /\ IsFiniteSet(Sizes) /\ Sizes # {}
  BY SizesAssumption DEF FixedSmallQuantum
<1>2. Max(Sizes) \in Sizes /\ \A s \in Sizes : Max(Sizes) >= s
  BY <1>1, MaxIsGreatest
<1>3. quantum \in Quanta /\ quantum \in Nat /\ \A q \in Quanta : q = quantum
  BY QuantaAssumption DEF TypeOK, FixedSmallQuantum
<1>4. Quanta = {quantum}
  BY <1>3
<1>5. Max(Quanta) = quantum
  BY <1>3, <1>4 DEF Max
<1> QED
  BY <1>2, <1>3, <1>5, SizesAssumption DEF Cap

\* Deficits short of a largest packet keep the lead within the bound, both ways.
LEMMA LeadsAreBounded ==
  ASSUME FixedSmallQuantum, TypeOK, NEW d \in [Flows -> Nat],
         \A f \in Flows : d[f] < Max(Sizes),
         NEW f \in Flows, NEW g \in Flows, NEW L, NEW n, MayLead(n, f, g, L, d, quantum)
  PROVE  /\ n \in Int
         /\ n <= quantum + 2 * (Max(Sizes) - 1)
         /\ -(quantum + 2 * (Max(Sizes) - 1)) <= n
<1>1. Max(Sizes) \in Nat \ {0} /\ quantum \in Nat
  BY LargestSizes
<1> DEFINE m == Max(Sizes) - 1
           turn == IF Precedes(L, g, f) THEN quantum ELSE 0
<1>2. PICK base \in {0, -quantum}, a, b \in 0..Max(Sizes) - 1 :
        n = base + turn + (a - d[f]) - (b - d[g])
  BY DEF MayLead
<1>3. m \in Nat /\ d[f] \in 0..m /\ d[g] \in 0..m /\ a \in 0..m /\ b \in 0..m
  BY <1>1, <1>2
<1>4. turn \in {0, quantum}
  OBVIOUS
<1>5. base + turn \in Int /\ base + turn <= quantum /\ -quantum <= base + turn
  BY <1>1, <1>2, <1>4
<1>6. /\ (a - d[f]) - (b - d[g]) \in Int
      /\ (a - d[f]) - (b - d[g]) <= 2 * m
      /\ -(2 * m) <= (a - d[f]) - (b - d[g])
  BY <1>3
<1> HIDE DEF turn
<1>7. n = (base + turn) + ((a - d[f]) - (b - d[g]))
  BY <1>1, <1>2, <1>3, <1>4
<1> QED
  BY <1>1, <1>3, <1>5, <1>6, <1>7

\* So the cap is never reached.
LEMMA CapIsNotReached ==
  ASSUME FixedSmallQuantum, TypeOK, NEW n \in Int,
         n <= quantum + 2 * (Max(Sizes) - 1), -(quantum + 2 * (Max(Sizes) - 1)) <= n
  PROVE  Capped(n) = n
<1>1. Max(Sizes) \in Nat /\ quantum \in Nat /\ Cap = 2 + 2 * Max(Sizes) + quantum
  BY LargestSizes
<1>2. Cap \in Int /\ n <= Cap /\ -Cap \in Int /\ -Cap <= n
  BY <1>1
<1>3. Min({n, Cap}) = n
  <2>1. {n, Cap} = {Cap, n}
    OBVIOUS
  <2> QED
    BY <1>2, <2>1, OfTwoIntegers
<1>4. Max({-Cap, n}) = n
  BY <1>2, OfTwoIntegers
<1> QED
  BY <1>3, <1>4 DEF Capped

\* Deficits are naturals, short of a largest packet if each is short of some packet.
LEMMA DeficitsAreShort ==
  ASSUME FixedSmallQuantum, TypeOK, NEW d \in [Flows -> 0..Word - 1],
         \A f \in Flows : \E s \in Sizes : d[f] < s
  PROVE  /\ d \in [Flows -> Nat]
         /\ \A f \in Flows : d[f] < Max(Sizes)
<1>1. d \in [Flows -> Nat]
  BY WordAssumption
<1>2. ASSUME NEW f \in Flows PROVE d[f] < Max(Sizes)
  <2>1. PICK s \in Sizes : d[f] < s
    OBVIOUS
  <2>2. s <= Max(Sizes) /\ Max(Sizes) \in Nat
    BY LargestSizes
  <2> QED
    BY <1>1, <2>1, <2>2, SizesAssumption
<1> QED
  BY <1>1, <1>2

\* The invariant's comparisons give BytesFair.
LEMMA LeadsAreFair ==
  ASSUME FixedSmallQuantum, TypeOK, DeficitBound, pc # "fault", LeadsMatch
  PROVE  BytesFair
<1> SUFFICES ASSUME NEW f \in Flows, NEW g \in Flows
             PROVE  ahead[f][g] <= quantum + 2 * (Max(Sizes) - 1)
  BY LargestSizes DEF BytesFair
<1>1. CASE Comparable(f, g)
  <2>1. MayLead(ahead[f][g], f, g, flowList, deficit, quantum)
    BY <1>1 DEF LeadsMatch
  <2>2. deficit \in [Flows -> Nat] /\ \A h \in Flows : deficit[h] < Max(Sizes)
    <3>1. /\ deficit \in [Flows -> 0..Word - 1]
          /\ \A h \in Flows : \E s \in Sizes : deficit[h] < s
      BY DEF TypeOK, DeficitBound
    <3> QED
      BY <3>1, DeficitsAreShort
  <2> QED
    BY <2>1, <2>2, LeadsAreBounded
<1>2. CASE ~Comparable(f, g)
  <2>1. ahead[f][g] = 0
    BY <1>2 DEF LeadsMatch
  <2>2. Max(Sizes) \in Nat \ {0} /\ quantum \in Nat
    BY LargestSizes
  <2> QED
    BY <2>1, <2>2
<1> QED
  BY <1>1, <1>2

\* A visit gives its flow a quantum and a turn, and takes what is sent.
LEMMA VisitsKeepLeads ==
  ASSUME FixedSmallQuantum, TypeOK, NoDuplicates, flowList # <<>>,
         NEW sent \in Nat, NEW d \in [Flows -> Int],
         d = [deficit EXCEPT ![Head(flowList)] = @ + quantum - sent],
         NEW f \in ToSet(flowList), NEW g \in ToSet(flowList), f # g,
         NEW n \in Int, MayLead(n, f, g, flowList, deficit, quantum)
  PROVE  MayLead(n + (IF f = Head(flowList) THEN sent ELSE 0)
                   - (IF g = Head(flowList) THEN sent ELSE 0),
                 f, g, Append(Tail(flowList), Head(flowList)), d, quantum)
<1> DEFINE h == Head(flowList)
           r == Append(Tail(flowList), Head(flowList))
<1>1. /\ flowList \in Seq(Flows) /\ ToSet(flowList) \subseteq Flows
      /\ deficit \in [Flows -> Int] /\ quantum \in Nat
  <2>1. deficit \in [Flows -> 0..Word - 1] /\ flowList \in Seq(Flows)
    BY DEF TypeOK
  <2>2. ToSet(flowList) \subseteq Flows
    BY <2>1, ElementOfSeq, LenProperties DEF ToSet
  <2>3. 0..Word - 1 \subseteq Int
    BY WordAssumption
  <2> QED
    BY <2>1, <2>2, <2>3, LargestSizes
<1>2. /\ \A x, y : x # h /\ y # h => (Precedes(r, x, y) <=> Precedes(flowList, x, y))
      /\ \A y \in ToSet(flowList) : y # h => Precedes(r, y, h) /\ ~Precedes(r, h, y)
  BY <1>1, RotatePrecedes DEF NoDuplicates
<1>3. \A y \in ToSet(flowList) : y # h =>
        Precedes(flowList, h, y) /\ ~Precedes(flowList, y, h)
  BY <1>1, HeadPrecedes DEF NoDuplicates
<1>4. PICK base \in {0, -quantum}, a, b \in 0..Max(Sizes) - 1 :
        n = base + (IF Precedes(flowList, g, f) THEN quantum ELSE 0)
                 + (a - deficit[f]) - (b - deficit[g])
  BY DEF MayLead
<1>5. /\ deficit[f] \in Int /\ deficit[g] \in Int /\ base \in Int /\ a \in Int /\ b \in Int
      /\ f \in Flows /\ g \in Flows
  BY <1>1, <1>4, LargestSizes
<1> HIDE DEF h, r
<1>6. d[f] = (IF f = h THEN deficit[f] + quantum - sent ELSE deficit[f])
  BY <1>1, <1>5 DEF h
<1>7. d[g] = (IF g = h THEN deficit[g] + quantum - sent ELSE deficit[g])
  BY <1>1, <1>5 DEF h
<1> DEFINE lead == n + (IF f = h THEN sent ELSE 0) - (IF g = h THEN sent ELSE 0)
<1>8. lead = base + (IF Precedes(r, g, f) THEN quantum ELSE 0) + (a - d[f]) - (b - d[g])
  <2>1. CASE f = h
    <3>1. Precedes(r, g, f) /\ ~Precedes(flowList, g, f) /\ g # h
      BY <1>2, <1>3, <2>1
    <3>2. d[f] = deficit[f] + quantum - sent /\ d[g] = deficit[g] /\ lead = n + sent - 0
      BY <1>6, <1>7, <2>1, <3>1
    <3>3. n = base + 0 + (a - deficit[f]) - (b - deficit[g])
      BY <1>4, <3>1
    <3>4. lead = base + quantum + (a - d[f]) - (b - d[g])
      <4> HIDE DEF lead
      <4> DEFINE x == deficit[f]
                 y == deficit[g]
      <4>1. x \in Int /\ y \in Int /\ quantum \in Int /\ sent \in Int
        BY <1>1, <1>5
      <4>2. /\ d[f] = x + quantum - sent /\ d[g] = y
            /\ lead = n + sent - 0 /\ n = base + 0 + (a - x) - (b - y)
        BY <3>2, <3>3
      <4> HIDE DEF x, y
      <4> QED
        BY <1>5, <4>1, <4>2
    <3> QED
      BY <3>1, <3>4
  <2>2. CASE g = h
    <3>1. ~Precedes(r, g, f) /\ Precedes(flowList, g, f) /\ f # h
      BY <1>2, <1>3, <2>2
    <3>2. d[g] = deficit[g] + quantum - sent /\ d[f] = deficit[f] /\ lead = n + 0 - sent
      BY <1>6, <1>7, <2>2, <3>1
    <3>3. n = base + quantum + (a - deficit[f]) - (b - deficit[g])
      BY <1>4, <3>1
    <3>4. lead = base + 0 + (a - d[f]) - (b - d[g])
      <4> HIDE DEF lead
      <4> DEFINE x == deficit[f]
                 y == deficit[g]
      <4>1. x \in Int /\ y \in Int /\ quantum \in Int /\ sent \in Int
        BY <1>1, <1>5
      <4>2. /\ d[f] = x /\ d[g] = y + quantum - sent
            /\ lead = n + 0 - sent /\ n = base + quantum + (a - x) - (b - y)
        BY <3>2, <3>3
      <4> HIDE DEF x, y
      <4>3. base \in Int /\ a \in Int /\ b \in Int
        BY <1>5
      <4>4. lead = base + (a - x) - (b - (y + quantum - sent))
        BY <4>1, <4>2, <4>3
      <4> QED
        BY <4>1, <4>2, <4>3, <4>4
    <3> QED
      BY <3>1, <3>4
  <2>3. CASE f # h /\ g # h
    <3>1. Precedes(r, g, f) <=> Precedes(flowList, g, f)
      BY <1>2, <2>3
    <3> QED
      BY <1>1, <1>4, <1>5, <1>6, <1>7, <2>3, <3>1
  <2> QED
    BY <2>1, <2>2, <2>3
<1>9. MayLead(lead, f, g, r, d, quantum)
  <2> HIDE DEF lead
  <2> QED
    BY <1>4, <1>8 DEF MayLead
<1> QED
  BY <1>9 DEF lead, h, r

\* Before a crash the flows that are compared are those on m_flowList.
LEMMA ComparedAreListed ==
  ASSUME TypeOK, ListedIffActive, pc # "fault"
  PROVE  \A f \in Flows : status[f] = "ACTIVE" <=> f \in ToSet(flowList)
BY DEF ListedIffActive

\* A packet is sent: the flow gains its bytes, and pays for them.
LEMMA ServingKeepsLeads ==
  ASSUME FixedSmallQuantum, TypeOK, TypeOK', DeficitBound, DeficitBound', NoDuplicates,
         ListedIffActive, FairInv, NEW h \in Flows, FairServe(h)
  PROVE  FairInv'
<1>1. /\ pc # "fault" /\ pc' = "idle" /\ flowList # <<>> /\ h = Head(flowList)
      /\ quantum' = quantum /\ ahead' = Gain(h, Peek(h)) /\ Serve(h)
  BY DEF FairServe, Serve, Visiting
<1>2. /\ LeadsMatch /\ ahead \in [Flows -> [Flows -> Int]]
      /\ \A f \in Flows : status[f] = "ACTIVE" <=> f \in ToSet(flowList)
  BY <1>1, ComparedAreListed DEF FairInv
<1>3. /\ deficit' \in [Flows -> Nat] /\ deficit' \in [Flows -> Int]
      /\ \A f \in Flows : deficit'[f] < Max(Sizes)
  <2>1. /\ deficit' \in [Flows -> 0..Word - 1]
        /\ \A f \in Flows : \E s \in Sizes : deficit'[f] < s
    BY <1>1 DEF TypeOK, DeficitBound
  <2>2. deficit' \in [Flows -> Nat] /\ \A f \in Flows : deficit'[f] < Max(Sizes)
    BY <2>1, DeficitsAreShort
  <2> QED
    BY <2>2
<1>4. Peek(h) \in Sizes /\ Peek(h) \in Nat /\ Credit(h) = deficit[h] + quantum
  BY <1>1, PeekIsAPacket, SmallQuantaDoNotWrap, SizesAssumption DEF Serve, FixedSmallQuantum
<1> DEFINE Lead(f, g) == ahead[f][g] + (IF f = h THEN Peek(h) ELSE 0)
                                     - (IF g = h THEN Peek(h) ELSE 0)
           Both(f, g) == /\ f # g
                         /\ \A x \in {f, g} : status[x] = "ACTIVE" /\ status'[x] = "ACTIVE"
<1>5. \A f, g \in Flows : Lead(f, g) \in Int
  BY <1>2, <1>4
<1>6. ASSUME NEW f \in Flows, NEW g \in Flows, Both(f, g)
      PROVE  MayLead(Lead(f, g), f, g, flowList', deficit', quantum)
  <2>1. /\ f # g /\ f \in ToSet(flowList) /\ g \in ToSet(flowList)
        /\ MayLead(ahead[f][g], f, g, flowList, deficit, quantum)
        /\ ahead[f][g] \in Int
    BY <1>2, <1>6 DEF LeadsMatch, Comparable
  <2>2. CASE Emptied(h)
    <3>1. /\ flowList' = Tail(flowList) /\ status'[h] = "INACTIVE"
          /\ \A x \in Flows : x # h => deficit'[x] = deficit[x]
      BY <1>1, <2>2 DEF Serve, TypeOK
    <3>2. f # h /\ g # h
      BY <1>6, <3>1
    <3>3. Precedes(flowList', g, f) <=> Precedes(flowList, g, f)
      BY <1>1, <3>1, <3>2, TailPrecedes DEF TypeOK
    <3>4. Lead(f, g) = ahead[f][g]
      BY <2>1, <3>2
    <3> QED
      BY <2>1, <3>1, <3>2, <3>3, <3>4 DEF MayLead
  <2>3. CASE ~Emptied(h)
    <3>1. /\ flowList' = Append(Tail(flowList), Head(flowList))
          /\ deficit' = [deficit EXCEPT ![Head(flowList)] = @ + quantum - Peek(h)]
      <4>1. /\ flowList' = Append(Tail(flowList), h)
            /\ deficit' = [deficit EXCEPT ![h] = Credit(h) - Peek(h)]
        BY <1>1, <2>3 DEF Serve, Rotated
      <4>2. h = Head(flowList)
        BY <1>1
      <4>3. Credit(h) - Peek(h) = deficit[h] + quantum - Peek(h)
        <5>1. deficit[h] \in Int /\ quantum \in Int
          <6>1. deficit[h] \in 0..Word - 1
            BY DEF TypeOK
          <6>2. quantum \in Nat
            BY LargestSizes
          <6> QED
            BY <6>1, <6>2, WordAssumption
        <5> QED
          BY <1>4, <5>1
      <4> QED
        BY <4>1, <4>2, <4>3
    <3> HIDE DEF Lead, Both
    <3>2. flowList # <<>> /\ Peek(h) \in Nat /\ deficit' \in [Flows -> Int]
      BY <1>1, <1>3, <1>4
    <3>3. MayLead(ahead[f][g] + (IF f = Head(flowList) THEN Peek(h) ELSE 0)
                              - (IF g = Head(flowList) THEN Peek(h) ELSE 0),
                  f, g, Append(Tail(flowList), Head(flowList)), deficit', quantum)
      BY <2>1, <3>1, <3>2, VisitsKeepLeads
    <3> QED
      BY <1>1, <3>1, <3>3 DEF Lead
  <2> QED
    BY <2>2, <2>3
<1>7. ASSUME NEW f \in Flows, NEW g \in Flows, Both(f, g)
      PROVE  Capped(Lead(f, g)) = Lead(f, g)
  <2> HIDE DEF Lead, Both
  <2>1. /\ Lead(f, g) \in Int
        /\ Lead(f, g) <= quantum + 2 * (Max(Sizes) - 1)
        /\ -(quantum + 2 * (Max(Sizes) - 1)) <= Lead(f, g)
    BY <1>3, <1>6, <1>7, LeadsAreBounded
  <2> QED
    BY <2>1, CapIsNotReached
<1>8. \A f, g \in Flows : ahead'[f][g] = IF Both(f, g) THEN Lead(f, g) ELSE 0
  BY <1>1, <1>7 DEF Gain
<1>9. ahead' \in [Flows -> [Flows -> Int]]
  <2>1. ahead' = [f \in Flows |-> [g \in Flows |->
                     IF Both(f, g) THEN Capped(Lead(f, g)) ELSE 0]]
    BY <1>1 DEF Gain
  <2> HIDE DEF Both, Lead
  <2> QED
    BY <1>5, <1>7, <2>1
<1>10. \A f \in Flows : status'[f] = "ACTIVE" => status[f] = "ACTIVE"
  BY <1>1 DEF Serve, TypeOK
<1>11. \A f, g \in Flows : Comparable(f, g)' <=> Both(f, g)
  BY <1>10 DEF Comparable
<1>12. LeadsMatch'
  <2> HIDE DEF Both, Lead
  <2> QED
    BY <1>1, <1>6, <1>8, <1>11 DEF LeadsMatch
<1> QED
  BY <1>1, <1>9, <1>12 DEF FairInv

\* No packet is sent: the flow keeps the quantum.
LEMMA DeferringKeepsLeads ==
  ASSUME FixedSmallQuantum, TypeOK, TypeOK', DeficitBound, NoDuplicates,
         ListedIffActive, FairInv, NEW h \in Flows, Defer(h), UNCHANGED ahead
  PROVE  FairInv'
<1>1. /\ pc # "fault" /\ pc' = "dequeue" /\ flowList # <<>> /\ h = Head(flowList)
      /\ quantum' = quantum /\ status' = status
  BY DEF Defer, Visiting
<1>2. /\ LeadsMatch /\ ahead \in [Flows -> [Flows -> Int]]
      /\ \A f \in Flows : status[f] = "ACTIVE" <=> f \in ToSet(flowList)
  BY <1>1, ComparedAreListed DEF FairInv
<1>3. Credit(h) = deficit[h] + quantum
  BY <1>1, SmallQuantaDoNotWrap DEF FixedSmallQuantum
<1>4. deficit[h] \in Nat /\ quantum \in Nat /\ 0..Word - 1 \subseteq Int
  BY WordAssumption, LargestSizes DEF TypeOK
<1>5. /\ flowList' = Append(Tail(flowList), Head(flowList))
      /\ deficit' \in [Flows -> Int]
      /\ deficit' = [deficit EXCEPT ![Head(flowList)] = @ + quantum - 0]
  <2>1. flowList' = Append(Tail(flowList), h) /\ deficit' = [deficit EXCEPT ![h] = Credit(h)]
    BY DEF Defer, Rotated
  <2>2. Credit(h) = deficit[h] + quantum - 0 /\ Credit(h) \in Int
    BY <1>3, <1>4
  <2>3. deficit' \in [Flows -> Int]
    BY <1>4 DEF TypeOK
  <2> QED
    BY <1>1, <2>1, <2>2, <2>3, Zenon
<1>6. ASSUME NEW f \in Flows, NEW g \in Flows, Comparable(f, g)
      PROVE  MayLead(ahead[f][g], f, g, flowList', deficit', quantum)
  <2>1. /\ f # g /\ f \in ToSet(flowList) /\ g \in ToSet(flowList)
        /\ MayLead(ahead[f][g], f, g, flowList, deficit, quantum)
        /\ ahead[f][g] \in Int
    BY <1>2, <1>6 DEF LeadsMatch, Comparable
  <2>2. MayLead(ahead[f][g] + (IF f = Head(flowList) THEN 0 ELSE 0)
                            - (IF g = Head(flowList) THEN 0 ELSE 0),
                f, g, Append(Tail(flowList), Head(flowList)), deficit', quantum)
    BY <1>1, <1>5, <2>1, VisitsKeepLeads
  <2>3. ahead[f][g] + (IF f = Head(flowList) THEN 0 ELSE 0)
                    - (IF g = Head(flowList) THEN 0 ELSE 0) = ahead[f][g]
    BY <2>1
  <2> QED
    BY <1>5, <2>2, <2>3
<1>7. LeadsMatch'
  BY <1>1, <1>2, <1>6 DEF LeadsMatch, Comparable
<1> QED
  BY <1>1, <1>2, <1>7 DEF FairInv

\* A flow that turns active goes to the end of the list with no deficit: nothing
\* that the other had saved has been compared yet.
LEMMA EnqueueingKeepsLeads ==
  ASSUME FixedSmallQuantum, TypeOK, DeficitBound, ListedIffActive, InactiveIsReset,
         FairInv, NEW h \in Flows, NEW size \in Sizes, Enqueue(h, size), UNCHANGED ahead
  PROVE  FairInv'
<1>1. /\ pc = "idle" /\ pc' # "fault" /\ UNCHANGED <<quantum, deficit>>
      /\ status' = [status EXCEPT ![h] = "ACTIVE"] /\ flowList' = Activated(h)
  BY DEF Enqueue, AfterEnqueue
<1>2. /\ LeadsMatch /\ ahead \in [Flows -> [Flows -> Int]]
      /\ \A f \in Flows : status[f] = "ACTIVE" <=> f \in ToSet(flowList)
  BY <1>1, ComparedAreListed DEF FairInv
<1>3. /\ deficit \in [Flows -> Nat] /\ \A f \in Flows : deficit[f] < Max(Sizes)
      /\ Max(Sizes) \in Nat \ {0} /\ quantum \in Nat
  <2>1. /\ deficit \in [Flows -> 0..Word - 1]
        /\ \A f \in Flows : \E s \in Sizes : deficit[f] < s
    BY <1>1 DEF TypeOK, DeficitBound
  <2> QED
    BY <2>1, DeficitsAreShort, LargestSizes
<1>4. CASE status[h] = "ACTIVE"
  <2>1. status' = status /\ flowList' = flowList
    BY <1>1, <1>4 DEF Activated, TypeOK
  <2>2. LeadsMatch'
    BY <1>1, <1>2, <2>1 DEF LeadsMatch, Comparable
  <2> QED
    BY <1>1, <1>2, <2>2 DEF FairInv
<1>5. CASE status[h] # "ACTIVE"
  <2>1. /\ flowList' = Append(flowList, h) /\ h \notin ToSet(flowList)
        /\ deficit[h] = 0 /\ flowList \in Seq(Flows)
        /\ \A f \in Flows : status'[f] = "ACTIVE" <=> f = h \/ status[f] = "ACTIVE"
    BY <1>1, <1>2, <1>5 DEF Activated, TypeOK, InactiveIsReset
  <2>2. /\ \A f, g : f # h /\ g # h => (Precedes(flowList', f, g) <=> Precedes(flowList, f, g))
        /\ \A f : ~Precedes(flowList', h, f)
        /\ \A f \in ToSet(flowList) : Precedes(flowList', f, h)
    BY <2>1, AppendPrecedes
  <2>3. ASSUME NEW f \in Flows, NEW g \in Flows, Comparable(f, g)'
        PROVE  MayLead(ahead[f][g], f, g, flowList', deficit, quantum)
    <3>1. CASE f # h /\ g # h
      <4>1. MayLead(ahead[f][g], f, g, flowList, deficit, quantum)
        BY <1>2, <2>1, <2>3, <3>1 DEF LeadsMatch, Comparable
      <4> QED
        BY <2>2, <3>1, <4>1 DEF MayLead
    <3>2. CASE f = h
      <4>1. ahead[f][g] = 0
        BY <1>2, <1>5, <3>2 DEF LeadsMatch, Comparable
      <4>2. Precedes(flowList', g, f) /\ deficit[f] = 0
        BY <1>2, <2>1, <2>2, <2>3, <3>2 DEF Comparable
      <4>3. /\ 0 \in 0..Max(Sizes) - 1 /\ deficit[g] \in 0..Max(Sizes) - 1
            /\ 0 = -quantum + quantum + (0 - 0) - (deficit[g] - deficit[g])
        BY <1>3
      <4>4. ahead[f][g] = -quantum + (IF Precedes(flowList', g, f) THEN quantum ELSE 0)
                            + (0 - deficit[f]) - (deficit[g] - deficit[g])
        BY <1>3, <4>1, <4>2, <4>3
      <4> QED
        BY <4>3, <4>4 DEF MayLead
    <3>3. CASE g = h
      <4>1. ahead[f][g] = 0
        BY <1>2, <1>5, <3>3 DEF LeadsMatch, Comparable
      <4>2. ~Precedes(flowList', g, f) /\ deficit[g] = 0
        BY <2>1, <2>2, <3>3
      <4>3. /\ 0 \in 0..Max(Sizes) - 1 /\ deficit[f] \in 0..Max(Sizes) - 1
            /\ 0 = 0 + 0 + (deficit[f] - deficit[f]) - (0 - 0)
        BY <1>3
      <4>4. ahead[f][g] = 0 + (IF Precedes(flowList', g, f) THEN quantum ELSE 0)
                            + (deficit[f] - deficit[f]) - (0 - deficit[g])
        BY <4>1, <4>2, <4>3
      <4> QED
        BY <4>3, <4>4 DEF MayLead
    <3> QED
      BY <3>1, <3>2, <3>3
  <2>4. ASSUME NEW f \in Flows, NEW g \in Flows, ~Comparable(f, g)'
        PROVE  ahead[f][g] = 0
    BY <1>2, <2>1, <2>4 DEF LeadsMatch, Comparable
  <2>5. LeadsMatch'
    BY <1>1, <2>3, <2>4 DEF LeadsMatch
  <2> QED
    BY <1>1, <1>2, <2>5 DEF FairInv
<1> QED
  BY <1>4, <1>5

\* With one quantum for all, no larger than a packet, two flows that stay active
\* differ by no more than a quantum and what each can save up.
THEOREM BytesAreSharedFairly ==
  ASSUME FixedSmallQuantum
  PROVE  FairHistorySpec => []BytesFair
<1>1. FairInit => FairInv
  <2> SUFFICES ASSUME FairInit PROVE FairInv
    OBVIOUS
  <2>1. /\ \A f, g \in Flows : ahead[f][g] = 0 /\ status[f] = "INACTIVE"
        /\ ahead \in [Flows -> [Flows -> Int]] /\ pc = "idle"
    BY DEF FairInit, Init
  <2> QED
    BY <2>1 DEF FairInv, LeadsMatch, Comparable
<1>2. ASSUME TypeOK, TypeOK', DeficitBound, DeficitBound', Structure, FairInv,
             [FairNext]_fairVars
      PROVE  FairInv'
  <2>1. /\ NoDuplicates /\ InactiveIsReset
        /\ ListedIffActive
    BY <1>2 DEF Structure, ListedIffActive
  <2>2. ASSUME UNCHANGED <<flowList, status, deficit, quantum, ahead>>,
               pc # "fault", pc' # "fault"
        PROVE  FairInv'
    BY <1>2, <2>2 DEF FairInv, LeadsMatch, Comparable
  <2>3. ASSUME UNCHANGED <<quantum, ahead>>, pc # "fault", pc' = "fault"
        PROVE  FairInv'
    <3>1. BytesFair
      BY <1>2, <2>3, LeadsAreFair DEF FairInv
    <3> QED
      BY <1>2, <2>3, <3>1 DEF FairInv, BytesFair
  <2>4. ASSUME NEW f \in Flows, FairServe(f) PROVE FairInv'
    BY <1>2, <2>1, <2>4, ServingKeepsLeads
  <2>5. ASSUME NEW f \in Flows, Defer(f), UNCHANGED ahead PROVE FairInv'
    BY <1>2, <2>1, <2>5, DeferringKeepsLeads
  <2>6. ASSUME NEW f \in Flows, NEW size \in Sizes, Enqueue(f, size), UNCHANGED ahead
        PROVE  FairInv'
    BY <1>2, <2>1, <2>6, EnqueueingKeepsLeads
  <2>7. ASSUME NEW f \in Flows, PeekNull(f), UNCHANGED ahead PROVE FairInv'
    BY <2>3, <2>7 DEF PeekNull, Visiting
  <2>8. ASSUME NEW f \in Flows, DropNull(f), UNCHANGED ahead PROVE FairInv'
    BY <2>3, <2>8 DEF DropNull
  <2>9. ASSUME NEW f \in Flows, DropHead(f), UNCHANGED ahead PROVE FairInv'
    BY <2>2, <2>9 DEF DropHead, AfterEnqueue
  <2>10. ASSUME NEW f \in Flows, CoDelDrop(f), UNCHANGED ahead PROVE FairInv'
    BY <2>2, <2>10 DEF CoDelDrop, Visiting
  <2>11. ASSUME NEW q \in Quanta, SetQuantum(q), UNCHANGED ahead PROVE FairInv'
    <3>1. quantum' = quantum
      BY <1>2, <2>11 DEF SetQuantum, FixedSmallQuantum, TypeOK
    <3> QED
      BY <2>2, <2>11, <3>1 DEF SetQuantum
  <2>12. CASE UNCHANGED fairVars
    BY <1>2, <2>12 DEF fairVars, vars, FairInv, LeadsMatch, Comparable, BytesFair
  <2> QED
    BY <1>2, <2>4, <2>5, <2>6, <2>7, <2>8, <2>9, <2>10, <2>11, <2>12
       DEF FairNext, FairOther, DRRDrop
<1>3. FairInit => Init
  BY DEF FairInit
<1>4. [FairNext]_fairVars => [Next]_vars
  BY DEF FairNext, FairServe, FairOther, fairVars, Next, Visit
<1>5. FairHistorySpec => Spec
  BY <1>3, <1>4, PTL DEF FairHistorySpec, Spec
<1>6. Spec => []DeficitBound
  BY DeficitIsBounded DEF FixedSmallQuantum
<1>7. FairInv /\ TypeOK /\ DeficitBound => BytesFair
  BY LeadsAreFair DEF FairInv
<1> QED
  BY <1>1, <1>2, <1>5, <1>6, <1>7, StructureInvariant, TypeCorrect, PTL DEF FairHistorySpec
=============================================================================
