---------------------------- MODULE BFDRRProofs ----------------------------
(***************************************************************************)
(* Theorems about BFDRR for every set of flows, packet sizes, quanta and    *)
(* limits.                                                                  *)
(***************************************************************************)
EXTENDS BFDRR, ListLemmas

\* The head of a flow's queue is a packet, and taking it leaves a queue.
LEMMA QueueStaysTyped ==
  ASSUME TypeOK, NEW f \in Flows
  PROVE  /\ queue[f] \in Seq(Sizes) /\ Len(queue[f]) \in Nat
         /\ queue[f] = <<>> <=> Len(queue[f]) = 0
         /\ queue[f] # <<>> => /\ Head(queue[f]) \in Sizes
                               /\ Tail(queue[f]) \in Seq(Sizes)
                               /\ Len(Tail(queue[f])) = Len(queue[f]) - 1
<1>1. queue[f] \in Seq(Sizes)
  BY DEF TypeOK
<1> QED
  BY <1>1, HeadTailProperties, LenProperties, EmptySeq

\* A deficit with a quantum added, modulo 2^32, is a deficit.
LEMMA CreditIsADeficit ==
  ASSUME TypeOK, NEW f \in Flows
  PROVE  Credit(f) \in 0..Word - 1
<1>1. deficit[f] + quantum \in Nat
  BY BFDRRAssumption DEF TypeOK
<1>2. Word \in Nat \ {0}
  BY BFDRRAssumption
<1> QED
  BY <1>1, <1>2 DEF Credit

\* A visit takes the front of m_flowList off or moves it to the end.
LEMMA FlowListStaysTyped ==
  ASSUME TypeOK, NEW f \in Flows, Visiting(f)
  PROVE  Tail(flowList) \in Seq(Flows) /\ Rotated(f) \in Seq(Flows)
<1>1. flowList \in Seq(Flows) /\ flowList # <<>>
  BY DEF TypeOK, Visiting
<1> QED
  BY <1>1, HeadTailProperties, AppendProperties DEF Rotated

\* BFDRR's fields keep their types: no step reads an empty queue, and a deficit
\* stays a uint32_t.
THEOREM BFDRRTypeCorrect == Spec => []TypeOK
<1>1. Init => TypeOK
  BY BFDRRAssumption DEF Init, TypeOK
<1>2. TypeOK /\ [Next]_vars => TypeOK'
  <2> SUFFICES ASSUME TypeOK, [Next]_vars
               PROVE TypeOK'
    OBVIOUS
  <2>1. ASSUME NEW f \in Flows, NEW size \in Sizes, NEW t \in Types, Enqueue(f, size, t)
        PROVE TypeOK'
    <3>1. type' \in [Flows -> Types \cup {"none"}]
      BY <2>1 DEF Enqueue, TypeWith, TypeOK
    <3>2. CASE Refuse(f)
      BY <2>1, <3>1, <3>2 DEF Enqueue, Refuse, TypeOK
    <3>3. CASE Store(f, size)
      <4>1. Append(queue[f], size) \in Seq(Sizes)
        BY QueueStaysTyped, AppendProperties
      <4>2. queue' \in [Flows -> Seq(Sizes)]
        BY <3>3, <4>1 DEF Store, TypeOK
      <4>3. flowList' \in Seq(Flows)
        BY <3>3, AppendProperties DEF Store, Activated, TypeOK
      <4>4. overflowing' \in [Flows -> 0..MaxOverflow]
        <5>1. overflowing[f] + 1 \in 0..MaxOverflow
          BY <2>1, BFDRRAssumption DEF Enqueue, TypeOK
        <5> QED
          BY <3>3, <5>1 DEF Store, TypeOK
      <4>5. status' \in [Flows -> {"INACTIVE", "ACTIVE"}]
        BY <3>3 DEF Store, TypeOK
      <4> QED
        BY <2>1, <3>1, <4>2, <4>3, <4>4, <4>5 DEF Enqueue, TypeOK
    <3> QED
      BY <2>1, <3>2, <3>3 DEF Enqueue
  <2>2. ASSUME NEW f \in Flows, Serve(f)
        PROVE TypeOK'
    <3>1. queue[f] # <<>> /\ Visiting(f)
      BY <2>2 DEF Serve
    <3>2. queue' \in [Flows -> Seq(Sizes)]
      BY <2>2, <3>1, QueueStaysTyped DEF Serve, TypeOK
    <3>3. flowList' \in Seq(Flows)
      BY <2>2, <3>1, FlowListStaysTyped DEF Serve
    <3>4. Credit(f) - Head(queue[f]) \in 0..Word - 1 /\ 0 \in 0..Word - 1
      <4>1. Head(queue[f]) \in Nat /\ Word \in Nat \ {0}
        BY <3>1, QueueStaysTyped, BFDRRAssumption
      <4>2. Credit(f) \in 0..Word - 1 /\ Credit(f) >= Head(queue[f])
        BY <2>2, CreditIsADeficit DEF Serve
      <4> QED
        BY <4>1, <4>2
    <3>5. deficit' \in [Flows -> 0..Word - 1]
      BY <2>2, <3>4 DEF Serve, TypeOK
    <3>6. status' \in [Flows -> {"INACTIVE", "ACTIVE"}]
      BY <2>2 DEF Serve, TypeOK
    <3>7. overflowing' \in [Flows -> 0..MaxOverflow]
      <4>1. 0 \in 0..MaxOverflow
        BY BFDRRAssumption
      <4> QED
        BY <2>2, <4>1 DEF Serve, Removed, TypeOK
    <3> QED
      BY <2>2, <3>2, <3>3, <3>5, <3>6, <3>7 DEF Serve, TypeOK
  <2>3. ASSUME NEW f \in Flows, Defer(f)
        PROVE TypeOK'
    <3>1. flowList' \in Seq(Flows)
      BY <2>3, FlowListStaysTyped DEF Defer
    <3>2. deficit' \in [Flows -> 0..Word - 1]
      BY <2>3, CreditIsADeficit DEF Defer, TypeOK
    <3> QED
      BY <2>3, <3>1, <3>2 DEF Defer, TypeOK
  <2>4. ASSUME NEW q \in Quanta, SetQuantum(q)
        PROVE TypeOK'
    BY <2>4 DEF SetQuantum, TypeOK
  <2>5. CASE UNCHANGED vars
    BY <2>5 DEF vars, TypeOK
  <2> QED
    BY <2>1, <2>2, <2>3, <2>4, <2>5 DEF Next, Visit
<1> QED
  BY <1>1, <1>2, PTL DEF Spec
-----------------------------------------------------------------------------
(***************************************************************************)
(* The list of flows, whatever size the flow queues were given.  DoEnqueue  *)
(* makes a flow active even if its queue refuses the packet; but a queue    *)
(* with room for a packet refuses one only while it holds another.          *)
(***************************************************************************)

\* A flow with packets is on m_flowList, and no flow is on it twice.  Until
\* DoDequeue crashes the flows on it are the ACTIVE ones; these have packets, and
\* it does not crash, unless the flow queues have no room at all.
ListInv ==
  /\ \A i, j \in DOMAIN flowList : flowList[i] = flowList[j] => i = j
  /\ \A f \in Flows : queue[f] # <<>> => f \in ToSet(flowList)
  /\ \A f \in Flows : Len(queue[f]) <= FlowMaxSize
  /\ pc # "fault" => \A f \in Flows : status[f] = "ACTIVE" <=> f \in ToSet(flowList)
  /\ FlowMaxSize > 0 =>
       pc # "fault" /\ \A f \in Flows : status[f] = "ACTIVE" => queue[f] # <<>>

\* What DoEnqueue leaves in the flow's queue, which stays within its size.
LEMMA StoreFillsQueue ==
  ASSUME TypeOK, ListInv, NEW f \in Flows, NEW size \in Sizes, Store(f, size)
  PROVE  /\ \A g \in Flows : g # f => queue'[g] = queue[g]
         /\ HasRoom(f) => /\ queue' = [queue EXCEPT ![f] = Append(@, size)]
                          /\ queue'[f] # <<>> /\ Len(queue'[f]) = Len(queue[f]) + 1
         /\ ~HasRoom(f) => queue' = queue /\ Len(queue[f]) = FlowMaxSize
         /\ Len(queue'[f]) <= FlowMaxSize
         /\ FlowMaxSize > 0 => queue'[f] # <<>>
<1>1. /\ Len(queue[f]) \in Nat /\ queue[f] \in Seq(Sizes) /\ FlowMaxSize \in Nat
      /\ queue[f] = <<>> <=> Len(queue[f]) = 0
      /\ Len(queue[f]) <= FlowMaxSize
  BY QueueStaysTyped, BFDRRAssumption DEF ListInv
<1>2. CASE HasRoom(f)
  <2>1. queue' = [queue EXCEPT ![f] = Append(@, size)]
    BY <1>2 DEF Store
  <2>2. queue'[f] = Append(queue[f], size) /\ \A g \in Flows : g # f => queue'[g] = queue[g]
    BY <2>1 DEF TypeOK
  <2>3. Len(Append(queue[f], size)) = Len(queue[f]) + 1 /\ Append(queue[f], size) # <<>>
    BY <1>1, AppendProperties
  <2> QED
    BY <1>1, <1>2, <2>1, <2>2, <2>3 DEF HasRoom
<1>3. CASE ~HasRoom(f)
  <2>1. queue' = queue
    BY <1>3 DEF Store
  <2> QED
    BY <1>1, <1>3, <2>1 DEF HasRoom
<1> QED
  BY <1>2, <1>3

\* The front of the list, and the list with it gone or moved to the end.
LEMMA VisitKeepsList ==
  ASSUME TypeOK, ListInv, NEW f \in Flows, Visiting(f)
  PROVE  /\ status[f] = "ACTIVE" /\ pc # "fault"
         /\ FlowMaxSize > 0 => queue[f] # <<>>
         /\ \A i, j \in DOMAIN Tail(flowList) :
              Tail(flowList)[i] = Tail(flowList)[j] => i = j
         /\ ToSet(Tail(flowList)) = ToSet(flowList) \ {f}
         /\ \A i, j \in DOMAIN Rotated(f) : Rotated(f)[i] = Rotated(f)[j] => i = j
         /\ ToSet(Rotated(f)) = ToSet(flowList)
<1>1. flowList \in Seq(Flows) /\ flowList # <<>> /\ f = Head(flowList) /\ pc # "fault"
  BY DEF TypeOK, Visiting
<1>2. \A i, j \in DOMAIN flowList : flowList[i] = flowList[j] => i = j
  BY DEF ListInv
<1>3. /\ \A i, j \in DOMAIN Tail(flowList) :
           Tail(flowList)[i] = Tail(flowList)[j] => i = j
      /\ ToSet(Tail(flowList)) = ToSet(flowList) \ {f}
  BY <1>1, <1>2, TailKeepsDistinct
<1>4. /\ \A i, j \in DOMAIN Rotated(f) : Rotated(f)[i] = Rotated(f)[j] => i = j
      /\ ToSet(Rotated(f)) = ToSet(flowList)
      /\ f \in ToSet(flowList)
  BY <1>1, <1>2, RotateKeepsDistinct DEF Rotated
<1> QED
  BY <1>1, <1>3, <1>4 DEF ListInv

\* The list stays as it should be.
LEMMA ListIsInvariant == Spec => []ListInv
<1>1. Init => ListInv
  BY BFDRRAssumption, EmptySeq DEF Init, ListInv, ToSet
<1>2. ASSUME TypeOK, ListInv, [Next]_vars
      PROVE  ListInv'
  <2>1. ASSUME NEW f \in Flows, NEW size \in Sizes, NEW t \in Types, Enqueue(f, size, t)
        PROVE ListInv'
    <3>1. pc = "idle" /\ pc' = "idle"
      BY <2>1 DEF Enqueue
    <3>2. CASE Refuse(f)
      BY <1>2, <3>1, <3>2 DEF Refuse, ListInv
    <3>3. CASE Store(f, size)
      <4>1. \A g \in Flows : status'[g] = IF g = f THEN "ACTIVE" ELSE status[g]
        BY <1>2, <3>3 DEF Store, TypeOK
      <4>2. /\ \A i, j \in DOMAIN flowList' : flowList'[i] = flowList'[j] => i = j
            /\ ToSet(flowList') = ToSet(flowList) \cup {f}
        <5>1. CASE status[f] = "INACTIVE"
          <6>1. f \notin ToSet(flowList) /\ flowList \in Seq(Flows)
            BY <1>2, <3>1, <5>1 DEF ListInv, TypeOK
          <6>2. flowList' = Append(flowList, f)
            BY <3>3, <5>1 DEF Store, Activated
          <6> QED
            BY <1>2, <6>1, <6>2, AppendKeepsDistinct DEF ListInv
        <5>2. CASE status[f] # "INACTIVE"
          <6>1. status[f] = "ACTIVE" /\ flowList' = flowList
            BY <1>2, <3>3, <5>2 DEF Store, Activated, TypeOK
          <6> QED
            BY <1>2, <3>1, <6>1 DEF ListInv
        <5> QED
          BY <5>1, <5>2
      <4>3. /\ \A g \in Flows : g # f => queue'[g] = queue[g]
            /\ Len(queue'[f]) <= FlowMaxSize
            /\ FlowMaxSize > 0 => queue'[f] # <<>>
        BY <1>2, <3>3, StoreFillsQueue
      <4> QED
        BY <1>2, <3>1, <4>1, <4>2, <4>3 DEF ListInv
    <3> QED
      BY <2>1, <3>2, <3>3 DEF Enqueue
  <2>2. ASSUME NEW f \in Flows, Serve(f)
        PROVE ListInv'
    <3>1. Visiting(f) /\ pc' = "idle" /\ queue[f] # <<>>
      BY <2>2 DEF Serve
    <3>2. \A g \in Flows : queue'[g] = IF g = f THEN Tail(queue[f]) ELSE queue[g]
      BY <1>2, <2>2 DEF Serve, TypeOK
    <3>3. \A g \in Flows : Len(queue'[g]) <= FlowMaxSize
      <4>1. Len(Tail(queue[f])) = Len(queue[f]) - 1 /\ Len(queue[f]) \in Nat
        BY <1>2, <3>1, QueueStaysTyped
      <4>2. Len(Tail(queue[f])) <= FlowMaxSize
        BY <1>2, <4>1, BFDRRAssumption DEF ListInv
      <4> QED
        BY <1>2, <3>2, <4>2 DEF ListInv
    <3>4. CASE queue'[f] = <<>>
      <4>1. flowList' = Tail(flowList) /\ status' = [status EXCEPT ![f] = "INACTIVE"]
        BY <2>2, <3>4 DEF Serve
      <4>2. \A g \in Flows : status'[g] = IF g = f THEN "INACTIVE" ELSE status[g]
        BY <1>2, <4>1 DEF TypeOK
      <4> QED
        BY <1>2, <3>1, <3>2, <3>3, <3>4, <4>1, <4>2, VisitKeepsList DEF ListInv
    <3>5. CASE queue'[f] # <<>>
      <4>1. flowList' = Rotated(f) /\ status' = status
        BY <2>2, <3>5 DEF Serve
      <4> QED
        BY <1>2, <3>1, <3>2, <3>3, <3>5, <4>1, VisitKeepsList DEF ListInv
    <3> QED
      BY <3>4, <3>5
  <2>3. ASSUME NEW f \in Flows, Defer(f)
        PROVE ListInv'
    <3>1. Visiting(f) /\ status' = status /\ queue' = queue
      BY <2>3 DEF Defer
    <3>2. CASE queue[f] = <<>>
      <4>1. flowList' = Tail(flowList) /\ pc' = "fault" /\ ~(FlowMaxSize > 0)
        BY <1>2, <2>3, <3>1, <3>2, VisitKeepsList DEF Defer
      <4> QED
        BY <1>2, <3>1, <3>2, <4>1, VisitKeepsList DEF ListInv
    <3>3. CASE queue[f] # <<>>
      <4>1. flowList' = Rotated(f) /\ pc' = "dequeue"
        BY <2>3, <3>3 DEF Defer
      <4> QED
        BY <1>2, <3>1, <4>1, VisitKeepsList DEF ListInv
    <3> QED
      BY <3>2, <3>3
  <2>4. ASSUME NEW q \in Quanta, SetQuantum(q)
        PROVE ListInv'
    BY <1>2, <2>4 DEF SetQuantum, ListInv
  <2>5. CASE UNCHANGED vars
    BY <1>2, <2>5 DEF vars, ListInv
  <2> QED
    BY <1>2, <2>1, <2>2, <2>3, <2>4, <2>5 DEF Next, Visit
<1> QED
  BY <1>1, <1>2, BFDRRTypeCorrect, PTL DEF Spec

\* Every flow with packets is on m_flowList, and none twice: none is forgotten and
\* none gets two turns a round, also when its queue refuses packets that DoEnqueue
\* has accepted.
THEOREM FlowsWithPacketsAreListed ==
  Spec => [](/\ \A i, j \in DOMAIN flowList : flowList[i] = flowList[j] => i = j
             /\ \A f \in Flows : queue[f] # <<>> => f \in ToSet(flowList))
<1> DEFINE Listed ==
      /\ \A i, j \in DOMAIN flowList : flowList[i] = flowList[j] => i = j
      /\ \A f \in Flows : queue[f] # <<>> => f \in ToSet(flowList)
<1>1. ListInv => Listed
  BY DEF ListInv
<1> QED
  BY <1>1, ListIsInvariant, PTL

\* DoDequeue dereferences a null packet if and only if the flow queues have no room
\* at all: then, with the size zero that the constructor gives them, every visit of a
\* flow does; and with room for a single packet none ever does, for a queue that
\* refuses one has another to show.
THEOREM VisitsFaultJustWithoutRoom ==
  Spec => /\ FlowMaxSize = 0 => [][Visit => pc' = "fault"]_vars
          /\ FlowMaxSize > 0 => [](pc # "fault")
<1>1. ASSUME FlowMaxSize = 0
      PROVE  Spec => [][Visit => pc' = "fault"]_vars
  <2>1. TypeOK /\ ListInv /\ [Next]_vars => [Visit => pc' = "fault"]_vars
    <3> SUFFICES ASSUME TypeOK, ListInv, NEW f \in Flows, Serve(f) \/ Defer(f)
                 PROVE  pc' = "fault"
      BY DEF Visit
    <3>1. queue[f] = <<>>
      <4>1. Len(queue[f]) <= 0 /\ Len(queue[f]) \in Nat
        BY <1>1, QueueStaysTyped DEF ListInv
      <4>2. Len(queue[f]) = 0
        BY <4>1
      <4> QED
        BY <4>2, QueueStaysTyped
    <3> QED
      BY <3>1 DEF Serve, Defer
  <2> QED
    BY <2>1, BFDRRTypeCorrect, ListIsInvariant, PTL DEF Spec
<1>2. ASSUME FlowMaxSize > 0
      PROVE  Spec => [](pc # "fault")
  <2>1. ListInv => pc # "fault"
    BY <1>2 DEF ListInv
  <2> QED
    BY <2>1, ListIsInvariant, PTL
<1> QED
  BY <1>1, <1>2

\* m_overflowingBurstyFlows names exactly the flows above the soft limit, all of
\* them bursty: DoEnqueue enters a flow at each packet above it, and DoDequeue
\* takes all its entries out once it is back at the limit.  A packet that the flow's
\* queue refuses is entered too, and is one too many only where the queue is full at
\* just the soft limit.
THEOREM OverflowingFlowsAreListed ==
  ASSUME SoftLimit # FlowMaxSize
  PROVE  Spec => []OverflowingIsExact
<1>1. Init => OverflowingIsExact
  BY BFDRRAssumption DEF Init, OverflowingIsExact
<1>2. ASSUME TypeOK, ListInv, OverflowingIsExact, [Next]_vars
      PROVE  OverflowingIsExact'
  <2> USE DEF OverflowingIsExact
  <2>1. ASSUME NEW f \in Flows, NEW size \in Sizes, NEW t \in Types, Enqueue(f, size, t)
        PROVE OverflowingIsExact'
    <3>1. /\ type'[f] = TypeWith(f, t)
          /\ \A g \in Flows : g # f => type'[g] = type[g]
      BY <1>2, <2>1 DEF Enqueue, TypeOK
    <3>2. type[f] = "BURSTY" => type'[f] = "BURSTY"
      BY <3>1 DEF TypeWith
    <3>3. CASE Refuse(f)
      BY <1>2, <2>1, <3>1, <3>2, <3>3 DEF Refuse
    <3>4. CASE Store(f, size)
      <4>1. /\ HasRoom(f) => Len(queue'[f]) = Len(queue[f]) + 1
            /\ ~HasRoom(f) => queue' = queue /\ Len(queue[f]) = FlowMaxSize
            /\ \A g \in Flows : g # f => queue'[g] = queue[g]
        BY <1>2, <3>4, StoreFillsQueue
      <4>2. /\ overflowing'[f] = IF Len(queue[f]) + 1 > SoftLimit
                                 THEN overflowing[f] + 1 ELSE overflowing[f]
            /\ \A g \in Flows : g # f => overflowing'[g] = overflowing[g]
        BY <1>2, <3>4 DEF Store, OverSoftLimit, TypeOK
      <4>3. Len(queue[f]) \in Nat /\ overflowing[f] \in Nat /\ SoftLimit \in Nat
        BY <1>2, QueueStaysTyped, BFDRRAssumption DEF TypeOK
      <4>4. Len(queue[f]) + 1 > SoftLimit => type'[f] = "BURSTY"
        BY <3>4, <4>3 DEF Store, LimitOf
      <4>5. overflowing'[f] > 0 <=> Len(queue'[f]) > SoftLimit
        <5>1. CASE HasRoom(f)
          BY <1>2, <4>1, <4>2, <4>3, <5>1
        <5>2. CASE ~HasRoom(f)
          <6>1. Len(queue'[f]) = Len(queue[f]) /\ Len(queue[f]) # SoftLimit
            BY <4>1, <5>2
          <6> QED
            BY <1>2, <4>2, <4>3, <6>1
        <5> QED
          BY <5>1, <5>2
      <4>6. Len(queue'[f]) > SoftLimit => Len(queue[f]) + 1 > SoftLimit
        <5>1. CASE HasRoom(f)
          BY <4>1, <5>1
        <5>2. CASE ~HasRoom(f)
          BY <4>1, <4>3, <5>2
        <5> QED
          BY <5>1, <5>2
      <4> QED
        BY <1>2, <3>1, <4>1, <4>2, <4>4, <4>5, <4>6
    <3> QED
      BY <2>1, <3>3, <3>4 DEF Enqueue
  <2>2. ASSUME NEW f \in Flows, Serve(f)
        PROVE OverflowingIsExact'
    <3>1. /\ queue'[f] = Tail(queue[f]) /\ queue[f] # <<>> /\ type' = type
          /\ \A g \in Flows : g # f => queue'[g] = queue[g]
      BY <1>2, <2>2 DEF Serve, TypeOK
    <3>2. /\ overflowing'[f] = IF Len(queue'[f]) > SoftLimit THEN overflowing[f] ELSE 0
          /\ \A g \in Flows : g # f => overflowing'[g] = overflowing[g]
      BY <1>2, <2>2 DEF Serve, OverSoftLimit, Removed, TypeOK
    <3>3. Len(queue'[f]) = Len(queue[f]) - 1 /\ Len(queue[f]) \in Nat /\ SoftLimit \in Nat
      BY <1>2, <3>1, QueueStaysTyped, BFDRRAssumption
    <3>4. overflowing'[f] > 0 <=> Len(queue'[f]) > SoftLimit
      BY <1>2, <3>2, <3>3
    <3> QED
      BY <1>2, <3>1, <3>2, <3>3, <3>4
  <2>3. ASSUME UNCHANGED <<type, queue, overflowing>>
        PROVE OverflowingIsExact'
    BY <1>2, <2>3
  <2>4. ASSUME \/ \E f \in Flows : Defer(f)
               \/ \E q \in Quanta : SetQuantum(q)
               \/ UNCHANGED vars
        PROVE OverflowingIsExact'
    BY <2>3, <2>4 DEF Defer, SetQuantum, vars
  <2> QED
    BY <1>2, <2>1, <2>2, <2>4 DEF Next, Visit
<1> QED
  BY <1>1, <1>2, BFDRRTypeCorrect, ListIsInvariant, PTL DEF Spec

\* The safety part of ImplementsRoundRobin, for flow queues with room for a packet,
\* which the size zero of the constructor does not leave them: every step of BFDRR is
\* a step of the round robin scheduler, or changes no queue and no turn.
THEOREM StepsAreRoundRobin ==
  ASSUME FlowMaxSize > 0
  PROVE  Spec => RR!Spec
<1>1. Init => RR!Init
  BY DEF Init, RR!Init
<1>2. ASSUME TypeOK, ListInv, [Next]_vars
      PROVE  [RR!Next]_(RR!vars)
  <2> USE DEF RR!vars
  <2>1. ASSUME NEW f \in Flows, NEW size \in Sizes, NEW t \in Types, Enqueue(f, size, t)
        PROVE [RR!Next]_(RR!vars)
    <3>1. CASE Refuse(f)
      BY <3>1 DEF Refuse
    <3>2. CASE Store(f, size)
      <4>1. status[f] = "INACTIVE" <=> queue[f] = <<>>
        <5>1. pc # "fault" /\ (queue[f] # <<>> => f \in ToSet(flowList))
          BY <1>2 DEF ListInv
        <5>2. status[f] = "ACTIVE" <=> queue[f] # <<>>
          BY <1>2, <5>1 DEF ListInv
        <5> QED
          BY <1>2, <5>2 DEF TypeOK
      <4>2. CASE HasRoom(f)
        <5>1. queue' = [queue EXCEPT ![f] = Append(@, size)]
          BY <1>2, <3>2, <4>2, StoreFillsQueue
        <5>2. RR!Arrive(f, size)
          BY <3>2, <4>1, <5>1 DEF Store, Activated, RR!Arrive
        <5> QED
          BY <5>2 DEF RR!Next
      <4>3. CASE ~HasRoom(f)
        <5>1. queue' = queue /\ queue[f] # <<>>
          <6>1. queue' = queue /\ Len(queue[f]) = FlowMaxSize
            BY <1>2, <3>2, <4>3, StoreFillsQueue
          <6> QED
            BY <1>2, <6>1, QueueStaysTyped
        <5>2. flowList' = flowList
          BY <3>2, <4>1, <5>1 DEF Store, Activated
        <5> QED
          BY <5>1, <5>2
      <4> QED
        BY <4>2, <4>3
    <3> QED
      BY <2>1, <3>1, <3>2 DEF Enqueue
  <2>2. ASSUME NEW f \in Flows, Serve(f)
        PROVE [RR!Next]_(RR!vars)
    <3>1. queue'[f] = Tail(queue[f])
      BY <1>2, <2>2 DEF Serve, TypeOK
    <3>2. queue'[f] = <<>> <=> Len(queue[f]) = 1
      <4>1. Tail(queue[f]) \in Seq(Sizes) /\ Len(Tail(queue[f])) = Len(queue[f]) - 1
        BY <1>2, <2>2, QueueStaysTyped DEF Serve
      <4>2. Len(queue[f]) \in Nat
        BY <1>2, QueueStaysTyped
      <4>3. Tail(queue[f]) = <<>> <=> Len(Tail(queue[f])) = 0
        BY <4>1, EmptySeq, LenProperties
      <4> QED
        BY <3>1, <4>1, <4>2, <4>3
    <3>3. RR!Send(f)
      BY <2>2, <3>2 DEF Serve, Visiting, Rotated, RR!Send
    <3> QED
      BY <3>3 DEF RR!Next
  <2>3. ASSUME NEW f \in Flows, Defer(f)
        PROVE [RR!Next]_(RR!vars)
    <3>1. queue[f] # <<>>
      BY <1>2, <2>3, VisitKeepsList DEF Defer
    <3>2. RR!Pass(f)
      BY <2>3, <3>1 DEF Defer, Visiting, Rotated, RR!Pass
    <3> QED
      BY <3>2 DEF RR!Next
  <2>4. CASE \/ \E q \in Quanta : SetQuantum(q)
             \/ UNCHANGED vars
    BY <2>4 DEF SetQuantum, vars
  <2> QED
    BY <1>2, <2>1, <2>2, <2>3, <2>4 DEF Next, Visit
<1> QED
  BY <1>1, <1>2, BFDRRTypeCorrect, ListIsInvariant, PTL DEF Spec, RR!Spec
=============================================================================
