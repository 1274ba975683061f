----------------------------- MODULE FlowProofs -----------------------------
(***************************************************************************)
(* Theorems about FlowControl for every set of transmission queues, packet  *)
(* sizes, limits and quota, in packet and in byte mode.                     *)
(***************************************************************************)
EXTENDS FlowRefinement, ListLemmas

\* The bytes in a queue: none, one packet more at the end, one less at the front.
LEMMA BytesInQueue ==
  ASSUME NEW q \in Seq(Packets)
  PROVE  /\ BytesIn(q) \in Nat
         /\ BytesIn(<<>>) = 0
         /\ \A p \in Packets : BytesIn(Append(q, p)) = BytesIn(q) + p.size + Header
         /\ q # <<>> => BytesIn(q) = Head(q).size + Header + BytesIn(Tail(q))
<1> DEFINE Lengths(s) == [i \in DOMAIN s |-> s[i].size + Header]
<1>1. \A p \in Packets : p.size \in Nat /\ p.size + Header \in Nat
  <2>1. \A p \in Packets : p.size \in 1..Mtu
    BY FlowSizes DEF Packets
  <2>2. Mtu \in Nat /\ Header \in Nat
    BY FlowSizes
  <2> QED
    BY <2>1, <2>2
<1>2. ASSUME NEW s \in Seq(Packets)
      PROVE  /\ Lengths(s) \in Seq(Nat) /\ Lengths(s) \in Seq(Int)
             /\ Len(Lengths(s)) = Len(s)
  <2>1. /\ Len(s) \in Nat /\ DOMAIN s = 1..Len(s)
        /\ \A i \in 1..Len(s) : s[i] \in Packets
    BY LenProperties, ElementOfSeq
  <2>2. \A i \in 1..Len(s) : Lengths(s)[i] \in Nat
    BY <1>1, <2>1
  <2>3. Lengths(s) \in Seq(Nat)
    BY <2>1, <2>2, IsASeq
  <2>4. Lengths(s) \in Seq(Int)
    BY <2>1, <2>2, IsASeq
  <2>5. Len(Lengths(s)) = Len(s)
    BY <2>1, <2>3, LenProperties
  <2> QED
    BY <2>3, <2>4, <2>5
<1>3. BytesIn(q) \in Nat
  <2> HIDE DEF Lengths
  <2> QED
    BY <1>2, SumIsNatural DEF BytesIn, Lengths
<1>4. BytesIn(<<>>) = 0
  <2>1. Lengths(<<>>) = <<>>
    OBVIOUS
  <2> QED
    BY <2>1, SumOfEmpty DEF BytesIn
<1>5. ASSUME NEW p \in Packets
      PROVE  BytesIn(Append(q, p)) = BytesIn(q) + p.size + Header
  <2>1. /\ Len(q) \in Nat /\ DOMAIN q = 1..Len(q)
        /\ Append(q, p) \in Seq(Packets) /\ Len(Append(q, p)) = Len(q) + 1
        /\ DOMAIN Append(q, p) = 1..Len(q) + 1
        /\ \A i \in 1..Len(q) : Append(q, p)[i] = q[i]
        /\ Append(q, p)[Len(q) + 1] = p
    BY AppendProperties, LenProperties
  <2>2. Lengths(q) \in Seq(Int) /\ Len(Lengths(q)) = Len(q) /\ p.size + Header \in Int
    BY <1>1, <1>2
  <2>3. Append(Lengths(q), p.size + Header) = Lengths(Append(q, p))
    BY <2>1, <2>2
  <2> HIDE DEF Lengths
  <2>4. FoldSeq(+, 0, Lengths(Append(q, p))) = FoldSeq(+, 0, Lengths(q)) + (p.size + Header)
    BY <2>2, <2>3, SumOfAppend
  <2>5. BytesIn(Append(q, p)) = BytesIn(q) + (p.size + Header)
    BY <2>4, Zenon DEF BytesIn, Lengths
  <2> QED
    BY <1>1, <1>3, <2>5, FlowSizes
<1>6. ASSUME q # <<>>
      PROVE  BytesIn(q) = Head(q).size + Header + BytesIn(Tail(q))
  <2>1. /\ Len(q) \in Nat \ {0} /\ DOMAIN q = 1..Len(q)
        /\ Tail(q) \in Seq(Packets) /\ Head(q) \in Packets /\ Head(q) = q[1]
        /\ DOMAIN Tail(q) = 1..Len(q) - 1
    BY <1>6, HeadTailProperties, LenProperties, EmptySeq
  <2>2. \A i \in 1..Len(q) - 1 : Tail(q)[i] = q[i + 1]
    BY <2>1
  <2>3. Lengths(q) \in Seq(Int) /\ Len(Lengths(q)) = Len(q)
    BY <1>2
  <2>4. /\ Lengths(q) # <<>> /\ Head(Lengths(q)) = Head(q).size + Header
        /\ Tail(Lengths(q)) = Lengths(Tail(q))
    BY <2>1, <2>2, <2>3
  <2> HIDE DEF Lengths
  <2>5. FoldSeq(+, 0, Lengths(q))
          = Head(Lengths(q)) + FoldSeq(+, 0, Tail(Lengths(q)))
    BY <2>3, <2>4, SumOfTail
  <2>6. BytesIn(q) = (Head(q).size + Header) + BytesIn(Tail(q))
    BY <2>4, <2>5, Zenon DEF BytesIn, Lengths
  <2> QED
    BY <2>6
<1> QED
  BY <1>3, <1>4, <1>5, <1>6

\* A packet's fields.
LEMMA PacketFields ==
  ASSUME NEW p \in Packets
  PROVE  /\ p.txq \in TxQueues /\ p # NoPacket
         /\ p.size \in Nat \ {0} /\ p.size <= Mtu /\ Header \in Nat /\ Mtu \in Nat \ {0}
<1>1. p.txq \in TxQueues /\ p.size \in 1..Mtu /\ p # NoPacket
  BY FlowSizes DEF Packets
<1>2. Mtu \in Nat \ {0} /\ Header \in Nat
  BY FlowSizes
<1> QED
  BY <1>1, <1>2

\* The size of a queue in the unit of its MaxSize.
LEMMA SizeOfQueue ==
  ASSUME NEW q \in Seq(Packets)
  PROVE  /\ CurrentSize(q) \in Nat /\ CurrentSize(<<>>) = 0
         /\ \A p \in Packets :
              CurrentSize(Append(q, p)) = CurrentSize(q) + (IF ByteMode THEN p.size + Header ELSE 1)
         /\ q # <<>> => CurrentSize(Tail(q)) <= CurrentSize(q)
<1>1. CASE ByteMode
  <2>1. BytesIn(q) \in Nat
    BY BytesInQueue
  <2>2. ASSUME q # <<>>
        PROVE  BytesIn(Tail(q)) <= BytesIn(q)
    <3>1. Tail(q) \in Seq(Packets) /\ Head(q) \in Packets
      BY <2>2, HeadTailProperties
    <3>2. BytesIn(Tail(q)) \in Nat /\ Head(q).size \in Nat /\ Header \in Nat
      BY <3>1, BytesInQueue, PacketFields
    <3>3. BytesIn(q) = Head(q).size + Header + BytesIn(Tail(q))
      BY <2>2, BytesInQueue
    <3> QED
      BY <3>2, <3>3
  <2>3. ASSUME NEW p \in Packets
        PROVE  BytesIn(Append(q, p)) = BytesIn(q) + (p.size + Header)
    <3>1. p.size \in Nat /\ Header \in Nat
      BY PacketFields
    <3>2. BytesIn(Append(q, p)) = BytesIn(q) + p.size + Header
      BY BytesInQueue
    <3> QED
      BY <2>1, <3>1, <3>2
  <2>4. BytesIn(<<>>) = 0
    BY BytesInQueue
  <2> QED
    BY <1>1, <2>1, <2>2, <2>3, <2>4 DEF CurrentSize
<1>2. CASE ~ByteMode
  <2>1. Len(q) \in Nat /\ \A p \in Packets : Len(Append(q, p)) = Len(q) + 1
    BY LenProperties, AppendProperties
  <2>2. q # <<>> => Len(Tail(q)) = Len(q) - 1
    BY HeadTailProperties
  <2>3. Len(<<>>) = 0
    BY EmptySeq
  <2>4. q # <<>> => Len(Tail(q)) <= Len(q)
    BY <2>1, <2>2
  <2> QED
    BY <1>2, <2>1, <2>3, <2>4 DEF CurrentSize
<1> QED
  BY <1>1, <1>2

\* What a smaller queue has room for.
LEMMA RoomOfQueue ==
  ASSUME NEW q \in Seq(Packets)
  PROVE  /\ q # <<>> /\ ~NoRoom(q) => ~NoRoom(Tail(q))
         /\ q # <<>> => CurrentSize(Tail(q)) <= CurrentSize(q)
         /\ q # <<>> => Tail(q) \in Seq(Packets) /\ Head(q) \in Packets
<1> SUFFICES ASSUME q # <<>>
             PROVE  /\ ~NoRoom(q) => ~NoRoom(Tail(q))
                    /\ CurrentSize(Tail(q)) <= CurrentSize(q)
                    /\ Tail(q) \in Seq(Packets) /\ Head(q) \in Packets
  OBVIOUS
<1>1. Tail(q) \in Seq(Packets) /\ Head(q) \in Packets
  BY HeadTailProperties
<1>2. CurrentSize(q) \in Nat /\ CurrentSize(Tail(q)) \in Nat
  BY <1>1, SizeOfQueue
<1>3. CurrentSize(Tail(q)) <= CurrentSize(q)
  BY SizeOfQueue
<1>4. DevMax \in Nat /\ Mtu \in Nat
  BY FlowDevice, FlowSizes
<1> QED
  BY <1>1, <1>2, <1>3, <1>4 DEF NoRoom
-----------------------------------------------------------------------------
\* A device queue can hold a packet of the device's MTU; with less, the queue
\* would be stopped while it is empty, and never start again.
DeviceFits == ByteMode => Mtu + Header <= DevMax

\* Transmission queue t by itself: the transmitter is busy while there are packets
\* or pending wakes, a queue that is not stopped has room, and one that is stopped
\* has packets.
QueueInv(t) ==
  /\ inFlight[t] = NoPacket => devQueue[t] = <<>> /\ wakes[t] = 0
  /\ ~stoppedByDevice[t] => ~NoRoom(devQueue[t])
  /\ stoppedByDevice[t] \/ (stoppedByLimits[t] /\ limit[t] # NoLimits) =>
       devQueue[t] # <<>> /\ inFlight[t] # NoPacket

\* The part of TypeOK that is about the device.
DeviceTypeOK ==
  /\ devQueue \in [TxQueues -> Seq(Packets)]
  /\ \A t \in TxQueues : CurrentSize(devQueue[t]) <= DevMax
  /\ inFlight \in [TxQueues -> Packets \cup {NoPacket}]
  /\ stoppedByDevice \in [TxQueues -> BOOLEAN]
  /\ stoppedByLimits \in [TxQueues -> BOOLEAN]
  /\ limit \in [TxQueues -> Limits \cup {NoLimits}]
  /\ wakes \in [TxQueues -> 0..2]

DeviceInv == DeviceTypeOK /\ \A t \in TxQueues : QueueInv(t)

\* How many callbacks Wakes schedules.
LEMMA WakeCount ==
  ASSUME NEW a \in BOOLEAN, NEW b \in BOOLEAN
  PROVE  LET n == Cardinality({c \in {"device", "limits"} : IF c = "device" THEN a ELSE b})
         IN  n \in 0..2 /\ (a \/ b => n > 0)
<1> DEFINE S == {c \in {"device", "limits"} : IF c = "device" THEN a ELSE b}
<1>1. IsFiniteSet({"device"}) /\ Cardinality({"device"}) = 1
  BY FS_Singleton
<1>2. IsFiniteSet({"limits"}) /\ Cardinality({"limits"}) = 1
  BY FS_Singleton
<1>3. IsFiniteSet({}) /\ Cardinality({}) = 0
  BY FS_EmptySet
<1>4. Cardinality({"device"} \cup {"limits"}) = 2
  BY <1>1, FS_AddElement
<1>5. CASE a /\ b
  <2>1. S = {"device"} \cup {"limits"}
    BY <1>5
  <2> QED
    BY <1>4, <2>1
<1>6. CASE a /\ ~b
  <2>1. S = {"device"}
    BY <1>6
  <2> QED
    BY <1>1, <2>1
<1>7. CASE ~a /\ b
  <2>1. S = {"limits"}
    BY <1>7
  <2> QED
    BY <1>2, <1>7, <2>1
<1>8. CASE ~a /\ ~b
  <2>1. S = {}
    BY <1>8
  <2> QED
    BY <1>3, <1>8, <2>1
<1> QED
  BY <1>5, <1>6, <1>7, <1>8

\* An empty device queue has room, and is not over any limits.
LEMMA EmptyHasRoom ==
  ASSUME DeviceFits
  PROVE  ~NoRoom(<<>>) /\ \A l \in Limits : Eased(<<>>, l)
<1>1. <<>> \in Seq(Packets)
  OBVIOUS
<1>2. CurrentSize(<<>>) = 0 /\ BytesIn(<<>>) = 0
  BY <1>1, SizeOfQueue, BytesInQueue
<1>3. DevMax \in Nat \ {0} /\ Mtu \in Nat /\ Header \in Nat
  BY FlowDevice, FlowSizes
<1>4. ~NoRoom(<<>>)
  BY <1>2, <1>3 DEF NoRoom, DeviceFits
<1>5. \A l \in Limits : l \in Nat /\ l # NoLimits
  BY FlowSizes
<1> QED
  BY <1>2, <1>4, <1>5 DEF Eased

\* The start of a transmission from a queue whose wakes have run: it stays in
\* order, and what stopped it still does or has scheduled a wake.
LEMMA TransmitStartKeeps ==
  ASSUME DeviceFits, DeviceInv, NEW t \in TxQueues, wakes[t] = 0,
         NEW q \in Seq(Packets), q # <<>>, CurrentSize(q) <= DevMax,
         NEW byDevice \in BOOLEAN, NEW byLimits \in BOOLEAN,
         ~byDevice => ~NoRoom(q),
         TransmitStart(t, q, byDevice, byLimits)
  PROVE  /\ DeviceInv'
         /\ root = "running" /\ (byDevice \/ byLimits) => IsStopped(t)' \/ wakes'[t] > 0
         /\ \A u \in TxQueues : u # t => (IsStopped(u)' <=> IsStopped(u)) /\ wakes'[u] = wakes[u]
<1> USE DEF DeviceInv
<1> DEFINE rest == Tail(q)
<1>1. PICK l \in IF limit[t] = NoLimits THEN {NoLimits} ELSE Limits :
        /\ inFlight' = [inFlight EXCEPT ![t] = Head(q)]
        /\ devQueue' = [devQueue EXCEPT ![t] = rest]
        /\ limit' = [limit EXCEPT ![t] = l]
        /\ stoppedByLimits' = [stoppedByLimits EXCEPT ![t] = byLimits /\ ~Eased(rest, l)]
        /\ stoppedByDevice' = [stoppedByDevice EXCEPT ![t] = byDevice /\ NoRoom(rest)]
        /\ Wakes(t, byDevice /\ ~NoRoom(rest), byLimits /\ Eased(rest, l))
  BY DEF TransmitStart
<1>2. /\ rest \in Seq(Packets) /\ Head(q) \in Packets /\ Head(q) # NoPacket
      /\ CurrentSize(rest) <= DevMax
      /\ ~NoRoom(q) => ~NoRoom(rest)
  <2>1. rest \in Seq(Packets) /\ Head(q) \in Packets /\ CurrentSize(rest) <= CurrentSize(q)
    BY RoomOfQueue
  <2>2. CurrentSize(rest) \in Nat /\ CurrentSize(q) \in Nat /\ DevMax \in Nat
    BY <2>1, SizeOfQueue, FlowDevice
  <2>3. CurrentSize(rest) <= DevMax
    BY <2>1, <2>2
  <2> QED
    BY <2>1, <2>3, RoomOfQueue, PacketFields
<1>3. /\ NoRoom(rest) \in BOOLEAN /\ Eased(rest, l) \in BOOLEAN
  BY DEF NoRoom, Eased
<1> HIDE DEF rest
<1>4. /\ inFlight'[t] = Head(q) /\ devQueue'[t] = rest /\ limit'[t] = l
      /\ stoppedByLimits'[t] = (byLimits /\ ~Eased(rest, l))
      /\ stoppedByDevice'[t] = (byDevice /\ NoRoom(rest))
  BY <1>1 DEF DeviceTypeOK
<1>5. \A u \in TxQueues : u # t =>
        /\ inFlight'[u] = inFlight[u] /\ devQueue'[u] = devQueue[u] /\ limit'[u] = limit[u]
        /\ stoppedByLimits'[u] = stoppedByLimits[u]
        /\ stoppedByDevice'[u] = stoppedByDevice[u]
        /\ wakes'[u] = wakes[u]
  BY <1>1 DEF DeviceTypeOK, Wakes
<1> DEFINE a == byDevice /\ ~NoRoom(rest)
           b == byLimits /\ Eased(rest, l)
           n == Cardinality({c \in {"device", "limits"} : IF c = "device" THEN a ELSE b})
<1>6. a \in BOOLEAN /\ b \in BOOLEAN
  BY <1>3
<1>7. n \in 0..2 /\ (a \/ b => n > 0)
  <2> HIDE DEF a, b
  <2> QED
    BY <1>6, WakeCount
<1>8. wakes'[t] = IF root = "running" THEN n ELSE 0
  <2>1. wakes' = [wakes EXCEPT ![t] = IF root = "running" THEN @ + n ELSE @]
    BY <1>1 DEF Wakes
  <2> HIDE DEF n
  <2> QED
    BY <1>7, <2>1 DEF DeviceTypeOK
<1> HIDE DEF n
<1>9. wakes' \in [TxQueues -> 0..2]
  <2>1. wakes'[t] \in 0..2
    BY <1>7, <1>8
  <2>2. \A u \in TxQueues : wakes'[u] \in 0..2
    BY <1>5, <2>1 DEF DeviceTypeOK
  <2>3. DOMAIN wakes' = TxQueues /\ wakes' = [u \in DOMAIN wakes' |-> wakes'[u]]
    BY <1>1 DEF DeviceTypeOK, Wakes
  <2> QED
    BY <2>2, <2>3
<1>10. DeviceTypeOK'
  <2>1. /\ devQueue' \in [TxQueues -> Seq(Packets)]
        /\ inFlight' \in [TxQueues -> Packets \cup {NoPacket}]
        /\ stoppedByDevice' \in [TxQueues -> BOOLEAN]
        /\ stoppedByLimits' \in [TxQueues -> BOOLEAN]
    BY <1>1, <1>2, <1>3 DEF DeviceTypeOK
  <2>2. limit' \in [TxQueues -> Limits \cup {NoLimits}]
    BY <1>1 DEF DeviceTypeOK
  <2>3. \A u \in TxQueues : CurrentSize(devQueue'[u]) <= DevMax
    BY <1>2, <1>4, <1>5 DEF DeviceTypeOK
  <2>4. \A u \in TxQueues : CurrentSize(devQueue[u])' = CurrentSize(devQueue'[u])
    BY DEF CurrentSize
  <2> QED
    BY <1>9, <2>1, <2>2, <2>3, <2>4 DEF DeviceTypeOK
<1>11. QueueInv(t)'
  <2>1. inFlight'[t] # NoPacket
    BY <1>2, <1>4
  <2>2. ~stoppedByDevice'[t] => ~NoRoom(devQueue'[t])
    BY <1>2, <1>4
  <2>3. stoppedByDevice'[t] => devQueue'[t] # <<>>
    BY <1>4, EmptyHasRoom
  <2>4. stoppedByLimits'[t] /\ limit'[t] # NoLimits => devQueue'[t] # <<>>
    BY <1>1, <1>4, EmptyHasRoom
  <2> QED
    BY <2>1, <2>2, <2>3, <2>4 DEF QueueInv, NoRoom, CurrentSize
<1>12. ASSUME NEW u \in TxQueues, u # t
       PROVE  QueueInv(u)'
  BY <1>5, <1>12 DEF QueueInv, NoRoom, CurrentSize
<1>13. root = "running" /\ (byDevice \/ byLimits) => IsStopped(t)' \/ wakes'[t] > 0
  BY <1>3, <1>4, <1>7, <1>8 DEF IsStopped
<1> QED
  BY <1>5, <1>10, <1>11, <1>12, <1>13 DEF IsStopped

\* A packet the device accepts leaves each transmission queue in order.
LEMMA AcceptKeeps ==
  ASSUME DeviceFits, DeviceInv, NEW t \in TxQueues, NEW p \in Packets, Accept(t, p)
  PROVE  DeviceInv'
<1> USE DEF DeviceInv
<1> DEFINE q == Append(devQueue[t], p)
           byDevice == stoppedByDevice[t] \/ NoRoom(q)
           byLimits == stoppedByLimits[t] \/ OverLimits(BytesIn(q), limit[t])
<1>1. /\ CurrentSize(q) <= DevMax
      /\ \/ /\ inFlight[t] = NoPacket
            /\ TransmitStart(t, q, byDevice, byLimits)
         \/ /\ inFlight[t] # NoPacket
            /\ devQueue' = [devQueue EXCEPT ![t] = q]
            /\ stoppedByDevice' = [stoppedByDevice EXCEPT ![t] = byDevice]
            /\ stoppedByLimits' = [stoppedByLimits EXCEPT ![t] = byLimits]
            /\ UNCHANGED <<inFlight, limit, wakes>>
  BY DEF Accept
<1>2. q \in Seq(Packets) /\ q # <<>>
  <2>1. devQueue[t] \in Seq(Packets)
    BY DEF DeviceTypeOK
  <2> QED
    BY <2>1, AppendProperties
<1>3. byDevice \in BOOLEAN /\ byLimits \in BOOLEAN /\ (~byDevice => ~NoRoom(q))
  BY DEF DeviceTypeOK, NoRoom, OverLimits
<1> HIDE DEF q, byDevice, byLimits
<1>4. CASE inFlight[t] = NoPacket
  <2>1. wakes[t] = 0
    BY <1>4 DEF QueueInv
  <2>2. TransmitStart(t, q, byDevice, byLimits)
    BY <1>1, <1>4
  <2> QED
    BY <1>1, <1>2, <1>3, <2>1, <2>2, TransmitStartKeeps
<1>5. CASE inFlight[t] # NoPacket
  <2>1. /\ devQueue' = [devQueue EXCEPT ![t] = q]
        /\ stoppedByDevice' = [stoppedByDevice EXCEPT ![t] = byDevice]
        /\ stoppedByLimits' = [stoppedByLimits EXCEPT ![t] = byLimits]
        /\ inFlight' = inFlight /\ limit' = limit /\ wakes' = wakes
    BY <1>1, <1>5
  <2>2. /\ devQueue'[t] = q /\ stoppedByDevice'[t] = byDevice
        /\ \A u \in TxQueues : u # t => /\ devQueue'[u] = devQueue[u]
                                        /\ stoppedByDevice'[u] = stoppedByDevice[u]
                                        /\ stoppedByLimits'[u] = stoppedByLimits[u]
    BY <2>1 DEF DeviceTypeOK
  <2>3. DeviceTypeOK'
    <3>1. /\ devQueue' \in [TxQueues -> Seq(Packets)]
          /\ stoppedByDevice' \in [TxQueues -> BOOLEAN]
          /\ stoppedByLimits' \in [TxQueues -> BOOLEAN]
      BY <1>2, <1>3, <2>1 DEF DeviceTypeOK
    <3>2. \A u \in TxQueues : CurrentSize(devQueue[u])' <= DevMax
      BY <1>1, <2>2 DEF DeviceTypeOK, CurrentSize
    <3> QED
      BY <2>1, <3>1, <3>2 DEF DeviceTypeOK
  <2>4. QueueInv(t)'
    BY <1>2, <1>3, <1>5, <2>1, <2>2 DEF QueueInv, NoRoom, CurrentSize
  <2>5. ASSUME NEW u \in TxQueues, u # t
        PROVE  QueueInv(u)'
    BY <2>1, <2>2, <2>5 DEF QueueInv, NoRoom, CurrentSize
  <2> QED
    BY <2>3, <2>4, <2>5
<1> QED
  BY <1>4, <1>5

\* A packet is discarded only by a queue that has others.
LEMMA DiscardKeeps ==
  ASSUME DeviceFits, DeviceInv, NEW t \in TxQueues, NEW p \in Packets, Discard(t, p)
  PROVE  DeviceInv'
<1> USE DEF DeviceInv
<1>1. devQueue[t] # <<>>
  <2> SUFFICES ASSUME devQueue[t] = <<>> PROVE FALSE
    OBVIOUS
  <2>1. CurrentSize(Append(<<>>, p)) = CurrentSize(<<>>) + (IF ByteMode THEN p.size + Header ELSE 1)
    <3>1. <<>> \in Seq(Packets)
      OBVIOUS
    <3> QED
      BY <3>1, SizeOfQueue
  <2>2. CurrentSize(<<>>) = 0
    <3>1. <<>> \in Seq(Packets)
      OBVIOUS
    <3> QED
      BY <3>1, SizeOfQueue
  <2>3. /\ p.size \in Nat /\ p.size <= Mtu /\ Mtu \in Nat /\ Header \in Nat
        /\ DevMax \in Nat \ {0} /\ ByteMode \in BOOLEAN
    BY PacketFields, FlowDevice
  <2>4. CurrentSize(Append(<<>>, p)) <= DevMax
    BY <2>1, <2>2, <2>3 DEF DeviceFits
  <2>5. CurrentSize(Append(<<>>, p)) > DevMax
    BY DEF Discard
  <2>6. CurrentSize(Append(<<>>, p)) \in Nat
    BY <2>1, <2>2, <2>3
  <2> QED
    BY <2>3, <2>4, <2>5, <2>6
<1>2. inFlight[t] # NoPacket
  BY <1>1 DEF QueueInv
<1>3. /\ stoppedByDevice' = [stoppedByDevice EXCEPT ![t] = TRUE]
      /\ devQueue' = devQueue /\ inFlight' = inFlight /\ limit' = limit /\ wakes' = wakes
      /\ stoppedByLimits' = stoppedByLimits
  BY DEF Discard
<1>4. \A u \in TxQueues : stoppedByDevice'[u] = IF u = t THEN TRUE ELSE stoppedByDevice[u]
  BY <1>3 DEF DeviceTypeOK
<1>5. DeviceTypeOK'
  BY <1>3 DEF DeviceTypeOK, CurrentSize
<1>6. ASSUME NEW u \in TxQueues
      PROVE  QueueInv(u)'
  BY <1>1, <1>2, <1>3, <1>4, <1>6 DEF QueueInv, NoRoom, CurrentSize
<1> QED
  BY <1>5, <1>6

\* So DeviceSend leaves the device in order.
LEMMA DeviceSendKeeps ==
  ASSUME DeviceFits, DeviceInv, NEW p \in Packets, DeviceSend(p)
  PROVE  DeviceInv'
BY AcceptKeeps, DiscardKeeps, PacketFields DEF DeviceSend

\* The end of a transmission does, and what stopped a queue still does or has
\* scheduled a wake.
LEMMA TransmitCompleteKeeps ==
  ASSUME DeviceFits, DeviceInv, NEW t \in TxQueues, TransmitComplete(t)
  PROVE  /\ DeviceInv'
         /\ root = "running" =>
              \A u \in TxQueues : IsStopped(u) \/ wakes[u] > 0 => IsStopped(u)' \/ wakes'[u] > 0
<1> USE DEF DeviceInv
<1>1. wakes[t] = 0 /\ inFlight[t] # NoPacket
  BY DEF TransmitComplete
<1>2. CASE devQueue[t] = <<>>
  <2>1. /\ inFlight' = [inFlight EXCEPT ![t] = NoPacket] /\ devQueue' = devQueue
        /\ stoppedByDevice' = stoppedByDevice /\ stoppedByLimits' = stoppedByLimits
        /\ limit' = limit /\ wakes' = wakes
    BY <1>2 DEF TransmitComplete
  <2>2. /\ inFlight'[t] = NoPacket
        /\ \A u \in TxQueues : u # t => inFlight'[u] = inFlight[u]
    BY <2>1 DEF DeviceTypeOK
  <2>3. DeviceTypeOK'
    BY <2>1 DEF DeviceTypeOK, CurrentSize
  <2>4. QueueInv(t)'
    BY <1>1, <1>2, <2>1, <2>2 DEF QueueInv, NoRoom, CurrentSize
  <2>5. ASSUME NEW u \in TxQueues, u # t
        PROVE  QueueInv(u)'
    BY <2>1, <2>2, <2>5 DEF QueueInv, NoRoom, CurrentSize
  <2> QED
    BY <2>1, <2>3, <2>4, <2>5 DEF IsStopped
<1>3. CASE devQueue[t] # <<>>
  <2>1. TransmitStart(t, devQueue[t], stoppedByDevice[t], stoppedByLimits[t])
    BY <1>3 DEF TransmitComplete
  <2>2. /\ devQueue[t] \in Seq(Packets) /\ CurrentSize(devQueue[t]) <= DevMax
        /\ stoppedByDevice[t] \in BOOLEAN /\ stoppedByLimits[t] \in BOOLEAN
        /\ ~stoppedByDevice[t] => ~NoRoom(devQueue[t])
    BY DEF DeviceTypeOK, QueueInv
  <2>3. /\ DeviceInv'
        /\ root = "running" /\ (stoppedByDevice[t] \/ stoppedByLimits[t]) =>
             IsStopped(t)' \/ wakes'[t] > 0
        /\ \A u \in TxQueues : u # t => (IsStopped(u)' <=> IsStopped(u)) /\ wakes'[u] = wakes[u]
    BY <1>1, <1>3, <2>1, <2>2, TransmitStartKeeps
  <2> QED
    BY <1>1, <2>3 DEF IsStopped
<1> QED
  BY <1>2, <1>3
-----------------------------------------------------------------------------
\* The queue disc: its packets and their limit, and Run only where there is one.
DiscInv ==
  /\ root \in {"running", "none", "unscanned"}
  /\ backlog \in Seq(Packets) /\ Len(backlog) <= DiscLimit
  /\ requeued \in Packets \cup {NoPacket}
  /\ quota \in 0..Word - 1
  /\ pc \in {"idle", "run", "fault"}
  /\ pc = "run" => root = "running"
  /\ root # "running" => backlog = <<>> /\ requeued = NoPacket

\* The inductive invariant behind the theorems below.
FlowInv == DiscInv /\ DeviceInv /\ NotStranded

\* What DequeuePacket returns is a packet of the queue disc, and when it returns
\* none there is none or a queue is stopped.
LEMMA NextPacketIsOne ==
  ASSUME DiscInv
  PROVE  /\ NextPacket # NoPacket => NextPacket \in Packets
         /\ DequeuePacket => backlog' \in Seq(Packets) /\ Len(backlog') <= DiscLimit
         /\ NextPacket = NoPacket =>
              \/ backlog = <<>> /\ requeued = NoPacket
              \/ \E t \in TxQueues : IsStopped(t)
<1>1. backlog \in Seq(Packets) /\ Len(backlog) <= DiscLimit /\ requeued \in Packets \cup {NoPacket}
  BY DEF DiscInv
<1>2. backlog # <<>> => /\ Head(backlog) \in Packets /\ Head(backlog) # NoPacket
                        /\ Tail(backlog) \in Seq(Packets)
                        /\ Len(Tail(backlog)) = Len(backlog) - 1
  BY <1>1, HeadTailProperties, PacketFields
<1>3. Len(backlog) \in Nat /\ DiscLimit \in Nat
  BY <1>1, LenProperties, FlowSizes
<1>4. NextPacket # NoPacket => NextPacket \in Packets
  BY <1>1, <1>2 DEF NextPacket
<1>5. ASSUME DequeuePacket
      PROVE  backlog' \in Seq(Packets) /\ Len(backlog') <= DiscLimit
  <2>1. requeued = NoPacket => backlog # <<>>
    BY <1>5 DEF DequeuePacket, NextPacket
  <2> QED
    BY <1>1, <1>2, <1>3, <1>5, <2>1 DEF DequeuePacket
<1>6. ASSUME NextPacket = NoPacket
      PROVE  \/ backlog = <<>> /\ requeued = NoPacket
             \/ \E t \in TxQueues : IsStopped(t)
  <2>1. CASE requeued # NoPacket
    <3>1. requeued.txq \in TxQueues
      BY <1>1, <2>1, PacketFields
    <3> QED
      BY <1>6, <2>1, <3>1 DEF NextPacket
  <2>2. CASE requeued = NoPacket
    BY <1>2, <1>6, <2>2 DEF NextPacket
  <2> QED
    BY <2>1, <2>2
<1> QED
  BY <1>4, <1>5, <1>6

\* The queue disc, the device and the wakes start in order.
LEMMA FlowStarts ==
  ASSUME DeviceFits
  PROVE  Init => FlowInv
<1> SUFFICES ASSUME Init PROVE FlowInv
  OBVIOUS
<1>1. <<>> \in Seq(Packets) /\ Len(<<>>) = 0
  OBVIOUS
<1>2. DiscInv
  BY <1>1, FlowSizes, FlowQuota DEF Init, DiscInv
<1>3. CurrentSize(<<>>) = 0 /\ DevMax \in Nat
  BY <1>1, SizeOfQueue, FlowDevice
<1>4. DeviceTypeOK
  <2>1. limit \in [TxQueues -> Limits \cup {NoLimits}]
    BY DEF Init
  <2>2. wakes \in [TxQueues -> 0..2]
    BY DEF Init
  <2>3. devQueue \in [TxQueues -> Seq(Packets)] /\ \A t \in TxQueues : devQueue[t] = <<>>
    BY <1>1 DEF Init
  <2>4. \A t \in TxQueues : CurrentSize(devQueue[t]) <= DevMax
    BY <1>3, <2>3
  <2>5. /\ inFlight \in [TxQueues -> Packets \cup {NoPacket}]
        /\ stoppedByDevice \in [TxQueues -> BOOLEAN]
        /\ stoppedByLimits \in [TxQueues -> BOOLEAN]
    BY DEF Init
  <2> QED
    BY <2>1, <2>2, <2>3, <2>4, <2>5 DEF DeviceTypeOK
<1>5. \A t \in TxQueues : QueueInv(t)
  BY EmptyHasRoom DEF Init, QueueInv
<1>6. NotStranded
  BY DEF Init, NotStranded
<1> QED
  BY <1>2, <1>4, <1>5, <1>6 DEF FlowInv, DeviceInv

\* The device is in order as long as its queues are.
LEMMA DeviceUnchanged ==
  ASSUME DeviceInv, UNCHANGED device, UNCHANGED wakes
  PROVE  DeviceInv'
BY DEF DeviceInv, DeviceTypeOK, QueueInv, NoRoom, CurrentSize, device

\* A run of the queue disc starts in order.
LEMMA RunStarts ==
  ASSUME FlowInv,
         (\E p \in Packets : Send(p)) \/ (\E t \in TxQueues : WakeRun(t))
  PROVE  FlowInv'
<1>1. Quota \in 0..Word - 1
  BY FlowQuota
<1>2. ASSUME NEW p \in Packets, Send(p)
      PROVE  FlowInv'
  <2>1. backlog' \in Seq(Packets) /\ Len(backlog') <= DiscLimit
    <3>1. backlog \in Seq(Packets) /\ Len(backlog) <= DiscLimit
      BY DEF FlowInv, DiscInv
    <3>2. Append(backlog, p) \in Seq(Packets) /\ Len(Append(backlog, p)) = Len(backlog) + 1
      BY <3>1, AppendProperties
    <3>3. Len(backlog) \in Nat /\ DiscLimit \in Nat
      BY <3>1, LenProperties, FlowSizes
    <3>4. backlog' = IF Len(backlog) < DiscLimit THEN Append(backlog, p) ELSE backlog
      BY <1>2 DEF Send, Enqueued
    <3> QED
      BY <3>1, <3>2, <3>3, <3>4
  <2>2. DiscInv'
    BY <1>1, <1>2, <2>1 DEF Send, FlowInv, DiscInv
  <2>3. DeviceInv'
    BY <1>2, DeviceUnchanged DEF Send, FlowInv
  <2>4. NotStranded'
    BY <1>2 DEF Send, NotStranded
  <2> QED
    BY <2>2, <2>3, <2>4 DEF FlowInv
<1>3. ASSUME NEW t \in TxQueues, WakeRun(t)
      PROVE  FlowInv'
  <2>1. DiscInv'
    BY <1>1, <1>3 DEF WakeRun, FlowInv, DiscInv
  <2>2. UNCHANGED device /\ wakes' = [wakes EXCEPT ![t] = @ - 1] /\ wakes[t] > 0
    BY <1>3 DEF WakeRun
  <2>3. DeviceTypeOK /\ wakes \in [TxQueues -> 0..2] /\ \A u \in TxQueues : QueueInv(u)
    BY DEF FlowInv, DeviceInv, DeviceTypeOK
  <2>4. /\ wakes' \in [TxQueues -> 0..2]
        /\ \A u \in TxQueues : wakes'[u] = IF u = t THEN wakes[u] - 1 ELSE wakes[u]
    BY <2>2, <2>3
  <2>5. DeviceTypeOK'
    BY <2>2, <2>3, <2>4 DEF DeviceTypeOK, CurrentSize, device
  <2>6. \A u \in TxQueues : QueueInv(u)'
    BY <2>2, <2>3, <2>4 DEF QueueInv, NoRoom, CurrentSize, device
  <2>7. NotStranded'
    BY <1>3 DEF WakeRun, NotStranded
  <2> QED
    BY <2>1, <2>5, <2>6, <2>7 DEF FlowInv, DeviceInv
<1> QED
  BY <1>2, <1>3

\* A run ends with a reason to start again for the packets it leaves.
LEMMA RunKeeps ==
  ASSUME DeviceFits, FlowInv, Restart
  PROVE  FlowInv'
<1> USE DEF FlowInv
<1>1. CASE RunEnds
  <2>1. DiscInv'
    BY <1>1 DEF RunEnds, DiscInv, disc
  <2>2. DeviceInv'
    BY <1>1, DeviceUnchanged DEF RunEnds
  <2>3. /\ backlog' = backlog /\ requeued' = requeued /\ wakes' = wakes
        /\ \A t \in TxQueues : IsStopped(t)' = IsStopped(t)
    BY <1>1 DEF RunEnds, IsStopped, disc, device
  <2>4. \/ backlog = <<>> /\ requeued = NoPacket
        \/ \E t \in TxQueues : IsStopped(t)
    BY <1>1, NextPacketIsOne DEF RunEnds
  <2>5. NotStranded'
    BY <2>3, <2>4 DEF NotStranded
  <2> QED
    BY <2>1, <2>2, <2>5
<1>2. CASE Requeue
  <2>1. NextPacket # NoPacket /\ DequeuePacket /\ pc = "run" /\ root = "running"
    BY <1>2 DEF Requeue, DequeuePacket, DiscInv
  <2>2. /\ NextPacket \in Packets /\ NextPacket.txq \in TxQueues
        /\ backlog' \in Seq(Packets) /\ Len(backlog') <= DiscLimit
    BY <2>1, NextPacketIsOne, PacketFields
  <2>3. DiscInv'
    BY <1>2, <2>1, <2>2 DEF Requeue, DiscInv
  <2>4. DeviceInv'
    BY <1>2, DeviceUnchanged DEF Requeue
  <2>5. IsStopped(NextPacket.txq) /\ UNCHANGED device
    BY <1>2 DEF Requeue
  <2>6. \A t \in TxQueues : IsStopped(t)' = IsStopped(t)
    BY <2>5 DEF IsStopped, device
  <2>7. NotStranded'
    BY <2>2, <2>5, <2>6 DEF NotStranded
  <2> QED
    BY <2>3, <2>4, <2>7
<1>3. ASSUME NEW p \in Packets, Transmit(p)
      PROVE  FlowInv'
  <2>1. /\ DequeuePacket /\ pc = "run" /\ root = "running"
        /\ root' = root /\ requeued' = NoPacket /\ DeviceSend(p)
    BY <1>3 DEF Transmit, DequeuePacket, DiscInv
  <2>2. backlog' \in Seq(Packets) /\ Len(backlog') <= DiscLimit
    BY <2>1, NextPacketIsOne
  <2>3. \/ (backlog' = <<>> \/ IsStopped(p.txq)') /\ pc' = "idle" /\ quota' = quota
        \/ /\ quota' = (quota - 1) % Word
           /\ pc' = IF quota' = 0 THEN "idle" ELSE "run"
    BY <1>3 DEF Transmit
  <2>4. quota' \in 0..Word - 1 /\ pc' \in {"idle", "run"}
    <3>1. Word \in Nat \ {0} /\ quota \in 0..Word - 1
      BY FlowQuota DEF DiscInv
    <3>2. quota - 1 \in Int
      BY <3>1
    <3>3. (quota - 1) % Word \in 0..Word - 1
      BY <3>1, <3>2
    <3> QED
      BY <2>3, <3>1, <3>3
  <2>5. DiscInv'
    BY <2>1, <2>2, <2>4 DEF DiscInv
  <2>6. DeviceInv'
    BY <2>1, DeviceSendKeeps
  <2>7. p.txq \in TxQueues
    BY PacketFields
  <2>8. NotStranded'
    <3>1. IsStopped(p.txq)' => \E t \in TxQueues : IsStopped(t)'
      BY <2>7
    <3> QED
      BY <2>1, <2>3, <3>1 DEF NotStranded
  <2> QED
    BY <2>5, <2>6, <2>8
<1> QED
  BY <1>1, <1>2, <1>3 DEF Restart

\* Reconfiguration leaves the device in order, and packets only to a queue disc.
LEMMA SwapKeeps ==
  ASSUME DeviceFits, FlowInv,
         \/ DeleteRootQueueDisc \/ SetRootQueueDisc \/ SendUnscanned
         \/ \E p \in Packets : SendDirect(p)
         \/ \E t \in TxQueues : WakeNull(t)
  PROVE  FlowInv'
<1> USE DEF FlowInv
<1>1. CASE DeleteRootQueueDisc
  <2>1. <<>> \in Seq(Packets) /\ Len(<<>>) = 0 /\ DiscLimit \in Nat
    BY FlowSizes
  <2>2. DiscInv'
    BY <1>1, <2>1 DEF DeleteRootQueueDisc, DiscInv
  <2>3. /\ limit' = [u \in TxQueues |-> NoLimits]
        /\ devQueue' = devQueue /\ inFlight' = inFlight /\ wakes' = wakes
        /\ stoppedByDevice' = stoppedByDevice /\ stoppedByLimits' = stoppedByLimits
    BY <1>1 DEF DeleteRootQueueDisc
  <2>4. DeviceTypeOK'
    BY <2>3 DEF DeviceInv, DeviceTypeOK, CurrentSize
  <2>5. \A u \in TxQueues : QueueInv(u)'
    BY <2>3 DEF DeviceInv, QueueInv, NoRoom, CurrentSize
  <2>6. NotStranded'
    BY <1>1 DEF DeleteRootQueueDisc, NotStranded
  <2> QED
    BY <2>2, <2>4, <2>5, <2>6 DEF DeviceInv
<1>2. CASE SetRootQueueDisc
  <2>1. DiscInv'
    BY <1>2 DEF SetRootQueueDisc, DiscInv
  <2>2. DeviceInv'
    BY <1>2, DeviceUnchanged DEF SetRootQueueDisc
  <2>3. backlog' = <<>> /\ requeued' = NoPacket
    BY <1>2 DEF SetRootQueueDisc, DiscInv
  <2> QED
    BY <2>1, <2>2, <2>3 DEF NotStranded
<1>3. CASE SendUnscanned \/ \E t \in TxQueues : WakeNull(t)
  <2>1. /\ UNCHANGED <<disc, device, wakes>> /\ pc' = "fault"
    BY <1>3 DEF SendUnscanned, WakeNull
  <2>2. DiscInv'
    BY <2>1 DEF DiscInv, disc
  <2>3. DeviceInv'
    BY <2>1, DeviceUnchanged
  <2> QED
    BY <2>1, <2>2, <2>3 DEF NotStranded
<1>4. ASSUME NEW p \in Packets, SendDirect(p)
      PROVE  FlowInv'
  <2>1. UNCHANGED <<disc, pc>> /\ root = "none"
    BY <1>4 DEF SendDirect
  <2>2. DiscInv' /\ NotStranded'
    BY <2>1 DEF DiscInv, NotStranded, disc
  <2>3. DeviceInv'
    <3>1. DeviceSend(p) \/ UNCHANGED <<device, wakes>>
      BY <1>4 DEF SendDirect
    <3> QED
      BY <3>1, DeviceSendKeeps, DeviceUnchanged
  <2> QED
    BY <2>2, <2>3
<1> QED
  BY <1>1, <1>2, <1>3, <1>4

\* FlowInv holds at every step.
LEMMA FlowIsInvariant ==
  ASSUME DeviceFits
  PROVE  Spec => []FlowInv
<1>1. FlowInv /\ [Next]_vars => FlowInv'
  <2> SUFFICES ASSUME FlowInv, [Next]_vars
               PROVE  FlowInv'
    OBVIOUS
  <2>1. CASE UNCHANGED vars
    <3>1. DiscInv' /\ NotStranded'
      BY <2>1 DEF vars, disc, device, FlowInv, DiscInv, NotStranded, IsStopped
    <3>2. DeviceInv'
      BY <2>1, DeviceUnchanged DEF vars, FlowInv
    <3> QED
      BY <3>1, <3>2 DEF FlowInv
  <2>2. ASSUME NEW p \in Packets, Send(p) \/ SendDirect(p)
        PROVE  FlowInv'
    BY <2>2, RunStarts, SwapKeeps
  <2>3. CASE Restart
    BY <2>3, RunKeeps
  <2>4. ASSUME NEW t \in TxQueues, WakeRun(t) \/ WakeNull(t) \/ TransmitComplete(t)
        PROVE  FlowInv'
    <3>1. CASE WakeRun(t) \/ WakeNull(t)
      BY <3>1, RunStarts, SwapKeeps
    <3>2. CASE TransmitComplete(t)
      <4>1. /\ DeviceInv'
            /\ root = "running" =>
                 \A u \in TxQueues : IsStopped(u) \/ wakes[u] > 0 => IsStopped(u)' \/ wakes'[u] > 0
        BY <3>2, TransmitCompleteKeeps DEF FlowInv
      <4>2. UNCHANGED <<disc, pc>> /\ pc = "idle"
        BY <3>2 DEF TransmitComplete
      <4>3. DiscInv'
        BY <4>2 DEF FlowInv, DiscInv, disc
      <4>4. NotStranded'
        BY <4>1, <4>2 DEF FlowInv, DiscInv, NotStranded, disc
      <4> QED
        BY <4>1, <4>3, <4>4 DEF FlowInv
    <3> QED
      BY <2>4, <3>1, <3>2
  <2>5. CASE DeleteRootQueueDisc \/ SetRootQueueDisc \/ SendUnscanned
    BY <2>5, SwapKeeps
  <2> QED
    BY <2>1, <2>2, <2>3, <2>4, <2>5 DEF Next
<1> QED
  BY <1>1, FlowStarts, PTL DEF Spec

-----------------------------------------------------------------------------
\* TypeOK: the fields keep their types, the queue disc and the device queues their
\* limits, and a queue owes at most two wakes, one for each of the two reasons for
\* which it can have been stopped.
THEOREM FlowTypeCorrect ==
  ASSUME DeviceFits
  PROVE  Spec => []TypeOK
<1>1. FlowInv => TypeOK
  BY DEF FlowInv, DiscInv, DeviceInv, DeviceTypeOK, TypeOK
<1> QED
  BY <1>1, FlowIsInvariant, PTL

\* NotStranded: no wakeup is lost, for any number of transmission queues, any
\* limits that DynamicQueueLimits arrives at and any reconfiguration.
THEOREM NoWakeupIsLost ==
  ASSUME DeviceFits
  PROVE  Spec => []NotStranded
<1>1. FlowInv => NotStranded
  BY DEF FlowInv
<1> QED
  BY <1>1, FlowIsInvariant, PTL

\* StopsEnd: a stopped queue has a packet to transmit, so the stop will be looked
\* at again.
THEOREM StopsAreTemporary ==
  ASSUME DeviceFits
  PROVE  Spec => []StopsEnd
<1>1. FlowInv => StopsEnd
  BY DEF FlowInv, DeviceInv, QueueInv, StopsEnd
<1> QED
  BY <1>1, FlowIsInvariant, PTL

\* A queue that is not stopped has room for the packet Run sends it, in byte mode too
\* when the header is counted in the MTU's room.
LEMMA QueueHasRoom ==
  ASSUME ByteMode => \A s \in Sizes : s + Header <= Mtu,
         FlowInv, NEW p \in Packets, Transmit(p)
  PROVE  ~Discard(p.txq, p)
<1> SUFFICES ASSUME Discard(p.txq, p)
             PROVE  FALSE
  OBVIOUS
<1>1. p.txq \in TxQueues /\ p.size \in Sizes
  BY PacketFields DEF Packets
<1>2. ~stoppedByDevice[p.txq]
  BY DEF Transmit, IsStopped
<1>3. devQueue[p.txq] \in Seq(Packets) /\ ~NoRoom(devQueue[p.txq])
  BY <1>1, <1>2 DEF FlowInv, DeviceInv, DeviceTypeOK, QueueInv
<1>4. /\ CurrentSize(devQueue[p.txq]) \in Nat
      /\ CurrentSize(Append(devQueue[p.txq], p))
           = CurrentSize(devQueue[p.txq]) + (IF ByteMode THEN p.size + Header ELSE 1)
  BY <1>3, SizeOfQueue
<1>5. CurrentSize(Append(devQueue[p.txq], p)) > DevMax
  BY DEF Discard
<1>6. /\ p.size \in Nat /\ Header \in Nat /\ Mtu \in Nat /\ DevMax \in Nat
      /\ ByteMode \in BOOLEAN
  BY PacketFields, FlowDevice
<1>7. ByteMode => p.size + Header <= Mtu
  BY <1>1
<1>8. CurrentSize(devQueue[p.txq]) + (IF ByteMode THEN Mtu ELSE 1) <= DevMax
  BY <1>3, <1>4, <1>6 DEF NoRoom
<1> QED
  BY <1>4, <1>5, <1>6, <1>7, <1>8

\* NeverDiscarded: in byte mode too, when the header is counted in the MTU's room.
\* Without that hypothesis a queue that is not stopped has room for the MTU alone,
\* and the header of a packet that fills it is too much.
THEOREM NoPacketIsDiscarded ==
  ASSUME DeviceFits, ByteMode => \A s \in Sizes : s + Header <= Mtu
  PROVE  Spec => NeverDiscarded
<1> DEFINE P == \A p \in Packets : ~(Transmit(p) /\ Discard(p.txq, p))
<1>1. FlowInv => P
  BY QueueHasRoom
<1> QED
  BY <1>1, FlowIsInvariant, PTL DEF Spec, NeverDiscarded

-----------------------------------------------------------------------------
(***************************************************************************)
(* The refinement of Link.  First, what For takes out of a sequence; it is  *)
(* a fold, so the lemmas go by induction over the places of the sequence.   *)
(***************************************************************************)

\* What the greatest element is.
LEMMA GreatestIsMax ==
  ASSUME NEW S \in SUBSET Int, NEW m \in S, \A y \in S : m >= y
  PROVE  Max(S) = m
<1>1. Max(S) \in S /\ \A y \in S : Max(S) >= y
  BY DEF Max
<1>2. Max(S) \in Int /\ m \in Int /\ Max(S) >= m /\ m >= Max(S)
  BY <1>1
<1> QED
  BY <1>2

\* Function g gives each subset of S the packets of q at these places that are for t.
IsChoice(g, t, q, S) ==
  g = [s \in SUBSET S |->
         IF s = {} THEN <<>>
         ELSE IF q[Max(s)].txq = t THEN Append(g[s \ {Max(s)}], q[Max(s)])
         ELSE g[s \ {Max(s)}]]

Choice(t, q, S) == CHOOSE g : IsChoice(g, t, q, S)

\* The packets of q for t at the places in S.
Chosen(t, q, S) == Choice(t, q, S)[S]

\* For takes them at all places.
LEMMA ForIsChosen ==
  ASSUME NEW t, NEW q
  PROVE  For(t, q) = Chosen(t, q, DOMAIN q)
BY Zenon DEF For, FoldLeft, MapThenFoldSet, Chosen, Choice, IsChoice

\* The last place is one of them.
LEMMA LastPlace ==
  ASSUME NEW s \in SUBSET Int, IsFiniteSet(s), s # {}
  PROVE  /\ Max(s) \in s /\ s \ {Max(s)} \in SUBSET s /\ s \ {Max(s)} # s
         /\ IsFiniteSet(s \ {Max(s)})
<1>1. Max(s) \in s
  BY MaxIsGreatest
<1> QED
  BY <1>1, FS_RemoveElement

\* The sequences have the same packets at the places in S.
Agree(q, r, S) == \A i \in S : q[i] = r[i]

\* Two such functions, the second for fewer places, at which the sequences agree.
AreChoices(g, h, t, q, r, S, T) ==
  /\ T \in SUBSET S /\ T \subseteq Int /\ IsFiniteSet(T) /\ Agree(q, r, T)
  /\ IsChoice(g, t, q, S) /\ IsChoice(h, t, r, T)

\* They agree too.
LEMMA ChoicesAgree ==
  ASSUME NEW t, NEW q, NEW r, NEW S, NEW T, NEW g, NEW h, AreChoices(g, h, t, q, r, S, T)
  PROVE  \A s \in SUBSET T : g[s] = h[s]
<1>0. /\ T \in SUBSET S /\ T \subseteq Int /\ IsFiniteSet(T) /\ Agree(q, r, T)
      /\ IsChoice(g, t, q, S) /\ IsChoice(h, t, r, T)
  BY DEF AreChoices
<1> DEFINE Good == {s \in SUBSET T : g[s] = h[s]}
<1>1. ASSUME NEW s \in SUBSET T, \A u \in SUBSET s : u # s => u \in Good
      PROVE  s \in Good
  <2>1. CASE s = {}
    BY <1>0, <2>1 DEF IsChoice
  <2>2. CASE s # {}
    <3> DEFINE m == Max(s)
               u == s \ {m}
    <3>1. u \in SUBSET s /\ u # s /\ m \in T
      BY <1>0, <2>2, LastPlace, FS_Subset
    <3>2. g[u] = h[u] /\ q[m] = r[m]
      BY <1>0, <1>1, <3>1 DEF Agree
    <3>3. g[s] = IF q[m].txq = t THEN Append(g[u], q[m]) ELSE g[u]
      BY <1>0, <2>2 DEF IsChoice
    <3>4. h[s] = IF r[m].txq = t THEN Append(h[u], r[m]) ELSE h[u]
      BY <1>0, <2>2 DEF IsChoice
    <3> HIDE DEF m, u
    <3> QED
      BY <3>2, <3>3, <3>4
  <2> QED
    BY <2>1, <2>2
<1> HIDE DEF Good
<1>2. \A s \in SUBSET T : s \in Good
  BY <1>0, <1>1, SubsetInduction
<1> QED
  BY <1>2 DEF Good

\* There is such a function.
LEMMA ChoiceExists ==
  ASSUME NEW t, NEW q, NEW S \in SUBSET Int, IsFiniteSet(S)
  PROVE  IsChoice(Choice(t, q, S), t, q, S)
<1> DEFINE Good == {T \in SUBSET S : IsChoice(Choice(t, q, T), t, q, T)}
<1>1. ASSUME NEW T \in SUBSET S, \A U \in SUBSET T : U # T => U \in Good
      PROVE  T \in Good
  <2> DEFINE Rest(s) == s \ {Max(s)}
             h == [s \in SUBSET T |->
                     IF s = {} THEN <<>>
                     ELSE IF q[Max(s)].txq = t
                          THEN Append(Chosen(t, q, Rest(s)), q[Max(s)])
                     ELSE Chosen(t, q, Rest(s))]
  <2>1. ASSUME NEW s \in SUBSET T, s # {}
        PROVE  h[Rest(s)] = Chosen(t, q, Rest(s))
    <3> DEFINE v == Rest(s)
    <3>1. v \in SUBSET T /\ v # T /\ IsFiniteSet(v)
      BY <2>1, LastPlace, FS_Subset
    <3>2. IsChoice(Choice(t, q, v), t, q, v)
      BY <1>1, <3>1
    <3> HIDE DEF v
    <3>3. CASE v = {}
      <4>1. Choice(t, q, v)[v] = <<>>
        BY <3>2, <3>3 DEF IsChoice
      <4>2. h[v] = <<>>
        BY <3>1, <3>3
      <4> QED
        BY <4>1, <4>2 DEF Chosen, v
    <3>4. CASE v # {}
      <4> DEFINE u == Rest(v)
      <4>1. u \in SUBSET v /\ u # T /\ u \in SUBSET T /\ IsFiniteSet(u) /\ u \subseteq Int
        BY <3>1, <3>4, LastPlace
      <4>2. IsChoice(Choice(t, q, u), t, q, u)
        BY <1>1, <4>1
      <4>3. Choice(t, q, v)[u] = Choice(t, q, u)[u]
        <5> HIDE DEF u, h, Rest
        <5>1. AreChoices(Choice(t, q, v), Choice(t, q, u), t, q, q, v, u)
          BY <3>2, <4>1, <4>2 DEF Agree, AreChoices
        <5>2. \A x \in SUBSET u : Choice(t, q, v)[x] = Choice(t, q, u)[x]
          BY <5>1, ChoicesAgree
        <5> QED
          BY <5>2
      <4>4. Choice(t, q, v)[v] = IF q[Max(v)].txq = t
                                 THEN Append(Choice(t, q, v)[u], q[Max(v)])
                                 ELSE Choice(t, q, v)[u]
        BY <3>2, <3>4 DEF IsChoice
      <4>5. h[v] = IF q[Max(v)].txq = t THEN Append(Chosen(t, q, u), q[Max(v)])
                   ELSE Chosen(t, q, u)
        BY <3>1, <3>4
      <4> HIDE DEF u, h
      <4> QED
        BY <4>3, <4>4, <4>5 DEF Chosen, v
    <3> QED
      BY <3>3, <3>4
  <2>2. IsChoice(h, t, q, T)
    <3> HIDE DEF Rest
    <3>1. h = [s \in SUBSET T |->
                     IF s = {} THEN <<>>
                     ELSE IF q[Max(s)].txq = t
                          THEN Append(h[Rest(s)], q[Max(s)])
                     ELSE h[Rest(s)]]
      BY <2>1
    <3> HIDE DEF h
    <3> QED
      BY <3>1 DEF IsChoice, Rest
  <2>3. IsChoice(Choice(t, q, T), t, q, T)
    <3> HIDE DEF h
    <3> QED
      BY <2>2, Zenon DEF Choice
  <2> QED
    BY <2>3
<1> HIDE DEF Good
<1>2. S \in Good
  BY <1>1, SubsetInduction
<1> QED
  BY <1>2 DEF Good

\* The last place decides whether its packet follows the others.
LEMMA ChosenStep ==
  ASSUME NEW t, NEW q, NEW S \in SUBSET Int, IsFiniteSet(S)
  PROVE  Chosen(t, q, S) =
           IF S = {} THEN <<>>
           ELSE IF q[Max(S)].txq = t THEN Append(Chosen(t, q, S \ {Max(S)}), q[Max(S)])
           ELSE Chosen(t, q, S \ {Max(S)})
<1> DEFINE m == Max(S)
           T == S \ {Max(S)}
<1>1. IsChoice(Choice(t, q, S), t, q, S)
  BY ChoiceExists
<1>2. T \in SUBSET S /\ IsFiniteSet(T) /\ T \subseteq Int
  BY FS_RemoveElement
<1>3. IsChoice(Choice(t, q, T), t, q, T)
  BY <1>2, ChoiceExists
<1>4. Choice(t, q, S)[T] = Choice(t, q, T)[T]
  <2> HIDE DEF T
  <2>1. AreChoices(Choice(t, q, S), Choice(t, q, T), t, q, q, S, T)
    BY <1>1, <1>2, <1>3 DEF Agree, AreChoices
  <2>2. \A s \in SUBSET T : Choice(t, q, S)[s] = Choice(t, q, T)[s]
    BY <2>1, ChoicesAgree
  <2> QED
    BY <2>2
<1>5. Choice(t, q, S)[S] = IF S = {} THEN <<>>
                           ELSE IF q[m].txq = t THEN Append(Choice(t, q, S)[T], q[m])
                           ELSE Choice(t, q, S)[T]
  BY <1>1 DEF IsChoice
<1> HIDE DEF T
<1> QED
  BY <1>4, <1>5 DEF Chosen, T

\* Sequences that agree at some places have the same packets there.
LEMMA ChosenAgree ==
  ASSUME NEW t, NEW q, NEW r, NEW S \in SUBSET Int, IsFiniteSet(S), Agree(q, r, S)
  PROVE  Chosen(t, q, S) = Chosen(t, r, S)
<1> DEFINE g == Choice(t, q, S)
           h == Choice(t, r, S)
<1>1. IsChoice(g, t, q, S) /\ IsChoice(h, t, r, S)
  BY ChoiceExists
<1>2. AreChoices(g, h, t, q, r, S, S)
  BY <1>1 DEF AreChoices
<1>3. g[S] = h[S]
  <2> HIDE DEF g, h
  <2>0. ASSUME NEW T, AreChoices(g, h, t, q, r, S, T)
        PROVE  \A x \in SUBSET T : g[x] = h[x]
    BY <2>0, ChoicesAgree
  <2>1. \A x \in SUBSET S : g[x] = h[x]
    BY <1>2, <2>0
  <2> QED
    BY <2>1
<1> QED
  BY <1>3 DEF Chosen

\* Packets for t are packets.
LEMMA ChosenArePackets ==
  ASSUME NEW t, NEW q, NEW S \in SUBSET Int, IsFiniteSet(S), \A i \in S : q[i] \in Packets
  PROVE  Chosen(t, q, S) \in Seq(Packets)
<1> DEFINE Good == {s \in SUBSET S : Chosen(t, q, s) \in Seq(Packets)}
<1>1. ASSUME NEW s \in SUBSET S, \A u \in SUBSET s : u # s => u \in Good
      PROVE  s \in Good
  <2>0. IsFiniteSet(s) /\ s \in SUBSET Int
    BY FS_Subset
  <2>1. CASE s = {}
    <3>1. Chosen(t, q, s) = <<>>
      BY <2>0, <2>1, ChosenStep
    <3> QED
      BY <3>1
  <2>2. CASE s # {}
    <3> DEFINE m == Max(s)
               u == s \ {Max(s)}
    <3>1. m \in s /\ Chosen(t, q, u) \in Seq(Packets)
      BY <1>1, <2>0, <2>2, LastPlace
    <3>2. Chosen(t, q, s) = IF q[m].txq = t THEN Append(Chosen(t, q, u), q[m])
                            ELSE Chosen(t, q, u)
      BY <2>0, <2>2, ChosenStep
    <3>3. q[m] \in Packets
      BY <3>1
    <3> HIDE DEF m, u
    <3>4. Append(Chosen(t, q, u), q[m]) \in Seq(Packets)
      BY <3>1, <3>3, AppendProperties
    <3> QED
      BY <3>1, <3>2, <3>4
  <2> QED
    BY <2>1, <2>2
<1> HIDE DEF Good
<1>2. S \in Good
  BY <1>1, SubsetInduction
<1> QED
  BY <1>2 DEF Good

\* The places of a sequence and their last.
LEMMA Places ==
  ASSUME NEW n \in Nat
  PROVE  /\ 1..n \in SUBSET Int /\ IsFiniteSet(1..n)
         /\ n = 0 => 1..n = {}
         /\ n # 0 => /\ 1..n # {} /\ Max(1..n) = n
                     /\ (1..n) \ {n} = 1..(n - 1) /\ n - 1 \in Nat
<1>1. IsFiniteSet(1..n)
  BY FS_Interval
<1>2. ASSUME n # 0
      PROVE  Max(1..n) = n
  <2> DEFINE S == 1..n
  <2>1. S \in SUBSET Int /\ n \in S /\ \A y \in S : n >= y
    BY <1>2
  <2> HIDE DEF S
  <2>2. Max(S) = n
    BY <2>1, GreatestIsMax
  <2> QED
    BY <2>2 DEF S
<1>3. n # 0 => (1..n) \ {n} = 1..(n - 1)
  OBVIOUS
<1> QED
  BY <1>1, <1>2, <1>3

\* One packet more among the first n of a sequence.
LEMMA ChosenUpTo ==
  ASSUME NEW t, NEW q, NEW n \in Nat
  PROVE  /\ Chosen(t, q, 1..0) = <<>>
         /\ n # 0 => Chosen(t, q, 1..n) = IF q[n].txq = t
                                          THEN Append(Chosen(t, q, 1..(n - 1)), q[n])
                                          ELSE Chosen(t, q, 1..(n - 1))
<1>1. Chosen(t, q, 1..0) = <<>>
  BY Places, ChosenStep
<1>2. ASSUME n # 0
      PROVE  Chosen(t, q, 1..n) = IF q[n].txq = t
                                  THEN Append(Chosen(t, q, 1..(n - 1)), q[n])
                                  ELSE Chosen(t, q, 1..(n - 1))
  <2> DEFINE S == 1..n
             T == 1..(n - 1)
  <2>1. /\ S \in SUBSET Int /\ IsFiniteSet(S) /\ S # {} /\ Max(S) = n
        /\ S \ {n} = T
    BY <1>2, Places
  <2> HIDE DEF S, T
  <2>2. Chosen(t, q, S) = IF q[Max(S)].txq = t
                          THEN Append(Chosen(t, q, S \ {Max(S)}), q[Max(S)])
                          ELSE Chosen(t, q, S \ {Max(S)})
    BY <2>1, ChosenStep
  <2>3. Chosen(t, q, S) = IF q[n].txq = t THEN Append(Chosen(t, q, T), q[n])
                          ELSE Chosen(t, q, T)
    BY <2>1, <2>2
  <2> QED
    BY <2>3 DEF S, T
<1> QED
  BY <1>1, <1>2

\* What For takes out of a sequence of packets: packets; nothing from none; one more
\* if the packet appended is for t.
LEMMA ForOfAppend ==
  ASSUME NEW t, NEW q \in Seq(Packets)
  PROVE  /\ For(t, q) \in Seq(Packets) /\ For(t, <<>>) = <<>>
         /\ \A p \in Packets : For(t, Append(q, p)) = IF p.txq = t THEN Append(For(t, q), p)
                                                    ELSE For(t, q)
<1>1. /\ Len(q) \in Nat /\ DOMAIN q = 1..Len(q) /\ \A i \in 1..Len(q) : q[i] \in Packets
  BY LenProperties, ElementOfSeq
<1>2. For(t, q) \in Seq(Packets)
  <2>1. 1..Len(q) \in SUBSET Int /\ IsFiniteSet(1..Len(q))
    BY <1>1, Places
  <2>2. Chosen(t, q, DOMAIN q) \in Seq(Packets)
    BY <1>1, <2>1, ChosenArePackets
  <2> QED
    BY <2>2, ForIsChosen
<1>3. For(t, <<>>) = <<>>
  <2>1. DOMAIN <<>> = 1..0
    OBVIOUS
  <2> QED
    BY <2>1, ForIsChosen, ChosenUpTo
<1>4. ASSUME NEW p \in Packets
      PROVE  For(t, Append(q, p)) = IF p.txq = t THEN Append(For(t, q), p) ELSE For(t, q)
  <2> DEFINE r == Append(q, p)
             n == Len(q) + 1
             T == 1..Len(q)
  <2>1. /\ DOMAIN r = 1..n /\ r[n] = p /\ \A i \in T : r[i] = q[i]
    BY <1>1, AppendProperties, LenProperties
  <2>2. n \in Nat /\ n # 0 /\ n - 1 = Len(q) /\ T \in SUBSET Int /\ IsFiniteSet(T)
    BY <1>1, Places
  <2> HIDE DEF r
  <2>3. Chosen(t, r, T) = Chosen(t, q, T)
    <3> HIDE DEF T
    <3>1. Agree(r, q, T)
      BY <2>1 DEF Agree
    <3> QED
      BY <2>2, <3>1, ChosenAgree
  <2>4. Chosen(t, r, 1..n) = IF r[n].txq = t THEN Append(Chosen(t, r, 1..(n - 1)), r[n])
                             ELSE Chosen(t, r, 1..(n - 1))
    <3> HIDE DEF n
    <3> QED
      BY <2>2, ChosenUpTo
  <2>5. For(t, r) = Chosen(t, r, 1..n) /\ For(t, q) = Chosen(t, q, T)
    BY <1>1, <2>1, ForIsChosen
  <2>6. 1..(n - 1) = T
    BY <2>2
  <2> HIDE DEF n, T
  <2>7. For(t, r) = IF p.txq = t THEN Append(For(t, q), p) ELSE For(t, q)
    BY <2>1, <2>3, <2>4, <2>5, <2>6
  <2> QED
    BY <2>7 DEF r
<1> QED
  BY <1>2, <1>3, <1>4

\* What it takes out of one packet.
LEMMA ForOfOne ==
  ASSUME NEW t, NEW p \in Packets
  PROVE  For(t, <<p>>) = IF p.txq = t THEN <<p>> ELSE <<>>
<1>1. <<>> \in Seq(Packets) /\ Append(<<>>, p) = <<p>>
  OBVIOUS
<1>2. For(t, Append(<<>>, p)) = IF p.txq = t THEN Append(For(t, <<>>), p) ELSE For(t, <<>>)
  BY <1>1, ForOfAppend
<1> QED
  BY <1>1, <1>2, ForOfAppend

\* A packet in front comes out in front.
LEMMA ForOfPrepend ==
  ASSUME NEW t, NEW q \in Seq(Packets), NEW p \in Packets
  PROVE  For(t, <<p>> \o q) = For(t, <<p>>) \o For(t, q)
<1> DEFINE r == <<p>> \o q
           N == Len(q)
           S == 1..N
           one == For(t, <<p>>)
           Good == {s \in SUBSET S : \A n \in 0..N :
                      s = 1..n => Chosen(t, r, 1..(n + 1)) = one \o Chosen(t, q, 1..n)}
<1>1. /\ N \in Nat /\ DOMAIN q = S /\ \A i \in S : q[i] \in Packets
      /\ r \in Seq(Packets) /\ DOMAIN r = 1..(N + 1) /\ r[1] = p
      /\ \A i \in S : r[i + 1] = q[i]
  <2>1. /\ N \in Nat /\ DOMAIN q = S /\ \A i \in S : q[i] \in Packets
    BY LenProperties, ElementOfSeq
  <2>2. <<p>> \in Seq(Packets) /\ Len(<<p>>) = 1 /\ <<p>>[1] = p
    OBVIOUS
  <2>3. r \in Seq(Packets) /\ Len(r) = 1 + N
    BY <2>2, ConcatProperties
  <2>4. DOMAIN r = 1..(N + 1)
    BY <2>1, <2>3, LenProperties
  <2>5. r[1] = p /\ \A i \in S : r[i + 1] = q[i]
    BY <2>1, <2>2, ConcatProperties
  <2> QED
    BY <2>1, <2>3, <2>4, <2>5
<1>2. one \in Seq(Packets) /\ one = IF p.txq = t THEN <<p>> ELSE <<>>
  <2>1. <<p>> \in Seq(Packets) /\ <<>> \in Seq(Packets)
    OBVIOUS
  <2>2. one = IF p.txq = t THEN <<p>> ELSE <<>>
    BY ForOfOne
  <2> HIDE DEF one
  <2> QED
    BY <2>1, <2>2
<1> HIDE DEF r, N, one
<1>3. \A n \in 0..N : Chosen(t, q, 1..n) \in Seq(Packets)
  <2> SUFFICES ASSUME NEW n \in 0..N
               PROVE  Chosen(t, q, 1..n) \in Seq(Packets)
    OBVIOUS
  <2>1. /\ n \in Nat /\ 1..n \subseteq S
    BY <1>1
  <2>2. 1..n \in SUBSET Int /\ IsFiniteSet(1..n) /\ \A i \in 1..n : q[i] \in Packets
    BY <1>1, <2>1, Places
  <2> QED
    BY <2>2, ChosenArePackets
<1>4. ASSUME NEW s \in SUBSET S, \A u \in SUBSET s : u # s => u \in Good
      PROVE  s \in Good
  <2> SUFFICES ASSUME NEW n \in 0..N, s = 1..n
               PROVE  Chosen(t, r, 1..(n + 1)) = one \o Chosen(t, q, 1..n)
    OBVIOUS
  <2>1. n \in Nat /\ n + 1 \in Nat /\ n + 1 # 0 /\ (n + 1) - 1 = n
    BY <1>1
  <2>2. Chosen(t, r, 1..(n + 1)) = IF r[n + 1].txq = t
                                   THEN Append(Chosen(t, r, 1..n), r[n + 1])
                                   ELSE Chosen(t, r, 1..n)
    <3> DEFINE m == n + 1
    <3>1. m \in Nat /\ m # 0 /\ m - 1 = n
      BY <2>1
    <3> HIDE DEF m
    <3>2. Chosen(t, r, 1..m) = IF r[m].txq = t THEN Append(Chosen(t, r, 1..(m - 1)), r[m])
                               ELSE Chosen(t, r, 1..(m - 1))
      BY <3>1, ChosenUpTo
    <3> QED
      BY <3>1, <3>2 DEF m
  <2>3. CASE n = 0
    <3>1. Chosen(t, r, 1..n) = <<>> /\ Chosen(t, q, 1..n) = <<>>
      BY <2>3, ChosenUpTo
    <3>2. r[n + 1] = p
      BY <1>1, <2>3
    <3>3. Chosen(t, r, 1..(n + 1)) = one
      <4>1. Append(<<>>, p) = <<p>>
        OBVIOUS
      <4> QED
        BY <1>2, <2>2, <3>1, <3>2, <4>1, Zenon
    <3>4. one \o <<>> = one
      BY <1>2
    <3> QED
      BY <3>1, <3>3, <3>4
  <2>4. CASE n # 0
    <3>1. /\ n - 1 \in 0..N /\ n \in S /\ 1..(n - 1) \in SUBSET s
          /\ 1..(n - 1) # s /\ (n - 1) + 1 = n
      BY <1>1, <2>4
    <3>2. 1..(n - 1) \in Good
      BY <1>4, <3>1
    <3>3. Chosen(t, r, 1..((n - 1) + 1)) = one \o Chosen(t, q, 1..(n - 1))
      BY <3>1, <3>2
    <3>4. r[n + 1] = q[n] /\ q[n] \in Packets
      BY <1>1, <3>1
    <3>5. Chosen(t, q, 1..n) = IF q[n].txq = t THEN Append(Chosen(t, q, 1..(n - 1)), q[n])
                               ELSE Chosen(t, q, 1..(n - 1))
      BY <2>1, <2>4, ChosenUpTo
    <3>6. Chosen(t, q, 1..(n - 1)) \in Seq(Packets)
      BY <1>3, <3>1
    <3> DEFINE a == Chosen(t, q, 1..(n - 1))
               b == Chosen(t, r, 1..n)
               c == Chosen(t, r, 1..(n + 1))
               d == Chosen(t, q, 1..n)
               x == q[n]
    <3>7. /\ a \in Seq(Packets) /\ x \in Packets /\ b = one \o a
          /\ c = IF x.txq = t THEN Append(b, x) ELSE b
          /\ d = IF x.txq = t THEN Append(a, x) ELSE a
      BY <2>2, <3>1, <3>3, <3>4, <3>5, <3>6
    <3> HIDE DEF a, b, c, d, x
    <3>8. Append(one \o a, x) = one \o Append(a, x)
      BY <1>2, <3>7
    <3>9. c = one \o d
      BY <3>7, <3>8
    <3> QED
      BY <3>9 DEF c, d
  <2> QED
    BY <2>3, <2>4
<1>5. IsFiniteSet(S) /\ S \in SUBSET S
  BY <1>1, FS_Interval
<1>6. S \in Good
  <2> HIDE DEF Good, S
  <2>1. \A s \in SUBSET S : s \in Good
    BY <1>4, <1>5, SubsetInduction
  <2> QED
    BY <1>5, <2>1
<1>7. Chosen(t, r, 1..(N + 1)) = one \o Chosen(t, q, S)
  <2>1. N \in 0..N /\ S = 1..N
    BY <1>1
  <2>2. \A n \in 0..N : S = 1..n => Chosen(t, r, 1..(n + 1)) = one \o Chosen(t, q, 1..n)
    BY <1>6
  <2> HIDE DEF S, Good
  <2> QED
    BY <2>1, <2>2, Zenon
<1>8. For(t, r) = Chosen(t, r, 1..(N + 1)) /\ For(t, q) = Chosen(t, q, S)
  BY <1>1, ForIsChosen
<1> QED
  BY <1>7, <1>8 DEF r, one

-----------------------------------------------------------------------------
\* What the transmitter and the device queue of t hold, and what the queue disc does.
Sending(t) == Held(inFlight[t]) \o devQueue[t]
Waiting == Held(requeued) \o backlog

\* What they hold are packets.
LEMMA PipeParts ==
  ASSUME FlowInv, NEW t \in TxQueues
  PROVE  Sending(t) \in Seq(Packets) /\ Waiting \in Seq(Packets)
<1>1. ASSUME NEW p \in Packets \cup {NoPacket}
      PROVE  Held(p) \in Seq(Packets)
  BY DEF Held
<1>2. /\ devQueue[t] \in Seq(Packets) /\ inFlight[t] \in Packets \cup {NoPacket}
      /\ backlog \in Seq(Packets) /\ requeued \in Packets \cup {NoPacket}
  BY DEF FlowInv, DiscInv, DeviceInv, DeviceTypeOK
<1>3. Held(inFlight[t]) \in Seq(Packets) /\ Held(requeued) \in Seq(Packets)
  BY <1>1, <1>2
<1> QED
  BY <1>2, <1>3, ConcatProperties DEF Sending, Waiting

\* DequeuePacket takes the first of the packets that wait.
LEMMA DequeueTakesFirst ==
  ASSUME FlowInv, DequeuePacket
  PROVE  /\ NextPacket \in Packets /\ backlog' \in Seq(Packets)
         /\ Waiting = <<NextPacket>> \o backlog'
<1>1. backlog \in Seq(Packets) /\ requeued \in Packets \cup {NoPacket}
  BY DEF FlowInv, DiscInv
<1>2. CASE requeued # NoPacket
  <2>1. NextPacket = requeued /\ backlog' = backlog
    BY <1>2 DEF DequeuePacket, NextPacket
  <2> QED
    BY <1>1, <1>2, <2>1 DEF Waiting, Held
<1>3. CASE requeued = NoPacket
  <2>1. backlog # <<>> /\ NextPacket = Head(backlog) /\ backlog' = Tail(backlog)
    BY <1>3 DEF DequeuePacket, NextPacket
  <2>2. Head(backlog) \in Packets /\ Tail(backlog) \in Seq(Packets)
    BY <1>1, <2>1, HeadTailProperties
  <2>3. <<>> \o backlog = backlog /\ <<Head(backlog)>> \o Tail(backlog) = backlog
    BY <1>1, <2>1
  <2> QED
    BY <1>3, <2>1, <2>2, <2>3 DEF Waiting, Held
<1> QED
  BY <1>2, <1>3

\* The start of a transmission leaves what t is sending, given what its transmitter
\* and queue hold before.
LEMMA StartKeepsOrder ==
  ASSUME FlowInv, NEW t \in TxQueues, NEW q \in Seq(Packets), q # <<>>,
         NEW byDevice, NEW byLimits, TransmitStart(t, q, byDevice, byLimits)
  PROVE  /\ Sending(t)' = q
         /\ \A u \in TxQueues : u # t => Sending(u)' = Sending(u)
<1>1. /\ inFlight \in [TxQueues -> Packets \cup {NoPacket}]
      /\ devQueue \in [TxQueues -> Seq(Packets)]
  BY DEF FlowInv, DeviceInv, DeviceTypeOK
<1>2. /\ inFlight' = [inFlight EXCEPT ![t] = Head(q)]
      /\ devQueue' = [devQueue EXCEPT ![t] = Tail(q)]
  BY DEF TransmitStart
<1>3. Head(q) \in Packets /\ Head(q) # NoPacket /\ <<Head(q)>> \o Tail(q) = q
  BY HeadTailProperties, PacketFields
<1>4. inFlight'[t] = Head(q) /\ devQueue'[t] = Tail(q)
  BY <1>1, <1>2
<1>5. \A u \in TxQueues : u # t => inFlight'[u] = inFlight[u] /\ devQueue'[u] = devQueue[u]
  BY <1>1, <1>2
<1> QED
  BY <1>3, <1>4, <1>5 DEF Sending, Held

\* A packet the device accepts is sent after those it has.
LEMMA AcceptedIsLast ==
  ASSUME FlowInv, NEW t \in TxQueues, NEW p \in Packets, Accept(t, p)
  PROVE  /\ Sending(t)' = Append(Sending(t), p)
         /\ \A u \in TxQueues : u # t => Sending(u)' = Sending(u)
<1> DEFINE q == Append(devQueue[t], p)
<1>1. /\ devQueue \in [TxQueues -> Seq(Packets)] /\ devQueue[t] \in Seq(Packets)
      /\ inFlight[t] \in Packets \cup {NoPacket}
      /\ inFlight[t] = NoPacket => devQueue[t] = <<>>
  BY DEF FlowInv, DeviceInv, DeviceTypeOK, QueueInv
<1>2. q \in Seq(Packets) /\ q # <<>>
  BY <1>1, AppendProperties
<1>3. \/ /\ inFlight[t] = NoPacket
         /\ \E byDevice, byLimits : TransmitStart(t, q, byDevice, byLimits)
      \/ /\ inFlight[t] # NoPacket
         /\ devQueue' = [devQueue EXCEPT ![t] = q] /\ inFlight' = inFlight
  BY DEF Accept
<1>4. CASE inFlight[t] = NoPacket
  <2>1. Sending(t)' = q /\ \A u \in TxQueues : u # t => Sending(u)' = Sending(u)
    <3> HIDE DEF q
    <3> QED
      BY <1>2, <1>3, <1>4, StartKeepsOrder
  <2>2. Sending(t) = devQueue[t]
    BY <1>1, <1>4 DEF Sending, Held
  <2> QED
    BY <2>1, <2>2
<1>5. CASE inFlight[t] # NoPacket
  <2>1. /\ devQueue'[t] = q /\ inFlight' = inFlight
        /\ \A u \in TxQueues : u # t => devQueue'[u] = devQueue[u]
    BY <1>1, <1>3, <1>5
  <2>2. <<inFlight[t]>> \o Append(devQueue[t], p) = Append(<<inFlight[t]>> \o devQueue[t], p)
    BY <1>1, <1>5
  <2> QED
    BY <1>5, <2>1, <2>2 DEF Sending, Held
<1> QED
  BY <1>4, <1>5

\* An arrival: the packet is the last of its transmission queue, or dropped.
LEMMA SendIsAccept ==
  ASSUME FlowInv, NEW p \in Packets, Send(p)
  PROVE  [L!Next]_L!vars
<1>1. /\ backlog \in Seq(Packets) /\ Waiting \in Seq(Packets)
      /\ \A t \in TxQueues : Sending(t) \in Seq(Packets)
  BY PipeParts, PacketFields DEF FlowInv, DiscInv
<1>2. UNCHANGED <<inFlight, devQueue, requeued>>
  BY DEF Send, device
<1>3. CASE backlog' = backlog
  BY <1>2, <1>3 DEF Pipe, L!vars
<1>4. CASE backlog' = Append(backlog, p)
  <2>1. Waiting' = Append(Waiting, p)
    <3>1. Held(requeued) \in Seq(Packets)
      BY DEF FlowInv, DiscInv, Held
    <3>2. Held(requeued) \o Append(backlog, p) = Append(Held(requeued) \o backlog, p)
      BY <1>1, <3>1
    <3> QED
      BY <1>2, <1>4, <3>2 DEF Waiting
  <2>2. \A t \in TxQueues : For(t, Append(Waiting, p)) = IF p.txq = t THEN Append(For(t, Waiting), p)
                                                       ELSE For(t, Waiting)
    BY <1>1, ForOfAppend
  <2>3. ASSUME NEW t \in TxQueues
        PROVE  Pipe(t)' = IF p.txq = t THEN Append(Pipe(t), p) ELSE Pipe(t)
    <3>1. For(t, Waiting) \in Seq(Packets) /\ Sending(t) \in Seq(Packets)
      BY <1>1, ForOfAppend
    <3>2. Sending(t) \o Append(For(t, Waiting), p) = Append(Sending(t) \o For(t, Waiting), p)
      BY <3>1
    <3>3. Pipe(t) = Sending(t) \o For(t, Waiting)
      BY DEF Pipe, Sending, Waiting
    <3>4. Pipe(t)' = Sending(t) \o For(t, Append(Waiting, p))
      BY <1>2, <2>1 DEF Pipe, Sending, Waiting
    <3> QED
      BY <2>2, <3>2, <3>3, <3>4
  <2>4. p.txq \in TxQueues
    BY PacketFields
  <2>5. L!Accept(p)
    BY <2>3, <2>4 DEF L!Accept
  <2> QED
    BY <2>5 DEF L!Next
<1> QED
  BY <1>3, <1>4 DEF Send, Enqueued

\* The loop of Run moves packets from the queue disc to the device: what either has
\* of a transmission queue stays in order.
LEMMA RunKeepsOrder ==
  ASSUME FlowInv, Restart, \A p \in Packets : ~(Transmit(p) /\ Discard(p.txq, p)),
         NEW t \in TxQueues
  PROVE  Pipe(t)' = Pipe(t)
<1>0. Pipe(t) = Sending(t) \o For(t, Waiting) /\ Pipe(t)' = Sending(t)' \o For(t, Waiting')
  BY DEF Pipe, Sending, Waiting
<1>1. CASE RunEnds
  BY <1>1 DEF RunEnds, Pipe, disc, device
<1>2. CASE Requeue
  <2>1. /\ requeued' = NextPacket /\ NextPacket # NoPacket /\ DequeuePacket
        /\ UNCHANGED <<inFlight, devQueue>>
    BY <1>2 DEF Requeue, DequeuePacket, device
  <2>2. Waiting' = <<NextPacket>> \o backlog'
    BY <2>1 DEF Waiting, Held
  <2>3. Waiting' = Waiting
    BY <2>1, <2>2, DequeueTakesFirst
  <2> QED
    BY <1>0, <2>1, <2>3 DEF Sending
<1>3. ASSUME NEW p \in Packets, Transmit(p)
      PROVE  Pipe(t)' = Pipe(t)
  <2>1. /\ p = NextPacket /\ DequeuePacket /\ requeued' = NoPacket /\ Accept(p.txq, p)
        /\ p.txq \in TxQueues
    BY <1>3, PacketFields DEF Transmit, DeviceSend
  <2>2. Waiting = <<p>> \o backlog' /\ backlog' \in Seq(Packets)
    BY <2>1, DequeueTakesFirst
  <2>3. Waiting' = backlog'
    BY <2>1, <2>2 DEF Waiting, Held
  <2>4. /\ For(t, Waiting) = (IF p.txq = t THEN <<p>> ELSE <<>>) \o For(t, backlog')
        /\ For(t, backlog') \in Seq(Packets)
    <3>1. For(t, <<p>> \o backlog') = For(t, <<p>>) \o For(t, backlog')
      BY <2>2, ForOfPrepend
    <3>2. For(t, <<p>>) = IF p.txq = t THEN <<p>> ELSE <<>>
      BY ForOfOne
    <3>3. For(t, backlog') \in Seq(Packets)
      BY <2>2, ForOfAppend
    <3> QED
      BY <2>2, <3>1, <3>2, <3>3, Zenon
  <2>5. Sending(t) \in Seq(Packets)
    BY PipeParts
  <2>6. Sending(t)' = IF p.txq = t THEN Append(Sending(t), p) ELSE Sending(t)
    BY <2>1, AcceptedIsLast
  <2> DEFINE a == Sending(t)
             c == For(t, backlog')
  <2>7. CASE p.txq = t
    <3>1. For(t, Waiting) = <<p>> \o c
      BY <2>4, <2>7
    <3>2. a \in Seq(Packets) /\ c \in Seq(Packets)
      BY <2>4, <2>5
    <3>3. Pipe(t) = a \o (<<p>> \o c)
      BY <1>0, <3>1
    <3>4. Pipe(t)' = Append(a, p) \o c
      BY <1>0, <2>3, <2>6, <2>7
    <3> HIDE DEF a, c
    <3>5. a \o (<<p>> \o c) = Append(a, p) \o c
      BY <3>2
    <3> QED
      BY <3>3, <3>4, <3>5
  <2>8. CASE p.txq # t
    <3>1. For(t, Waiting) = <<>> \o c
      BY <2>4, <2>8
    <3>2. <<>> \o c = c
      BY <2>4
    <3> QED
      BY <1>0, <2>3, <2>6, <2>8, <3>1, <3>2
  <2> QED
    BY <2>7, <2>8
<1> QED
  BY <1>1, <1>2, <1>3 DEF Restart

\* The end of a transmission: the first packet of the queue has been sent.
LEMMA CompletionIsDelivery ==
  ASSUME FlowInv, NEW t \in TxQueues, TransmitComplete(t)
  PROVE  L!Next
<1>1. /\ inFlight \in [TxQueues -> Packets \cup {NoPacket}] /\ inFlight[t] # NoPacket
      /\ devQueue[t] \in Seq(Packets) /\ UNCHANGED <<requeued, backlog>>
  BY DEF FlowInv, DeviceInv, DeviceTypeOK, TransmitComplete, disc
<1>2. /\ Sending(t)' = devQueue[t]
      /\ \A u \in TxQueues : u # t => Sending(u)' = Sending(u)
  <2>1. CASE devQueue[t] = <<>>
    <3>1. inFlight' = [inFlight EXCEPT ![t] = NoPacket] /\ devQueue' = devQueue
      BY <2>1 DEF TransmitComplete
    <3>2. /\ inFlight'[t] = NoPacket /\ devQueue'[t] = <<>>
          /\ \A u \in TxQueues : u # t => inFlight'[u] = inFlight[u]
      BY <1>1, <2>1, <3>1
    <3>3. Sending(t)' = devQueue[t]
      <4>1. Sending(t)' = Held(NoPacket) \o devQueue[t]
        BY <3>1, <3>2 DEF Sending
      <4> QED
        BY <1>1, <4>1 DEF Held
    <3> QED
      BY <3>1, <3>2, <3>3 DEF Sending
  <2>2. CASE devQueue[t] # <<>>
    <3>1. TransmitStart(t, devQueue[t], stoppedByDevice[t], stoppedByLimits[t])
      BY <2>2 DEF TransmitComplete
    <3> QED
      BY <1>1, <2>2, <3>1, StartKeepsOrder
  <2> QED
    BY <2>1, <2>2
<1>3. \A u \in TxQueues : /\ Pipe(u) = Sending(u) \o For(u, Waiting)
                         /\ Pipe(u)' = Sending(u)' \o For(u, Waiting)
  BY <1>1 DEF Pipe, Sending, Waiting
<1>4. Pipe(t) # <<>> /\ Pipe(t)' = Tail(Pipe(t))
  <2> DEFINE c == For(t, Waiting)
             d == devQueue[t]
             p == inFlight[t]
  <2>1. c \in Seq(Packets) /\ d \in Seq(Packets) /\ p \in Packets
    BY <1>1, PipeParts, ForOfAppend
  <2>2. Pipe(t) = (<<p>> \o d) \o c /\ Pipe(t)' = d \o c
    BY <1>1, <1>2, <1>3 DEF Sending, Held
  <2> HIDE DEF c, d, p
  <2>3. (<<p>> \o d) \o c # <<>> /\ Tail((<<p>> \o d) \o c) = d \o c
    BY <2>1
  <2> QED
    BY <2>2, <2>3
<1>5. L!Deliver(t)
  <2>1. \A u \in TxQueues : Pipe(u)' = IF u = t THEN Tail(Pipe(u)) ELSE Pipe(u)
    BY <1>2, <1>3, <1>4
  <2> QED
    BY <1>4, <2>1 DEF L!Deliver
<1> QED
  BY <1>5 DEF L!Next

\* ImplementsLink, without its fairness: with a queue disc that stays installed, each
\* transmission queue and what the queue disc and m_requeued hold for it are one
\* first-in first-out pipe that loses nothing it has accepted, whatever stops, wakes
\* and requeues come between.
THEOREM QueuesAreLossless ==
  ASSUME DeviceFits, ByteMode => \A s \in Sizes : s + Header <= Mtu,
         "uninstall" \notin Changes
  PROVE  Spec => L!Spec
<1> DEFINE Running == root = "running"
<1>1. Init => Running /\ L!Init
  <2> SUFFICES ASSUME Init PROVE L!Init
    BY DEF Init
  <2>1. <<>> \in Seq(Packets) /\ <<>> \o <<>> = <<>>
    OBVIOUS
  <2>2. \A t \in TxQueues : Pipe(t) = <<>>
    BY <2>1, ForOfAppend DEF Init, Pipe, Held
  <2> QED
    BY <2>2 DEF L!Init
<1>2. FlowInv /\ Running /\ [Next]_vars => Running' /\ [L!Next]_L!vars
  <2> SUFFICES ASSUME FlowInv, root = "running", [Next]_vars
               PROVE  root' = "running" /\ [L!Next]_L!vars
    OBVIOUS
  <2>1. ASSUME UNCHANGED <<inFlight, devQueue, requeued, backlog>>
        PROVE  UNCHANGED L!vars
    BY <2>1 DEF Pipe, L!vars
  <2>2. CASE UNCHANGED vars
    BY <2>1, <2>2 DEF vars, disc, device
  <2>3. ASSUME Next
        PROVE  root' = "running" /\ [L!Next]_L!vars
    <3>1. CASE \E p \in Packets : Send(p)
      BY <3>1, SendIsAccept DEF Send
    <3>2. CASE Restart
      <4>1. \A t \in TxQueues : Pipe(t)' = Pipe(t)
        BY <3>2, QueueHasRoom, RunKeepsOrder
      <4>2. root' = root
        BY <3>2 DEF Restart, RunEnds, Requeue, Transmit, disc
      <4> QED
        BY <4>1, <4>2 DEF L!vars
    <3>3. CASE \E t \in TxQueues : WakeRun(t)
      BY <2>1, <3>3 DEF WakeRun, device
    <3>4. CASE \E t \in TxQueues : TransmitComplete(t)
      BY <3>4, CompletionIsDelivery DEF TransmitComplete, disc
    <3>5. \/ \E p \in Packets : Send(p)
          \/ Restart
          \/ \E t \in TxQueues : WakeRun(t)
          \/ \E t \in TxQueues : TransmitComplete(t)
      BY <2>3 DEF Next, SendDirect, WakeNull, DeleteRootQueueDisc, SetRootQueueDisc,
                  SendUnscanned
    <3> QED
      BY <3>1, <3>2, <3>3, <3>4, <3>5
  <2> QED
    BY <2>2, <2>3
<1> HIDE DEF Running
<1> QED
  BY <1>1, <1>2, FlowIsInvariant, PTL DEF Spec, L!Spec
=============================================================================
