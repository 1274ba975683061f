-------------------------------- MODULE DRR --------------------------------
(***************************************************************************)
(* DRRQueueDisc, the Deficit Round Robin queue disc, with the CoDel child   *)
(* queue disc of every flow as DRR uses it and the bookkeeping both inherit *)
(* from QueueDisc.                                                          *)
(*                                                                          *)
(* A packet is its size in bytes; a flow is the value h that DoEnqueue      *)
(* computes from the classification (the unclassified packets are one more  *)
(* flow).  The simulator is single threaded, so a call of DoEnqueue or      *)
(* DoDequeue runs to its end before the next one starts; their loops are    *)
(* taken one iteration per step, and pc says which loop is running.         *)
(*                                                                          *)
(* The operators marked as a fault are slips the code does not have; each   *)
(* is a wrong form of the operator that follows it.                         *)
(***************************************************************************)
EXTENDS Integers, SequencesExt

CONSTANTS Flows,        \* the flow queues, m_flows + 1 of them
          Sizes,        \* the packet sizes that arrive
          Quanta,       \* the values SetQuantum may be given
          Limit,        \* m_limit, the attribute ByteLimit
          ChildMaxSize, \* the attribute MaxSize of the child CoDel, in bytes
          MinBytes,     \* the attribute MinBytes of the child CoDel
          Word,         \* 2^32: DRRFlow::m_deficit is a uint32_t
          MaxBacklog,   \* bound: the bytes the senders keep queued at a time
          MaxDeficit    \* bound: they pause while some flow's deficit exceeds it

ASSUME SizesAssumption == Sizes \subseteq Nat \ {0} /\ Sizes # {}
ASSUME QuantaAssumption == Quanta \subseteq Nat
ASSUME LimitsAssumption == /\ Limit \in Nat
                           /\ ChildMaxSize \in Nat
                           /\ MinBytes \in Nat
                           /\ MaxBacklog \in Nat
                           /\ MaxDeficit \in Nat
ASSUME WordAssumption == /\ Word \in Nat \ {0}
                         /\ \A q \in Quanta, s \in Sizes : q + s < Word

VARIABLES
  classes,      \* m_classes: the flows with a class, in order of creation
  flowList,     \* m_flowList: the flows in round robin order
  status,       \* DRRFlow::m_status
  deficit,      \* DRRFlow::m_deficit
  quantum,      \* m_quantum
  queue,        \* the internal queue of the flow's child queue disc
  held,         \* the child's m_requeued while the child's m_peeked is set
  childPackets, \* the child's m_nPackets
  childBytes,   \* the child's m_nBytes
  nPackets,     \* m_nPackets of the DRR queue disc
  nBytes,       \* m_nBytes of the DRR queue disc
  pc            \* which loop of which handler is running

child == <<queue, held, childPackets, childBytes>>
total == <<nPackets, nBytes>>
vars == <<classes, flowList, status, deficit, quantum, child, total, pc>>

NoPacket == 0  \* a null Ptr<QueueDiscItem>

\* The bytes stored in an internal queue, Queue::m_nBytes.
Bytes(q) == FoldSeq(+, 0, q)

Init ==
  /\ classes = <<>>
  /\ flowList = <<>>
  /\ status = [f \in Flows |-> "INACTIVE"]
  /\ deficit = [f \in Flows |-> 0]
  /\ quantum \in Quanta \ {0}
  /\ queue = [f \in Flows |-> <<>>]
  /\ held = [f \in Flows |-> NoPacket]
  /\ childPackets = [f \in Flows |-> 0]
  /\ childBytes = [f \in Flows |-> 0]
  /\ nPackets = 0
  /\ nBytes = 0
  /\ pc = "idle"

\* Fault: the child's trace is not connected to the DRR queue disc.
CountedByChildOnly(f, size) ==
  /\ childPackets' = [childPackets EXCEPT ![f] = @ - 1]
  /\ childBytes' = [childBytes EXCEPT ![f] = @ - size]
  /\ UNCHANGED total

(***************************************************************************)
(* A packet leaves child f for good, sent or dropped: PacketDequeued of the *)
(* child, whose Dequeue trace runs PacketDequeued of the DRR queue disc.    *)
(***************************************************************************)
PacketDequeued(f, size) ==
  /\ childPackets' = [childPackets EXCEPT ![f] = @ - 1]
  /\ childBytes' = [childBytes EXCEPT ![f] = @ - size]
  /\ nPackets' = nPackets - 1
  /\ nBytes' = nBytes - size

-----------------------------------------------------------------------------
\* Fault: an if where the code has a while.
DropOnce == IF pc = "idle" /\ nBytes' > Limit THEN "overlimit" ELSE "idle"

\* The condition of the loop that ends DoEnqueue.
AfterEnqueue == IF nBytes' > Limit THEN "overlimit" ELSE "idle"

\* CoDelQueueDisc::DoEnqueue stores the packet, and both queue discs count it.
ChildAccepts(f, size) ==
  /\ childBytes[f] + size <= ChildMaxSize
  /\ queue' = [queue EXCEPT ![f] = Append(@, size)]
  /\ childPackets' = [childPackets EXCEPT ![f] = @ + 1]
  /\ childBytes' = [childBytes EXCEPT ![f] = @ + size]
  /\ nPackets' = nPackets + 1
  /\ nBytes' = nBytes + size

\* CoDelQueueDisc::DoEnqueue drops the packet; DRR ignores that it did.
ChildRefuses(f, size) ==
  /\ childBytes[f] + size > ChildMaxSize
  /\ UNCHANGED <<queue, childPackets, childBytes, total>>

\* Fault: the flow is listed only when it is created.
ListedWhenCreated(f) == IF f \in ToSet(classes) THEN flowList ELSE Append(flowList, f)

\* The list after DoEnqueue: an inactive flow goes to its end.
Activated(f) == IF status[f] = "INACTIVE" THEN Append(flowList, f) ELSE flowList

\* DoEnqueue up to its loop: classify, store, put an inactive flow on the list.
Enqueue(f, size) ==
  /\ pc = "idle"
  /\ nBytes + size <= MaxBacklog
  /\ \A g \in Flows : deficit[g] <= MaxDeficit
  /\ classes' = IF f \in ToSet(classes) THEN classes ELSE Append(classes, f)
  /\ ChildAccepts(f, size) \/ ChildRefuses(f, size)
  /\ status' = [status EXCEPT ![f] = "ACTIVE"]
  /\ flowList' = Activated(f)
  /\ pc' = AfterEnqueue
  /\ UNCHANGED <<deficit, quantum, held>>

\* Fault: the last class visited wins, whatever its bytes.
IsLatest(f) == classes # <<>> /\ f = Last(classes)

\* The class DRRDrop picks: the first one created of those with the most bytes.
IsFattest(f) ==
  \E i \in DOMAIN classes :
    /\ f = classes[i]
    /\ \A j \in DOMAIN classes :
         childBytes[classes[j]] < childBytes[f]
           \/ (j >= i /\ childBytes[classes[j]] = childBytes[f])

\* DRRDrop takes the head of the fat flow's internal queue.  A child that holds
\* a peeked packet has m_peeked set, and its PacketDequeued counts nothing.
DropHead(f) ==
  /\ pc = "overlimit" /\ IsFattest(f)
  /\ queue[f] # <<>>
  /\ queue' = [queue EXCEPT ![f] = Tail(@)]
  /\ IF held[f] = NoPacket THEN PacketDequeued(f, Head(queue[f]))
                           ELSE UNCHANGED <<childPackets, childBytes, total>>
  /\ pc' = AfterEnqueue
  /\ UNCHANGED <<classes, flowList, status, deficit, quantum, held>>

\* DRRDrop gets a null packet from the fat flow and dereferences it.
DropNull(f) ==
  /\ pc = "overlimit" /\ IsFattest(f)
  /\ queue[f] = <<>>
  /\ pc' = "fault"
  /\ UNCHANGED <<classes, flowList, status, deficit, quantum, child, total>>

DRRDrop == \E f \in Flows : DropHead(f) \/ DropNull(f)

-----------------------------------------------------------------------------
\* Flow f is the one the next iteration of the loop of DoDequeue visits.
Visiting(f) ==
  /\ pc \in {"idle", "dequeue"}
  /\ flowList # <<>>
  /\ f = Head(flowList)

\* What Peek on the child returns: the packet it holds, else the queue's head.
Peek(f) ==
  IF held[f] # NoPacket THEN held[f]
  ELSE IF queue[f] # <<>> THEN Head(queue[f])
  ELSE NoPacket

\* Faults: the deficit never wraps, is credited twice.
WideCredit(f) == deficit[f] + quantum
DoubleCredit(f) == (deficit[f] + 2 * quantum) % Word

\* The deficit after IncreaseDeficit (m_quantum).
Credit(f) == (deficit[f] + quantum) % Word

\* Fault: > where the code has >=.
CoveredWithRest(f) == Credit(f) > Peek(f)

\* The test of DoDequeue that decides whether the peeked packet is sent.
Covered(f) == Credit(f) >= Peek(f)

\* Fault: the count is off by one.
AlmostEmpty(f) == childPackets'[f] <= 1

\* GetNPackets () == 0 on the child whose packet was just taken.
Emptied(f) == childPackets'[f] = 0

\* Fault: the flow goes back to the front of the list.
NotRotated(f) == <<f>> \o Tail(flowList)

\* The list once flow f, its head, was pushed to its end.
Rotated(f) == Append(Tail(flowList), f)

\* The peek of a child that holds no packet runs CoDelQueueDisc::DoDequeue, which
\* may drop heads of its queue as long as MinBytes remain behind each of them.
CoDelDrop(f) ==
  /\ Visiting(f)
  /\ held[f] = NoPacket /\ queue[f] # <<>>
  /\ Bytes(Tail(queue[f])) >= MinBytes
  /\ queue' = [queue EXCEPT ![f] = Tail(@)]
  /\ PacketDequeued(f, Head(queue[f]))
  /\ pc' = "dequeue"
  /\ UNCHANGED <<classes, flowList, status, deficit, quantum, held>>

\* The deficit covers the packet: it is sent, and an empty flow turns inactive.
Serve(f) ==
  /\ Visiting(f)
  /\ Peek(f) # NoPacket /\ Covered(f)
  /\ PacketDequeued(f, Peek(f))
  /\ IF held[f] = NoPacket
       THEN queue' = [queue EXCEPT ![f] = Tail(@)] /\ UNCHANGED held
       ELSE held' = [held EXCEPT ![f] = NoPacket] /\ UNCHANGED queue
  /\ IF Emptied(f)
       THEN /\ deficit' = [deficit EXCEPT ![f] = 0]
            /\ status' = [status EXCEPT ![f] = "INACTIVE"]
            /\ flowList' = Tail(flowList)
       ELSE /\ deficit' = [deficit EXCEPT ![f] = Credit(f) - Peek(f)]
            /\ flowList' = Rotated(f)
            /\ UNCHANGED status
  /\ pc' = "idle"
  /\ UNCHANGED <<classes, quantum>>

\* The deficit is too small: the child keeps the peeked packet, out of its
\* internal queue, and the flow goes to the end of the list.
Defer(f) ==
  /\ Visiting(f)
  /\ Peek(f) # NoPacket /\ ~Covered(f)
  /\ held' = [held EXCEPT ![f] = Peek(f)]
  /\ queue' = IF held[f] = NoPacket THEN [queue EXCEPT ![f] = Tail(@)] ELSE queue
  /\ deficit' = [deficit EXCEPT ![f] = Credit(f)]
  /\ flowList' = Rotated(f)
  /\ pc' = "dequeue"
  /\ UNCHANGED <<classes, status, quantum, childPackets, childBytes, total>>

\* The listed flow has no packet: DoDequeue dereferences the null peek.
PeekNull(f) ==
  /\ Visiting(f)
  /\ Peek(f) = NoPacket
  /\ flowList' = Tail(flowList)
  /\ deficit' = [deficit EXCEPT ![f] = Credit(f)]
  /\ pc' = "fault"
  /\ UNCHANGED <<classes, status, quantum, child, total>>

Visit == \E f \in Flows : Serve(f) \/ Defer(f) \/ PeekNull(f)

-----------------------------------------------------------------------------
SetQuantum(q) ==
  /\ pc = "idle"
  /\ quantum' = q
  /\ UNCHANGED <<classes, flowList, status, deficit, child, total, pc>>

Next ==
  \/ \E f \in Flows, size \in Sizes : Enqueue(f, size)
  \/ DRRDrop
  \/ \E f \in Flows : CoDelDrop(f)
  \/ Visit
  \/ \E q \in Quanta : SetQuantum(q)

Spec == Init /\ [][Next]_vars

(***************************************************************************)
(* A handler that has started runs to its end, and Dequeue is called again  *)
(* and again: the device asks for the next packet whenever it has sent one, *)
(* and only finitely many arrivals happen before that event.  Arrivals and  *)
(* SetQuantum are not fair, nor is CoDel made to drop.                      *)
(***************************************************************************)
FairSpec == Spec /\ WF_vars(DRRDrop) /\ SF_vars(Visit)

-----------------------------------------------------------------------------
\* The types of the fields, of the code's queue disc, flow and child classes.
TypeOK ==
  /\ classes \in Seq(Flows)
  /\ flowList \in Seq(Flows)
  /\ status \in [Flows -> {"INACTIVE", "ACTIVE"}]
  /\ deficit \in [Flows -> 0..Word - 1]
  /\ quantum \in Quanta
  /\ queue \in [Flows -> Seq(Sizes)]
  /\ held \in [Flows -> Sizes \cup {NoPacket}]
  /\ childPackets \in [Flows -> Int]
  /\ childBytes \in [Flows -> Int]
  /\ nPackets \in Int
  /\ nBytes \in Int
  /\ pc \in {"idle", "overlimit", "dequeue", "fault"}

\* No flow is on m_flowList twice: a second entry would give it two visits a
\* round and survive the flow's turning inactive.
NoDuplicates ==
  \A i, j \in DOMAIN flowList : flowList[i] = flowList[j] => i = j

\* A flow is on m_flowList exactly while its status is ACTIVE (outside the
\* visit that crashes): DoEnqueue and DoDequeue keep the two in step.
ListedIffActive ==
  pc # "fault" => \A f \in Flows : status[f] = "ACTIVE" <=> f \in ToSet(flowList)

\* The list and the statuses, which DoEnqueue and DoDequeue change one after the
\* other, describe the same set of flows, each with one turn a round.
ListIsExact == NoDuplicates /\ ListedIffActive

\* A flow that went inactive has nothing left behind: no stored packet, no
\* peeked packet and no deficit it could spend when it comes back.
InactiveIsReset ==
  \A f \in Flows : status[f] = "INACTIVE" =>
    queue[f] = <<>> /\ held[f] = NoPacket /\ deficit[f] = 0 /\ childPackets[f] = 0

\* A child holds a peeked packet only while the flow's deficit is short of it,
\* so the flow waits for quanta and for nothing else.
HeldIsShort ==
  \A f \in Flows : held[f] # NoPacket => deficit[f] < held[f]

\* The packets inside child f, the one it holds for a peek included.
Stored(f) == (IF held[f] = NoPacket THEN <<>> ELSE <<held[f]>>) \o queue[f]

\* Between the steps of DRRDrop, the counters that the limit, the choice of the
\* fat flow and the end of a flow's activity are computed from agree with the
\* packets the flow queues really hold.
CountersExact ==
  pc \in {"idle", "dequeue"} =>
    /\ \A f \in Flows : /\ childPackets[f] = Len(Stored(f))
                         /\ childBytes[f] = Bytes(Stored(f))
    /\ nPackets = FoldFunction(+, 0, childPackets)
    /\ nBytes = FoldFunction(+, 0, childBytes)

\* No call of DoEnqueue returns with more than ByteLimit bytes queued.
LimitAtRest == pc \in {"idle", "dequeue"} => nBytes <= Limit

\* Every flow with a packet is on the list with a packet to send (drr.rst: a
\* queue with no more packets is marked inactive and removed from the list).
ActiveHasPackets ==
  pc = "idle" => \A f \in Flows : status[f] = "ACTIVE" => Stored(f) # <<>>

\* With no quantum above the smallest packet, no flow saves up a deficit worth
\* a largest packet, however long it stays active.
DeficitBound ==
  pc # "fault" => \A f \in Flows : \E size \in Sizes : deficit[f] < size

\* With every quantum at least the largest packet, no child is left with a
\* peeked packet between two calls, the state DRRDrop cannot handle.
NothingHeld == \A f \in Flows : held[f] = NoPacket

\* The flow DRRDrop is about to take a packet of holds another one for a peek.
Wedged == pc = "overlimit" /\ \E f \in Flows : IsFattest(f) /\ held[f] # NoPacket

\* From there DoEnqueue never returns: no count goes down, so DRRDrop empties
\* the same internal queue until it dereferences a null packet.
HeldDropIsFatal == [][Wedged => Wedged' \/ pc' = "fault"]_vars

\* No flow starves: the loop of DoDequeue ends, some flow's deficit reaching its
\* packet, and a flow that stays active has packets sent again and again.
NoStarvation ==
  \A f \in Flows : []<>(status[f] = "INACTIVE") \/ []<><<Serve(f)>>_vars
=============================================================================
