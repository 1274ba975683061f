---------------------------- MODULE FlowControl ----------------------------
(***************************************************************************)
(* The path of a packet from TrafficControlLayer::Send through the root     *)
(* queue disc of a device, QueueDisc::Run and the flow control of           *)
(* NetDeviceQueue into a device's transmission queues and onto the wire.    *)
(*                                                                          *)
(* The root queue disc is seen as its base class sees it, a store that      *)
(* hands out packets in some order: here FifoQueueDisc's.  Each device      *)
(* queue is a DropTailQueue in front of the transmitter of a                *)
(* PointToPointNetDevice; that device has one of them, TxQueues with more   *)
(* stands for a multi-queue device whose queues work the same way.          *)
(*                                                                          *)
(* One step is one simulator event (an arrival, the end of a transmission,  *)
(* a wake callback), except that the loop of Run takes a step a packet.     *)
(***************************************************************************)
EXTENDS Integers, FiniteSets, SequencesExt

CONSTANTS TxQueues,   \* the transmission queues of the device
          Sizes,      \* the sizes of the packets, headers below IP left out
          DiscLimit,  \* the packets the root queue disc can store
          ByteMode,   \* the device queues count bytes, not packets
          DevMax,     \* MaxSize of a device queue
          Mtu,        \* the MTU of the device
          Header,     \* the bytes the device adds before it enqueues a packet
          Limits,     \* the byte limits DynamicQueueLimits may arrive at; none
                      \* if no queue limits are installed
          Quota,      \* m_quota of the root queue disc
          Word,       \* 2^32: the quota of a run is a uint32_t
          Changes,    \* what is done at run time, of {"uninstall", "install"}
          NoPacket,   \* a null Ptr<QueueDiscItem> or Ptr<Packet>
          NoLimits    \* a null Ptr<QueueLimits>

Packets == [txq : TxQueues, size : Sizes]

ASSUME FlowSizes == /\ Sizes \subseteq 1..Mtu /\ NoPacket \notin Packets
                    /\ Mtu \in Nat \ {0} /\ Header \in Nat
                    /\ DiscLimit \in Nat
                    /\ Limits \subseteq Nat /\ NoLimits \notin Nat
ASSUME FlowDevice == ByteMode \in BOOLEAN /\ DevMax \in Nat \ {0}
ASSUME FlowQuota == Word \in Nat \ {0} /\ Quota \in 0..Word - 1

VARIABLES
  root,            \* the root queue disc: running, none, or not yet scanned
  backlog,         \* the packets stored in it
  requeued,        \* its m_requeued
  quota,           \* what is left of the quota of the present run
  devQueue,        \* the device queue of each transmission queue
  inFlight,        \* m_currentPkt; the transmitter is READY when there is none
  stoppedByDevice, \* NetDeviceQueue::m_stoppedByDevice
  stoppedByLimits, \* NetDeviceQueue::m_stoppedByQueueLimits
  limit,           \* the byte limit in force, NoLimits without m_queueLimits
  wakes,           \* the wake callbacks scheduled and not yet run
  pc               \* idle, in the loop of Run, or crashed

disc == <<root, backlog, requeued, quota>>
device == <<devQueue, inFlight, stoppedByDevice, stoppedByLimits, limit>>
vars == <<disc, device, wakes, pc>>

Init ==
  /\ root = "running"
  /\ backlog = <<>>
  /\ requeued = NoPacket
  /\ quota = Quota
  /\ devQueue = [t \in TxQueues |-> <<>>]
  /\ inFlight = [t \in TxQueues |-> NoPacket]
  /\ stoppedByDevice = [t \in TxQueues |-> FALSE]
  /\ stoppedByLimits = [t \in TxQueues |-> FALSE]
  /\ limit \in [TxQueues -> IF Limits = {} THEN {NoLimits} ELSE Limits]
  /\ wakes = [t \in TxQueues |-> 0]
  /\ pc = "idle"

IsStopped(t) == stoppedByDevice[t] \/ stoppedByLimits[t]

\* The bytes in a device queue, which are also those that DynamicQueueLimits
\* counts as queued and not completed.
BytesIn(q) == FoldSeq(+, 0, [i \in DOMAIN q |-> q[i].size + Header])

\* QueueBase::GetCurrentSize, in the unit of the queue's MaxSize.
CurrentSize(q) == IF ByteMode THEN BytesIn(q) ELSE Len(q)

\* DynamicQueueLimits::Available () < 0, after n bytes were queued.
OverLimits(n, l) == l # NoLimits /\ n > l

\* Fault: > 0 where the code has >= 0.
EasedLate(rest, l) == l # NoLimits /\ BytesIn(rest) < l

\* NotifyTransmittedBytes finds the limits available again.
Eased(rest, l) == l # NoLimits /\ BytesIn(rest) <= l

\* Fault: the queue stops once it is over its limit.
OverLimit(q) == CurrentSize(q) > DevMax

\* The test of PacketEnqueued and PacketDequeued: no room for one more packet
\* of the device's MTU.
NoRoom(q) == CurrentSize(q) + (IF ByteMode THEN Mtu ELSE 1) > DevMax

-----------------------------------------------------------------------------
(***************************************************************************)
(* PointToPointNetDevice.  Its queue's traces run the NetDeviceQueue.       *)
(***************************************************************************)

\* Fault: a queue that the limits had stopped starts again without a wake.
WakesOfDevice(t, byDevice, byLimits) ==
  wakes' = [wakes EXCEPT ![t] = @ + (IF byDevice /\ root = "running" THEN 1 ELSE 0)]

\* Run is scheduled for every cause that stopped the queue and no longer does,
\* if a wake callback is set.
Wakes(t, byDevice, byLimits) ==
  wakes' = [wakes EXCEPT ![t] =
              IF root = "running"
              THEN @ + Cardinality({c \in {"device", "limits"} :
                                      IF c = "device" THEN byDevice ELSE byLimits})
              ELSE @]

\* The transmitter takes the head of queue q of t and PacketDequeued runs, the
\* queue having been stopped by the device or by the limits before.
TransmitStart(t, q, byDevice, byLimits) ==
  \E newLimit \in IF limit[t] = NoLimits THEN {NoLimits} ELSE Limits :
    LET rest == Tail(q)
        eased == Eased(rest, newLimit)
    IN /\ inFlight' = [inFlight EXCEPT ![t] = Head(q)]
       /\ devQueue' = [devQueue EXCEPT ![t] = rest]
       /\ limit' = [limit EXCEPT ![t] = newLimit]
       /\ stoppedByLimits' = [stoppedByLimits EXCEPT ![t] = byLimits /\ ~eased]
       /\ stoppedByDevice' = [stoppedByDevice EXCEPT ![t] = byDevice /\ NoRoom(rest)]
       /\ Wakes(t, byDevice /\ ~NoRoom(rest), byLimits /\ eased)

\* The device queue has no room for packet p: PacketDiscarded stops the queue.
Discard(t, p) ==
  /\ CurrentSize(Append(devQueue[t], p)) > DevMax
  /\ stoppedByDevice' = [stoppedByDevice EXCEPT ![t] = TRUE]
  /\ UNCHANGED <<devQueue, inFlight, stoppedByLimits, limit, wakes>>

\* Packet p goes into the device queue, PacketEnqueued runs, and a transmitter
\* that is READY starts on it at once.
Accept(t, p) ==
  LET q == Append(devQueue[t], p)
      byDevice == stoppedByDevice[t] \/ NoRoom(q)
      byLimits == stoppedByLimits[t] \/ OverLimits(BytesIn(q), limit[t])
  IN /\ CurrentSize(q) <= DevMax
     /\ \/ /\ inFlight[t] = NoPacket
           /\ TransmitStart(t, q, byDevice, byLimits)
        \/ /\ inFlight[t] # NoPacket
           /\ devQueue' = [devQueue EXCEPT ![t] = q]
           /\ stoppedByDevice' = [stoppedByDevice EXCEPT ![t] = byDevice]
           /\ stoppedByLimits' = [stoppedByLimits EXCEPT ![t] = byLimits]
           /\ UNCHANGED <<inFlight, limit, wakes>>

DeviceSend(p) == Accept(p.txq, p) \/ Discard(p.txq, p)

\* The end of a transmission.  The wake callbacks its start scheduled for the
\* same instant have run by then.
TransmitComplete(t) ==
  /\ pc = "idle" /\ inFlight[t] # NoPacket /\ wakes[t] = 0
  /\ \/ /\ devQueue[t] = <<>>
        /\ inFlight' = [inFlight EXCEPT ![t] = NoPacket]
        /\ UNCHANGED <<devQueue, stoppedByDevice, stoppedByLimits, limit, wakes>>
     \/ /\ devQueue[t] # <<>>
        /\ TransmitStart(t, devQueue[t], stoppedByDevice[t], stoppedByLimits[t])
  /\ UNCHANGED <<disc, pc>>

-----------------------------------------------------------------------------
\* Fault: the queue disc takes a packet more than its MaxSize.
OneTooMany(p) == IF Len(backlog) <= DiscLimit THEN Append(backlog, p) ELSE backlog

\* FifoQueueDisc::DoEnqueue: the packet is dropped if there is no room for it.
Enqueued(p) == IF Len(backlog) < DiscLimit THEN Append(backlog, p) ELSE backlog

\* TrafficControlLayer::Send with a queue disc: enqueue, or drop if it is full,
\* and run the queue disc in either case.
Send(p) ==
  /\ pc = "idle" /\ root = "running"
  /\ backlog' = Enqueued(p)
  /\ quota' = Quota
  /\ pc' = "run"
  /\ UNCHANGED <<root, requeued, device, wakes>>

\* A scheduled wake callback runs the queue disc.
WakeRun(t) ==
  /\ pc = "idle" /\ wakes[t] > 0 /\ root = "running"
  /\ wakes' = [wakes EXCEPT ![t] = @ - 1]
  /\ quota' = Quota
  /\ pc' = "run"
  /\ UNCHANGED <<root, backlog, requeued, device>>

\* Fault: a requeued packet waits until the queue disc is empty.
NextOfDisc == IF backlog # <<>> THEN Head(backlog) ELSE requeued

\* The packet DequeuePacket returns: the requeued one, unless its queue is
\* stopped, else the next one of the queue disc, unless the only queue is.
NextPacket ==
  IF requeued # NoPacket
  THEN IF IsStopped(requeued.txq) THEN NoPacket ELSE requeued
  ELSE IF /\ backlog # <<>>
          /\ Cardinality(TxQueues) > 1 \/ \A t \in TxQueues : ~IsStopped(t)
  THEN Head(backlog) ELSE NoPacket

\* DequeuePacket takes the packet out of m_requeued or out of the queue disc.
DequeuePacket ==
  /\ pc = "run" /\ NextPacket # NoPacket
  /\ backlog' = IF requeued = NoPacket THEN Tail(backlog) ELSE backlog

RunEnds ==
  /\ pc = "run" /\ NextPacket = NoPacket
  /\ pc' = "idle"
  /\ UNCHANGED <<disc, device, wakes>>

\* The packet is for a stopped queue: it is put aside and Run ends.
Requeue ==
  /\ DequeuePacket
  /\ IsStopped(NextPacket.txq)
  /\ requeued' = NextPacket
  /\ pc' = "idle"
  /\ UNCHANGED <<root, quota, device, wakes>>

\* The packet goes to the device, and Run goes on unless the queue disc is
\* empty, the packet's queue is stopped now, or the quota is used up.
Transmit(p) ==
  /\ DequeuePacket /\ p = NextPacket
  /\ ~IsStopped(p.txq)
  /\ requeued' = NoPacket
  /\ DeviceSend(p)
  /\ IF backlog' = <<>> \/ IsStopped(p.txq)'
       THEN pc' = "idle" /\ UNCHANGED quota
       ELSE /\ quota' = (quota - 1) % Word
            /\ pc' = IF quota' = 0 THEN "idle" ELSE "run"
  /\ UNCHANGED root

Restart == RunEnds \/ Requeue \/ \E p \in Packets : Transmit(p)

-----------------------------------------------------------------------------
(***************************************************************************)
(* Reconfiguration: TrafficControlHelper::Uninstall, and Install after it,  *)
(* called once the node is initialised and ScanDevices will not run again.  *)
(***************************************************************************)

\* The queue disc goes with the packets in it, the wake callbacks are null and
\* the queue limits are removed.
DeleteRootQueueDisc ==
  /\ pc = "idle" /\ root # "none" /\ "uninstall" \in Changes
  /\ root' = "none"
  /\ backlog' = <<>> /\ requeued' = NoPacket
  /\ limit' = [t \in TxQueues |-> NoLimits]
  /\ UNCHANGED <<quota, devQueue, inFlight, stoppedByDevice, stoppedByLimits>>
  /\ UNCHANGED <<wakes, pc>>

\* A new root queue disc, installed without queue limits.
SetRootQueueDisc ==
  /\ pc = "idle" /\ root = "none" /\ "install" \in Changes
  /\ root' = "unscanned"
  /\ UNCHANGED <<backlog, requeued, quota, device, wakes, pc>>

\* Without a queue disc a packet goes straight to the device; it is lost when
\* its queue is stopped.
SendDirect(p) ==
  /\ pc = "idle" /\ root = "none"
  /\ \/ ~IsStopped(p.txq) /\ DeviceSend(p)
     \/ IsStopped(p.txq) /\ UNCHANGED <<device, wakes>>
  /\ UNCHANGED <<disc, pc>>

\* Send looks the new queue disc up in m_queueDiscsToWake, which is empty.
SendUnscanned ==
  /\ pc = "idle" /\ root = "unscanned"
  /\ pc' = "fault"
  /\ UNCHANGED <<disc, device, wakes>>

\* The event scheduled for a wake calls the callback it finds: it is null.
WakeNull(t) ==
  /\ pc = "idle" /\ wakes[t] > 0 /\ root # "running"
  /\ pc' = "fault"
  /\ UNCHANGED <<disc, device, wakes>>

Next ==
  \/ \E p \in Packets : Send(p) \/ SendDirect(p)
  \/ Restart
  \/ \E t \in TxQueues : WakeRun(t) \/ WakeNull(t) \/ TransmitComplete(t)
  \/ DeleteRootQueueDisc
  \/ SetRootQueueDisc
  \/ SendUnscanned

Spec == Init /\ [][Next]_vars

(***************************************************************************)
(* The simulator executes every event it has scheduled: only finitely many  *)
(* others come before it, though a run of the queue disc, a loop inside one *)
(* of them, disables it in the model while it lasts.  Arrivals are not fair.*)
(***************************************************************************)
FairSpec == /\ Spec
            /\ WF_vars(Restart)
            /\ \A t \in TxQueues : SF_vars(WakeRun(t) \/ WakeNull(t)) /\ SF_vars(TransmitComplete(t))

-----------------------------------------------------------------------------
\* The types of the fields.  A queue can owe at most two wakes, one for each of
\* the two reasons it may have been stopped for.
TypeOK ==
  /\ root \in {"running", "none", "unscanned"}
  /\ backlog \in Seq(Packets) /\ Len(backlog) <= DiscLimit
  /\ requeued \in Packets \cup {NoPacket}
  /\ quota \in 0..Word - 1
  /\ devQueue \in [TxQueues -> Seq(Packets)]
  /\ \A t \in TxQueues : CurrentSize(devQueue[t]) <= DevMax
  /\ inFlight \in [TxQueues -> Packets \cup {NoPacket}]
  /\ stoppedByDevice \in [TxQueues -> BOOLEAN]
  /\ stoppedByLimits \in [TxQueues -> BOOLEAN]
  /\ limit \in [TxQueues -> Limits \cup {NoLimits}]
  /\ wakes \in [TxQueues -> 0..2]
  /\ pc \in {"idle", "run", "fault"}

\* No wakeup is lost: packets left behind by a run wait for a queue that is
\* stopped, or Run is already scheduled.  Only a run that has used up its quota
\* leaves packets to an idle device with nobody to continue it.
NotStranded ==
  pc = "idle" /\ (backlog # <<>> \/ requeued # NoPacket) =>
    quota = 0 \/ \E t \in TxQueues : IsStopped(t) \/ wakes[t] > 0

\* A stopped queue has a packet that the transmitter will take once it is done
\* with the one it is sending, so the device will look at the stop again.  Only a
\* stop by queue limits that Uninstall removed since is never looked at again.
StopsEnd ==
  \A t \in TxQueues :
    stoppedByDevice[t] \/ (stoppedByLimits[t] /\ limit[t] # NoLimits) =>
      devQueue[t] # <<>> /\ inFlight[t] # NoPacket

\* A stopped queue starts again, also when the queue disc is swapped meanwhile, as
\* long as the event of a wake finds a callback and the node survives it.  Only a
\* stop by queue limits that Uninstall removed since stays for ever.
StopsAreLifted ==
  \A t \in TxQueues :
    IsStopped(t) ~> \/ ~IsStopped(t) \/ pc = "fault"
                    \/ stoppedByLimits[t] /\ limit[t] = NoLimits

\* The device never loses a packet of the queue disc: it stops its queue in time
\* (net-device-queue-interface.h: a discard "should not happen if the device
\* correctly stops the queue").
NeverDiscarded == [][\A p \in Packets : ~(Transmit(p) /\ Discard(p.txq, p))]_vars
=============================================================================
