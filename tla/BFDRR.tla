------------------------------- MODULE BFDRR -------------------------------
(***************************************************************************)
(* BFDRRQueueDisc, the burst friendly variant of DRR: a flow is a plain     *)
(* drop-tail queue of packets, bursty flows may fill theirs up to a hard    *)
(* limit and the others up to a soft one, and the flows above the soft      *)
(* limit are kept on a list of their own.                                   *)
(*                                                                          *)
(* Packets are their sizes.  As in DRR, the loop of DoDequeue takes a step  *)
(* an iteration, and the operators marked as a fault are slips that the     *)
(* code does not have.                                                      *)
(***************************************************************************)
EXTENDS Integers, SequencesExt

CONSTANTS Flows,        \* the values of h, m_flows + 1 of them
          Sizes,        \* the packet sizes that arrive
          Types,        \* the values a packet's FlowTag can have
          Quanta,       \* the values SetQuantum may be given
          SoftLimit,    \* m_soft_limit, in packets
          HardLimit,    \* m_hard_limit, in packets
          FlowMaxSize,  \* MaxSize of a flow's queue: what the constructor takes
                        \* for m_hard_limit, before the attribute is given to it
          Word,         \* 2^32: Flow::m_deficit is a uint32_t
          MaxOverflow   \* bound: the entries of one flow in m_overflowingBurstyFlows

ASSUME BFDRRAssumption ==
  /\ Sizes \subseteq Nat \ {0} /\ Quanta \subseteq Nat /\ Word \in Nat \ {0}
  /\ \A q \in Quanta, s \in Sizes : q + s < Word
  /\ {SoftLimit, HardLimit, FlowMaxSize, MaxOverflow} \subseteq Nat

VARIABLES
  type,         \* Flow::m_flowType, "none" while the flow has not been created
  status,       \* Flow::m_status
  deficit,      \* Flow::m_deficit
  queue,        \* Flow::selfQ
  flowList,     \* m_flowList
  overflowing,  \* how often each flow is on m_overflowingBurstyFlows, a list
                \* whose order nothing depends on
  quantum,      \* m_quantum
  pc            \* idle, in the loop of DoDequeue, or crashed

vars == <<type, status, deficit, queue, flowList, overflowing, quantum, pc>>

Init ==
  /\ type = [f \in Flows |-> "none"]
  /\ status = [f \in Flows |-> "INACTIVE"]
  /\ deficit = [f \in Flows |-> 0]
  /\ queue = [f \in Flows |-> <<>>]
  /\ flowList = <<>>
  /\ overflowing = [f \in Flows |-> 0]
  /\ quantum \in Quanta \ {0}
  /\ pc = "idle"

-----------------------------------------------------------------------------
\* The type of flow f once a packet tagged t has arrived: the first one decides.
TypeWith(f, t) == IF type[f] = "none" THEN t ELSE type[f]

\* The limit DoEnqueue tests for a flow of type t.
LimitOf(t) == IF t = "BURSTY" THEN HardLimit ELSE SoftLimit

\* The flow's own limit is reached: DropBeforeEnqueue.
Refuse(f) == /\ Len(queue[f]) + 1 > LimitOf(type'[f])
             /\ UNCHANGED <<status, queue, flowList, overflowing>>

\* The queue size at which a flow counts as overflowing.
OverSoftLimit(n) == n > SoftLimit

\* The list after DoEnqueue: an inactive flow goes to its end.
Activated(f) == IF status[f] = "INACTIVE" THEN Append(flowList, f) ELSE flowList

\* Queue::DoEnqueue accepts one more packet.
HasRoom(f) == Len(queue[f]) + 1 <= FlowMaxSize

\* The packet goes to the flow's queue, which may drop it still; the flow turns
\* active in any case.
Store(f, size) ==
  /\ Len(queue[f]) + 1 <= LimitOf(type'[f])
  /\ overflowing' = IF OverSoftLimit(Len(queue[f]) + 1)
                     THEN [overflowing EXCEPT ![f] = @ + 1] ELSE overflowing
  /\ queue' = IF HasRoom(f) THEN [queue EXCEPT ![f] = Append(@, size)] ELSE queue
  /\ flowList' = Activated(f)
  /\ status' = [status EXCEPT ![f] = "ACTIVE"]

\* DoEnqueue of a packet of flow f.  An untagged packet leaves the FlowTag
\* unset, and creates a flow of any type.
Enqueue(f, size, t) ==
  /\ pc = "idle"
  /\ overflowing[f] < MaxOverflow
  /\ type' = [type EXCEPT ![f] = TypeWith(f, t)]
  /\ Refuse(f) \/ Store(f, size)
  /\ UNCHANGED <<deficit, quantum, pc>>

-----------------------------------------------------------------------------
\* Flow f is the one the next iteration of the loop of DoDequeue visits.
Visiting(f) ==
  /\ pc \in {"idle", "dequeue"}
  /\ flowList # <<>> /\ f = Head(flowList)

\* Fault: the deficit never wraps.
WideCredit(f) == deficit[f] + quantum

\* The deficit after IncreaseDeficit (m_quantum).
Credit(f) == (deficit[f] + quantum) % Word

\* Fault: only the first entry of the flow is removed.
RemovedOnce(f) == [overflowing EXCEPT ![f] = IF @ = 0 THEN 0 ELSE @ - 1]

\* std::list::remove takes all entries of the flow out of the list.
Removed(f) == [overflowing EXCEPT ![f] = 0]

\* Fault: a flow that sent a packet keeps its turn.
NotRotated(f) == <<f>> \o Tail(flowList)

\* The list once flow f, its head, was pushed to its end.
Rotated(f) == Append(Tail(flowList), f)

\* The deficit covers the head of the flow's queue, which is sent.
Serve(f) ==
  /\ Visiting(f)
  /\ queue[f] # <<>> /\ Credit(f) >= Head(queue[f])
  /\ queue' = [queue EXCEPT ![f] = Tail(@)]
  /\ IF queue'[f] = <<>>
       THEN /\ deficit' = [deficit EXCEPT ![f] = 0]
            /\ status' = [status EXCEPT ![f] = "INACTIVE"]
            /\ flowList' = Tail(flowList)
       ELSE /\ deficit' = [deficit EXCEPT ![f] = Credit(f) - Head(queue[f])]
            /\ flowList' = Rotated(f)
            /\ UNCHANGED status
  /\ overflowing' = IF OverSoftLimit(Len(queue'[f])) THEN overflowing ELSE Removed(f)
  /\ pc' = "idle"
  /\ UNCHANGED <<type, quantum>>

\* The deficit is too small and the flow has to wait; or, on an empty queue, the
\* comparison dereferences the null packet of the peek.
Defer(f) ==
  /\ Visiting(f)
  /\ queue[f] # <<>> => Credit(f) < Head(queue[f])
  /\ deficit' = [deficit EXCEPT ![f] = Credit(f)]
  /\ IF queue[f] = <<>> THEN flowList' = Tail(flowList) /\ pc' = "fault"
                        ELSE flowList' = Rotated(f) /\ pc' = "dequeue"
  /\ UNCHANGED <<type, status, queue, overflowing, quantum>>

Visit == \E f \in Flows : Serve(f) \/ Defer(f)

SetQuantum(q) ==
  /\ pc = "idle"
  /\ quantum' = q
  /\ UNCHANGED <<type, status, deficit, queue, flowList, overflowing, pc>>

Next ==
  \/ \E f \in Flows, size \in Sizes, t \in Types : Enqueue(f, size, t)
  \/ Visit
  \/ \E q \in Quanta : SetQuantum(q)

Spec == Init /\ [][Next]_vars

\* A call of DoDequeue runs to its end, and the device calls Dequeue again and
\* again; nothing else is fair.
FairSpec == Spec /\ SF_vars(Visit)

-----------------------------------------------------------------------------
\* The types of the fields.
TypeOK ==
  /\ type \in [Flows -> Types \cup {"none"}]
  /\ status \in [Flows -> {"INACTIVE", "ACTIVE"}]
  /\ deficit \in [Flows -> 0..Word - 1]
  /\ queue \in [Flows -> Seq(Sizes)]
  /\ flowList \in Seq(Flows)
  /\ overflowing \in [Flows -> 0..MaxOverflow]
  /\ quantum \in Quanta
  /\ pc \in {"idle", "dequeue", "fault"}

\* m_overflowingBurstyFlows names exactly the flows above the soft limit, all of
\* them bursty, however often they crossed it.
OverflowingIsExact ==
  \A f \in Flows :
    /\ overflowing[f] > 0 <=> Len(queue[f]) > SoftLimit
    /\ Len(queue[f]) > SoftLimit => type[f] = "BURSTY"

RR == INSTANCE RoundRobin WITH Packets <- Sizes, fifo <- queue, ring <- flowList

\* BFDRR is a round robin scheduler too: each flow's packets leave in order, turns
\* go round among exactly the flows with packets, so that none on m_flowList makes
\* DoDequeue dereference a null packet, and each is served forever.
ImplementsRoundRobin == RR!FairSpec
=============================================================================
