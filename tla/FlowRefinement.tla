--------------------------- MODULE FlowRefinement ---------------------------
(***************************************************************************)
(* FlowControl implements Link: the pipe of a transmission queue is what    *)
(* its transmitter, its device queue, m_requeued and the queue disc hold    *)
(* for it, in that order.                                                   *)
(***************************************************************************)
EXTENDS FlowControl

\* A sequence of the packet, or of none.
Held(p) == IF p = NoPacket THEN <<>> ELSE <<p>>

\* The packets of a sequence that are for transmission queue t, in order.
For(t, q) == FoldLeft(LAMBDA s, p : IF p.txq = t THEN Append(s, p) ELSE s, <<>>, q)

Pipe(t) == Held(inFlight[t]) \o devQueue[t] \o For(t, Held(requeued) \o backlog)

L == INSTANCE Link WITH pipe <- [t \in TxQueues |-> Pipe(t)]

\* Every packet the queue disc accepts is sent, and those for one transmission
\* queue are sent in the order of their arrival: stops, wakes and requeues neither
\* lose, repeat nor reorder a packet, nor, where no run uses its quota up, leave
\* one behind.
ImplementsLink == L!FairSpec
=============================================================================
