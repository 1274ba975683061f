--------------------------- MODULE DRRRefinement ---------------------------
(***************************************************************************)
(* DRR implements RoundRobin: a flow's queue is what its child queue disc   *)
(* stores, the packet held for a peek first, and m_flowList is the ring.    *)
(***************************************************************************)
EXTENDS DRR

RR == INSTANCE RoundRobin WITH Packets <- Sizes,
                               fifo <- [f \in Flows |-> Stored(f)],
                               ring <- flowList

\* Each flow's packets are sent in order of arrival, only heads are lost, turns
\* go round among exactly the flows with packets, and each of them is served
\* again and again: DoEnqueue, DoDequeue and DRRDrop together do what RoundRobin
\* promises.
ImplementsRoundRobin == RR!FairSpec
=============================================================================
