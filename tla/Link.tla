-------------------------------- MODULE Link --------------------------------
(***************************************************************************)
(* What the traffic control layer and a device promise together: each       *)
(* transmission queue is a first-in first-out pipe that loses nothing it    *)
(* has accepted and always delivers.                                        *)
(***************************************************************************)
EXTENDS Naturals, Sequences

CONSTANTS TxQueues, Packets

VARIABLE pipe  \* the packets accepted and not yet sent, of each queue

vars == <<pipe>>

Init == pipe = [t \in TxQueues |-> <<>>]

Accept(p) == pipe' = [pipe EXCEPT ![p.txq] = Append(@, p)]

Deliver(t) == /\ pipe[t] # <<>>
              /\ pipe' = [pipe EXCEPT ![t] = Tail(@)]

Next == \/ \E p \in Packets : Accept(p)
        \/ \E t \in TxQueues : Deliver(t)

Spec == Init /\ [][Next]_vars

FairSpec == Spec /\ \A t \in TxQueues : WF_vars(Deliver(t))
=============================================================================
