----------------------------- MODULE RoundRobin -----------------------------
(***************************************************************************)
(* What a round robin scheduler over per-flow queues promises, whatever     *)
(* decides how often a flow is passed over: each flow's packets leave in    *)
(* the order they came, the flows with packets take turns, nobody without   *)
(* packets has a turn, and everybody with packets is served again and       *)
(* again.  Losses take the oldest packet of a flow and never its last one.  *)
(***************************************************************************)
EXTENDS Naturals, SequencesExt

CONSTANTS Flows, Packets

VARIABLES fifo,  \* the packets of each flow, oldest first
          ring   \* the flows in the order of their turns

vars == <<fifo, ring>>

Init == /\ fifo = [f \in Flows |-> <<>>]
        /\ ring = <<>>

Arrive(f, p) ==
  /\ fifo' = [fifo EXCEPT ![f] = Append(@, p)]
  /\ ring' = IF fifo[f] = <<>> THEN Append(ring, f) ELSE ring

\* The flow whose turn it is sends its oldest packet.
Send(f) ==
  /\ ring # <<>> /\ f = Head(ring)
  /\ fifo[f] # <<>>
  /\ fifo' = [fifo EXCEPT ![f] = Tail(@)]
  /\ ring' = IF Len(fifo[f]) = 1 THEN Tail(ring) ELSE Append(Tail(ring), f)

\* The flow whose turn it is sends nothing this time.
Pass(f) ==
  /\ ring # <<>> /\ f = Head(ring)
  /\ fifo[f] # <<>>
  /\ ring' = Append(Tail(ring), f)
  /\ UNCHANGED fifo

Lose(f) ==
  /\ Len(fifo[f]) > 1
  /\ fifo' = [fifo EXCEPT ![f] = Tail(@)]
  /\ UNCHANGED ring

Next == \E f \in Flows : \/ \E p \in Packets : Arrive(f, p)
                         \/ Send(f)
                         \/ Pass(f)
                         \/ Lose(f)

Spec == Init /\ [][Next]_vars

FairSpec == Spec /\ \A f \in Flows : SF_vars(Send(f))
=============================================================================
