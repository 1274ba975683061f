------------------------------ MODULE DRRFair ------------------------------
(***************************************************************************)
(* DRR with a history variable that compares every pair of flows over the   *)
(* time both have been active: how many bytes more one has sent.            *)
(***************************************************************************)
EXTENDS DRRRefinement

VARIABLE ahead  \* ahead[f][g]: bytes sent of f minus bytes sent of g

fairVars == <<vars, ahead>>

FairInit == Init /\ ahead = [f \in Flows |-> [g \in Flows |-> 0]]

\* A difference is counted up to here: BytesFair fails before.
Cap == 2 + 2 * Max(Sizes) + Max(Quanta)

Capped(n) == Max({-Cap, Min({n, Cap})})

\* ahead after a step in which flow h sends n bytes; a comparison starts over when
\* either flow is not active throughout the step.
Gain(h, n) ==
  [f \in Flows |-> [g \in Flows |->
    IF /\ f # g
       /\ \A x \in {f, g} : status[x] = "ACTIVE" /\ status'[x] = "ACTIVE"
    THEN Capped(ahead[f][g] + (IF f = h THEN n ELSE 0) - (IF g = h THEN n ELSE 0))
    ELSE 0]]

FairServe(f) == Serve(f) /\ ahead' = Gain(f, Peek(f))

\* The steps that send nothing.
FairOther == /\ \/ \E f \in Flows, size \in Sizes : Enqueue(f, size)
                \/ DRRDrop
                \/ \E f \in Flows : CoDelDrop(f) \/ Defer(f) \/ PeekNull(f)
                \/ \E q \in Quanta : SetQuantum(q)
             /\ UNCHANGED ahead

FairNext == (\E f \in Flows : FairServe(f)) \/ FairOther

\* The fairness of DRR's FairSpec; the steps are the same ones.
FairHistorySpec == /\ FairInit /\ [][FairNext]_fairVars
                   /\ WF_vars(DRRDrop) /\ SF_vars(Visit)

\* The share each flow is due is a quantum a round, the rest carried over: of
\* two flows that stay active, none gets ahead by more than one quantum and the
\* two deficits, each short of a largest packet (drr.rst: the quantum is "the
\* number of bytes each queue gets to dequeue on each round").
BytesFair ==
  \A f, g \in Flows : \E s \in Sizes : ahead[f][g] <= quantum + 2 * (s - 1)
=============================================================================
