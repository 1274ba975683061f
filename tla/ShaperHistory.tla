--------------------------- MODULE ShaperHistory ---------------------------
(***************************************************************************)
(* Shaper with what an observer of its output would record: the backlog the *)
(* packets sent would have at a line of the rate, and of the peak rate, and *)
(* for how long every packet popped has been above CoDel's target and the   *)
(* queue has not been emptied.                                              *)
(***************************************************************************)
EXTENDS Shaper

VARIABLES excess,    \* half ticks a line of m_rate is behind the packets sent
          pexcess,   \* half ticks a line of m_peakRate is behind them
          aboveFor   \* ticks since a pop of a young packet or of the last one

historyVars == <<vars, excess, pexcess, aboveFor>>

HistoryInit == Init /\ excess = 0 /\ pexcess = 0 /\ aboveFor = 0

\* The line sends for half a tick.
Drained(n) == Larger(n - 2, 0)

\* A packet costs its bytes, less the half byte that round may add.
Charged(n, byteTime) == n + 2 * held.size * byteTime - byteTime

HistoryEnqueue(size) == Enqueue(size) /\ UNCHANGED <<excess, pexcess, aboveFor>>

\* A pop, or two, in TbfPeek or DropLoop.
HistoryPop ==
  /\ TbfPeek \/ DropLoop
  /\ aboveFor' = IF /\ queue' # <<>>
                   /\ \A i \in 1..Len(queue) - Len(queue') : queue[i].age = Target
                 THEN aboveFor ELSE 0
  /\ UNCHANGED <<excess, pexcess>>

HistorySend == /\ Send
               /\ excess' = Charged(excess, ByteTime)
               /\ pexcess' = IF peak = 0 THEN 0 ELSE Charged(pexcess, peak)
               /\ UNCHANGED aboveFor

HistoryTick == /\ Tick
               /\ excess' = Drained(excess) /\ pexcess' = Drained(pexcess)
               /\ aboveFor' = Smaller(aboveFor + 1, Interval + 1)

HistoryOther == /\ Block \/ RunStopped \/ WatchdogRun \/ DeviceWake
                /\ UNCHANGED <<excess, pexcess, aboveFor>>

HistoryNext == \/ \E size \in Sizes : HistoryEnqueue(size)
               \/ HistoryPop \/ HistorySend \/ HistoryTick \/ HistoryOther

HistorySpec == HistoryInit /\ [][HistoryNext]_historyVars /\ Fairness

-----------------------------------------------------------------------------
\* In any stretch of time the bytes sent are at most the first bucket's size and
\* what m_rate sends in that time, and at most the second bucket's size and what
\* the peak rate sends, but for half a byte a packet.
RatesHold == excess <= 2 * Burst * ByteTime /\ pexcess <= 2 * Mtu * peak

\* CoDel drops a packet only after more than an interval in which every packet
\* it popped had waited for the target and the queue was never emptied: the time
\* it has been above target since does not outlive an empty queue, which Run does
\* not show to CoDel, a stopped device or a packet held for tokens.
DropsOnlyAfterInterval ==
  [][Stored' < Stored /\ ~Send => aboveFor > Interval]_vars
=============================================================================
