------------------------------- MODULE Shaper -------------------------------
(***************************************************************************)
(* A TbfQueueDisc at the root of a device, with a CoDelQueueDisc as its     *)
(* child: two token buckets, the watchdog event that runs the queue disc    *)
(* again when a packet was blocked, CoDel's control law, the quota of a run *)
(* of the queue disc, and a device that stops and wakes its queue.          *)
(*                                                                         *)
(* Time is discrete, and every clock is relative: how long ago, or in how   *)
(* many ticks.  The handlers of the simulator take no time, so Tick waits   *)
(* until they have returned and until no event is due.                      *)
(***************************************************************************)
EXTENDS Integers, SequencesExt

CONSTANTS Sizes,      \* GetSize () of the packets
          MaxSize,    \* CoDel's MaxSize, in packets
          MinBytes,   \* CoDel's m_minBytes
          Target,     \* CoDel's m_target, in ticks
          Interval,   \* CoDel's m_interval, in ticks
          Burst,      \* m_burst, the size of the first bucket
          Mtu,        \* m_mtu, the size of the second bucket
          ByteTime,   \* ticks per byte at m_rate
          PeakTimes,  \* ticks per byte at m_peakRate, 0 for no peak rate
          NaNDelays,  \* what a build makes of 0 bytes at 0bps, in ticks
          Quota,      \* m_quota of the root queue disc
          Word,       \* 2^32 of uint32_t
          None

ASSUME ShaperAssumption ==
  /\ Sizes \subseteq Nat \ {0}
  /\ {MaxSize, MinBytes, Target, Interval, ByteTime, Word} \subseteq Nat \ {0}
  /\ {Burst, Mtu} \subseteq Nat /\ Quota \in 0..Word - 1
  /\ PeakTimes \cup NaNDelays \subseteq Nat
  /\ None \notin Nat \cup [size : Sizes, age : 0..Target]

VARIABLES peak,        \* ticks per byte at the peak rate of this queue disc
          btokens,     \* m_btokens
          ptokens,     \* m_ptokens
          elapsed,     \* ticks since m_timeCheckPoint
          wakeIn,      \* ticks until m_id, None once it has expired
          queue,       \* the child's internal queue: sizes and ages
          held,        \* the child's m_requeued: the packet TBF has peeked
          dropping,    \* m_dropping
          firstAbove,  \* ticks until m_firstAboveTime, None where that is 0
          dropNext,    \* ticks until m_dropNext; 0 when not dropping
          stopped,     \* the device has stopped its queue
          quota,       \* what is left of the quota of the present run
          pc           \* "idle", in "run", or in the "drop" loop of CoDel

tbf == <<btokens, ptokens, elapsed>>
codel == <<queue, held, dropping, firstAbove, dropNext>>
vars == <<peak, tbf, wakeIn, codel, stopped, quota, pc>>

Larger(m, n) == IF m > n THEN m ELSE n

\* Clocks stop where nothing tells a longer time apart: both buckets are full, a
\* sojourn is above target, every packet of a full queue would be dropped.
MaxElapsed == Larger(Burst * ByteTime, Mtu * peak)
MaxOverdue == MaxSize * Interval

Init ==
  /\ peak \in PeakTimes
  /\ btokens = Burst /\ ptokens = Mtu /\ elapsed = 0 /\ wakeIn = None
  /\ queue = <<>> /\ held = None
  /\ dropping = FALSE /\ firstAbove = None /\ dropNext = 0
  /\ stopped = FALSE /\ quota = Quota /\ pc = "idle"

-----------------------------------------------------------------------------
(***************************************************************************)
(* CoDel.  A dequeue pops a packet, and perhaps drops it and pops another.  *)
(***************************************************************************)
Bytes(q) == FoldSeq(LAMBDA p, n : p.size + n, 0, q)

\* The packet GetCurrentSize still counts although it has left the queue.
Stored == Len(queue) + (IF held = None THEN 0 ELSE 1)

\* What Dequeue takes off the queue when q is in it.
Popped(q) == IF q = <<>> THEN None ELSE Head(q)
Rest(q) == IF q = <<>> THEN <<>> ELSE Tail(q)

\* Fault: the bytes left do not matter.
AboveByAge(q) == q # <<>> /\ Head(q).age = Target

\* The packet popped off q waited for the target, and bytes enough are left.
Above(q) == q # <<>> /\ Head(q).age = Target /\ Bytes(Rest(q)) >= MinBytes

\* m_firstAboveTime after OkToDrop of the packet popped off q.
FirstAbove(q, t) == IF ~Above(q) THEN None ELSE IF t = None THEN Interval ELSE t

\* OkToDrop of the packet popped off q.
OkToDrop(q, t) == Above(q) /\ t # None /\ t < 0

\* ControlLaw: the next drop, an interval over the root of m_count after t.
ControlLaw(t) == {t + step : step \in 1..Interval}
\* DoDequeue pops a packet it does not drop, or finds none; it leaves the
\* dropping state unless the packet could have been dropped.
PopAndKeep ==
  /\ ~OkToDrop(queue, firstAbove) \/ (dropping /\ dropNext > 0)
  /\ held' = Popped(queue) /\ queue' = Rest(queue)
  /\ firstAbove' = IF queue = <<>> THEN firstAbove ELSE FirstAbove(queue, firstAbove)
  /\ dropping' = (dropping /\ OkToDrop(queue, firstAbove))
  /\ dropNext' = IF dropping' THEN dropNext ELSE 0
  /\ pc' = IF queue = <<>> THEN "idle" ELSE "run"

\* It enters the dropping state: the packet is dropped and the next one popped.
PopAndDrop ==
  /\ OkToDrop(queue, firstAbove) /\ ~dropping
  /\ held' = Popped(Rest(queue)) /\ queue' = Rest(Rest(queue))
  /\ firstAbove' = FirstAbove(Rest(queue), firstAbove)
  /\ dropping' = TRUE /\ dropNext' \in ControlLaw(0)
  /\ pc' = IF held' = None THEN "idle" ELSE "run"

\* It is in the dropping state and the next drop is due: the loop starts.
PopAndLoop ==
  /\ OkToDrop(queue, firstAbove) /\ dropping /\ dropNext <= 0
  /\ held' = Popped(queue) /\ queue' = Rest(queue)
  /\ firstAbove' = FirstAbove(queue, firstAbove)
  /\ pc' = "drop"
  /\ UNCHANGED <<dropping, dropNext>>

\* TBF peeks: its child dequeues a packet, which it holds until TBF takes it.
\* Run asks for a packet only while the device queue is not stopped.
TbfPeek ==
  /\ pc = "run" /\ ~stopped /\ held = None
  /\ PopAndKeep \/ PopAndDrop \/ PopAndLoop
  /\ UNCHANGED <<peak, tbf, wakeIn, stopped, quota>>

\* One turn of the loop: the packet at hand is dropped, and the next one popped
\* and dropped as well if it was due by now.
DropLoop ==
  /\ pc = "drop"
  /\ held' = Popped(queue) /\ queue' = Rest(queue)
  /\ firstAbove' = FirstAbove(queue, firstAbove)
  /\ dropping' = OkToDrop(queue, firstAbove)
  /\ IF dropping' THEN dropNext' \in ControlLaw(dropNext) ELSE dropNext' = 0
  /\ pc' = IF held' = None THEN "idle"
           ELSE IF dropping' /\ dropNext' <= 0 THEN "drop" ELSE "run"
  /\ UNCHANGED <<peak, tbf, wakeIn, stopped, quota>>

-----------------------------------------------------------------------------
(***************************************************************************)
(* The token buckets.                                                       *)
(***************************************************************************)
Smaller(m, n) == IF m < n THEN m ELSE n

\* round (delta * rate), a half rounded up.
Earned(byteTime) == (2 * elapsed + byteTime) \div (2 * byteTime)

\* Faults: a bucket grows over its size; a byte is earned once it is begun.
Unbounded(tokens, size, byteTime) == tokens + Earned(byteTime)
EarnedEarly(tokens, size, byteTime) ==
  Smaller(size, tokens + (elapsed + byteTime - 1) \div byteTime)

\* The tokens a bucket of this size has now.
Available(tokens, size, byteTime) == Smaller(size, tokens + Earned(byteTime))

\* btoks and ptoks once the held packet is paid for.
BTokens == Available(btokens, Burst, ByteTime) - held.size
PTokens == IF peak = 0 THEN 0 ELSE Available(ptokens, Mtu, peak) - held.size

\* (btoks|ptoks) >= 0
Conforming == BTokens >= 0 /\ PTokens >= 0

\* CalculateBytesTxTime (-btoks) and (-ptoks): the argument becomes a uint32_t,
\* so tokens left over are a number of bytes close to 2^32, and 0 bytes at 0bps
\* divide 0 by 0, which a build converts to some time.
RateDelay == ByteTime * ((-BTokens) % Word)
PeakDelay == IF peak = 0 THEN NaNDelays ELSE {peak * ((-PTokens) % Word)}

\* Fault: the bucket that is not short decides.
ShorterDelay == {Smaller(RateDelay, d) : d \in PeakDelay}

\* requiredDelayTime
RequiredDelay == {Larger(RateDelay, d) : d \in PeakDelay}

\* Restart sent a packet: Run goes on unless that uses its quota up.
CountDown ==
  /\ quota' = (quota - 1) % Word
  /\ pc' = IF quota' = 0 THEN "idle" ELSE "run"

\* The packet conforms and goes to the device, which may stop its queue; Run ends
\* if it does or the queue disc is empty, and else counts its quota down.
Send ==
  /\ pc = "run" /\ ~stopped /\ held # None /\ Conforming
  /\ btokens' = BTokens /\ ptokens' = PTokens /\ elapsed' = 0
  /\ held' = None
  /\ stopped' \in BOOLEAN
  /\ IF stopped' \/ queue = <<>> THEN pc' = "idle" /\ UNCHANGED quota ELSE CountDown
  /\ UNCHANGED <<peak, wakeIn, queue, dropping, firstAbove, dropNext>>

\* Fault: the watchdog is not set for a packet the second bucket alone blocks.
FirstBucketWatchdog ==
  IF wakeIn = None /\ BTokens < 0 THEN wakeIn' \in RequiredDelay ELSE UNCHANGED wakeIn

\* The watchdog is set unless it already is.
Watchdog == IF wakeIn = None THEN wakeIn' \in RequiredDelay ELSE UNCHANGED wakeIn

\* The packet is blocked, and Run ends.
Block ==
  /\ pc = "run" /\ ~stopped /\ held # None /\ ~Conforming
  /\ Watchdog
  /\ pc' = "idle"
  /\ UNCHANGED <<peak, tbf, codel, stopped, quota>>

\* Run finds the device queue stopped.
RunStopped ==
  /\ pc = "run" /\ stopped
  /\ pc' = "idle"
  /\ UNCHANGED <<peak, tbf, wakeIn, codel, stopped, quota>>

Restart == TbfPeek \/ DropLoop \/ Send \/ Block \/ RunStopped

-----------------------------------------------------------------------------
\* The queue disc is not running: Run starts, with the whole quota.
RunBegin == pc' = "run" /\ quota' = Quota

\* TrafficControlLayer::Send: the child takes the packet or drops it, and the
\* queue disc runs.
Enqueue(size) ==
  /\ pc = "idle"
  /\ queue' = IF Stored < MaxSize THEN Append(queue, [size |-> size, age |-> 0]) ELSE queue
  /\ RunBegin
  /\ UNCHANGED <<peak, tbf, wakeIn, held, dropping, firstAbove, dropNext, stopped>>

\* The watchdog event runs the queue disc.
WatchdogRun ==
  /\ pc = "idle" /\ wakeIn = 0
  /\ wakeIn' = None
  /\ RunBegin
  /\ UNCHANGED <<peak, tbf, codel, stopped>>

\* The device wakes its queue, which runs the queue disc.
DeviceWake ==
  /\ pc = "idle" /\ stopped
  /\ stopped' = FALSE
  /\ RunBegin
  /\ UNCHANGED <<peak, tbf, wakeIn, codel>>

Tick ==
  /\ pc = "idle" /\ wakeIn # 0
  /\ elapsed' = Smaller(elapsed + 1, MaxElapsed)
  /\ wakeIn' = IF wakeIn = None THEN None ELSE wakeIn - 1
  /\ queue' = [i \in DOMAIN queue |->
                 [size |-> queue[i].size, age |-> Smaller(queue[i].age + 1, Target)]]
  /\ firstAbove' = IF firstAbove = None THEN None ELSE Larger(firstAbove - 1, -1)
  /\ dropNext' = IF dropping THEN Larger(dropNext - 1, -MaxOverdue) ELSE 0
  /\ UNCHANGED <<peak, btokens, ptokens, held, dropping>>
  /\ UNCHANGED <<stopped, quota, pc>>

Next ==
  \/ \E size \in Sizes : Enqueue(size)
  \/ Restart
  \/ WatchdogRun
  \/ DeviceWake
  \/ Tick

Spec == Init /\ [][Next]_vars

(***************************************************************************)
(* Time passes and every scheduled event is executed, a run of the queue    *)
(* disc ends, and the device, which is done sending sooner or later, wakes  *)
(* the queue it stopped.  Arrivals are not fair.                            *)
(***************************************************************************)
Fairness == /\ WF_vars(Restart)
            /\ SF_vars(Tick) /\ SF_vars(WatchdogRun) /\ SF_vars(DeviceWake)

-----------------------------------------------------------------------------
\* The types of the fields; no bucket holds more than its size.
TypeOK ==
  /\ peak \in PeakTimes
  /\ btokens \in 0..Burst /\ ptokens \in 0..Mtu
  /\ elapsed \in 0..MaxElapsed
  /\ wakeIn = None \/ wakeIn \in Nat
  /\ queue \in Seq([size : Sizes, age : 0..Target]) /\ Stored <= MaxSize
  /\ held = None \/ held \in [size : Sizes, age : 0..Target]
  /\ dropping \in BOOLEAN
  /\ firstAbove = None \/ firstAbove \in -1..Interval
  /\ dropNext \in -MaxOverdue..Interval
  /\ stopped \in BOOLEAN
  /\ quota \in 0..Word - 1
  /\ pc \in {"idle", "run", "drop"}

\* Packets left behind by a run wait for a device that will wake the queue disc,
\* or for a watchdog that is set: it may fire while the device is stopped, when Run
\* does nothing, or for a packet that has left by then, and is not lost by either.
\* Only a run that ended on its quota leaves packets with nobody to look at them,
\* and none of these is the one TBF has peeked.
NotAbandoned ==
  pc = "idle" /\ Stored > 0 =>
    stopped \/ wakeIn # None \/ (quota = 0 /\ held = None)

\* Packets leave again and again as long as there are any, unless a run that used
\* up its quota is the last one: none of the packets it left behind is blocked or
\* waits for the device, and none arrives anymore.
PacketsLeave ==
  \/ []<>(Stored = 0)
  \/ []<><<Stored' < Stored>>_vars
  \/ <>[](pc = "idle" /\ quota = 0 /\ held = None /\ ~stopped /\ wakeIn = None)

\* A blocked packet is looked at again as soon as both buckets have the tokens,
\* up to a byte's time (the comment on the watchdog: the queue is woken "when
\* enough tokens are available").
WakesInTime ==
  pc = "idle" /\ ~stopped /\ held # None =>
    wakeIn <= Larger(ByteTime * (1 - BTokens), peak * (1 - PTokens))
=============================================================================
