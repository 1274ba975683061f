# A verification project for Deficit Round Robin in ns-3

The repository carries a copy of the ns-3 network simulator with three pieces of
its own: the queue disc `DRRQueueDisc` (the subject of a WNS3 2018 paper), its
later "burst friendly" variant `BFDRRQueueDisc`, and the traffic generator and
sink of `contrib/vr-app` that feed it bursts.  All three live inside the traffic
control machinery of ns-3: the base class `QueueDisc`, the `TrafficControlLayer`
that owns the root queue disc of a device, and the flow control between queue
discs and device queues.  This project models those parts, together with another
queue disc of the module that is hard to get right, TBF over CoDel, and the two
concurrent programs in Python that come with the simulator, its visualizer and its
test runner.  It model-checks them on small instances, and proves their safety
properties, and the safety part of most refinements, for every value of their parameters.

Paths below are relative to `src/ns-3/src/` unless they start with `src/`.

## The parts of the system

### DRR (`traffic-control/model/drr-queue-disc.cc`)

*State.* A map from hash to flow; for each flow a status (INACTIVE or ACTIVE), a
deficit (`uint32_t`) and a child queue disc, a CoDel with one internal drop-tail
queue; the round robin list `m_flowList`; `m_quantum`; and, inherited from
`QueueDisc`, counts of packets and bytes at both layers.

*Operations.* `DoEnqueue` classifies a packet, creates its flow on first sight,
hands the packet to the child, puts an inactive flow at the end of the list, and
calls `DRRDrop` while the bytes exceed `ByteLimit`.  `DRRDrop` takes a packet from
the internal queue of the child with the most bytes.  `DoDequeue` visits the
flows of the list in turn: it credits a quantum, *peeks* at the child's packet,
and sends it if the deficit covers it, or else sends the flow to the end of the
list and goes on.  `SetQuantum` may be called at any time.

*Interactions.* `QueueDisc::Peek` is a real dequeue whose packet is kept in the
child's `m_requeued` with `m_peeked` set; while that flag is set, the child's
counters do not move.  The child's traces move the parent's counters.  CoDel may
drop packets while it is being peeked at.

*Hard.* The state of a flow is spread over four objects that are changed in
different handlers; the drop path goes around the child's `Dequeue`, and so around
the packet the child holds and around the flow's status; deficits are unsigned.

*Correct when* the list holds exactly the active flows, once each; an active flow
has a packet; an inactive one has nothing left; counters equal contents; the limit
holds; drops make progress; each flow's packets leave in order and nobody starves;
and bytes are shared according to the quantum.

### The path to the device

`TrafficControlLayer::Send` enqueues a packet in the root queue disc and runs it.
`QueueDisc::Run` dequeues and transmits until nothing is left, a device queue is
stopped or a quota is used up; a packet for a stopped queue is kept in
`m_requeued`.  A `NetDeviceQueue` (`network/utils/net-device-queue-interface.*`)
listens to the traces of a device queue: it stops itself when there is no room for
another packet of MTU size or when the byte queue limits are exceeded, and when a
packet leaves it starts again and schedules a wake, an event that runs the queue
disc.  `PointToPointNetDevice` enqueues a packet in its queue, starts the
transmitter when that is ready, and takes the next packet when it is done.
`TrafficControlHelper::Uninstall` and `Install` take the root queue disc away and
put another one in place.

*Hard.* Two independent stops of the same queue; wakes that are events of their own
and may find the world changed; a run that ends by its quota; head-of-line
blocking between transmission queues; configuration changed while packets are
under way.

*Correct when* no wakeup is lost, no packet accepted by the queue disc is lost or
reordered within its transmission queue, a stopped queue is always restarted, and
no callback is called that is no longer there.

### BFDRR (`traffic-control/model/bfdrr-queue-disc.cc`, `bfdrrflow.h`)

DRR with a plain drop-tail queue per flow.  The first packet's `FlowTag` decides the
type of a flow; the queue of a BURSTY flow may grow to `HardLimit`, that of any
other to `SoftLimit`; flows above the soft limit are kept on
`m_overflowingBurstyFlows`.  It has no total limit and no drop loop, and overrides
`DoPeek`.  *Correct when* the lists agree with the queues, every listed flow has a
packet, and Peek shows what Dequeue extracts.

### Bursts (`src/ns-3/contrib/vr-app/model/`)

`BurstyApplication` cuts each burst of a generator into fragments of a fixed size;
the last two are adjusted so that neither is smaller than its header.  `BurstSink`
reassembles per sender: fragments of older bursts are ignored, the first fragment of
a newer one discards what is there, fragments that come early wait.  *Hard*: UDP
reorders and loses; arithmetic near the header size; 16-bit counts.  *Correct when*
complete bursts are reported whole, once, in order, and nothing aborts.

### TBF over CoDel (`traffic-control/model/tbf-queue-disc.cc`, `codel-queue-disc.cc`)

*State.* Two token buckets, `m_btokens` for the rate and `m_ptokens` for the peak
rate, the time of the last packet sent, and the watchdog `m_id`, an event that runs
the queue disc again.  In the child, CoDel's clocks (`m_firstAboveTime`,
`m_dropNext`), `m_dropping`, and the packet a peek holds.

*Operations.* `DoDequeue` peeks at the child's packet, which is CoDel's real
dequeue with its drops, adds to both buckets what they have earned since the last
packet, and sends the packet if both can pay; otherwise it sets the watchdog unless
it is set already.  Runs are started by an arrival, by the watchdog and by the
device.

*Hard.* A run also ends on its quota, and nobody continues it.  A blocked packet depends on
an event that may be too late, may fire while the
device is stopped, or may have been set for another packet; the delay is computed in
unsigned and floating point arithmetic; CoDel measures time while nobody dequeues.

*Correct when* no more is sent in any stretch of time than the buckets allow, a packet
is never left with nobody to look at it again and packets keep leaving, but for what a run
that used its quota up leaves behind, and CoDel drops only after an interval above its
target.

### The visualizer (`visualizer/visualizer/core.py`, `visualizer/model/pyviz.cc`)

*State.* A thread that runs the simulator up to a target time each time an event says
go; the GTK main loop with the timer of `update_view_timeout`, whose id is kept in
`_update_timeout_id`; a lock between the two; the button, the speed, and the messages
of `PyViz::Pause`.

*Operations.* The simulation thread waits for go, runs the simulator under the lock
and collects the messages.  The timer's callback takes the lock, updates the view,
moves the target, releases the button if there are messages, and says go.  The user
presses and releases the button, changes the speed and closes the window.

*Hard.* While the lock is taken the callback runs the main loop, so that other callbacks,
those of the user included, run inside it; ids of timers go stale; the event is cleared
after the wait and quit is tested in two places.

*Correct when* the simulator is never more than a period ahead of the view, messages are
shown once, it goes on while the button is pressed and stops when it is released, and
closing the window ends both threads.

### The test runner (`src/ns-3/test.py`)

*State.* A queue of jobs and a queue of answers, the worker threads, `thread_exit`, and
what the main thread counts.  *Operations.* Main dispatches the jobs, one break job for
each worker behind them, collects as many answers as there are jobs, joins the threads
and reports.  A worker runs a job's process or, after an interrupt, sends the job back.
*Hard.* An interrupt at any point; processes that crash, cannot be started or write what
cannot be decoded.  *Correct when* every job is reported once, success means success, and
the run ends with all its threads.

### Not modelled

- **Packet filters**: hashes of header fields.  The models let each packet belong to
  any flow, which covers every filter.  Of a fragmented datagram the filter sees the ports
  in the first fragment only (`ipv4-packet-filter.cc:116`), so that the others may belong
  to another flow.
- **`FlowApplication` and the burst generators**: sources of packets and sizes;
  the models take any from a set.
- **The root of `m_count` in CoDel's control law, the algorithm of
  `DynamicQueueLimits`**: how long CoDel waits for its next drop is any time up to an
  interval; what a limit is, is any of a set.
- **FqCoDel, PfifoFast, Prio, Mq**: upstream queue discs, planned.
  **RED and PIE**: floating point averages.
- **What the visualizer draws, and the samples it draws from**: no other part depends on
  them.  **How `test.py` chooses and builds tests and translates their results.**
- **Helpers, examples, tests, ns-2 scripts**: configuration and scenarios.
- **The other modules of ns-3** (wifi, lte, internet, core and so on): unmodified
  upstream code that the repository carries along.

## The modules

| module | models | extends |
| --- | --- | --- |
| `DRR` | `DRRQueueDisc`, its CoDel children, the counters of `QueueDisc` | |
| `RoundRobin` | abstract: a round robin scheduler over per-flow queues | |
| `DRRRefinement` | the refinement mapping of `DRR` to `RoundRobin` | `DRR` |
| `DRRFair` | `DRR` with history variables that compare flows | `DRRRefinement` |
| `MCDRR` | symmetry for the instances of `DRR` | `DRR` |
| `ListLemmas` | lemmas about lists, sums, minimum and maximum | |
| `DRRProofs` | theorems about `DRR`, `DRRRefinement` and `DRRFair` | `DRRFair`, `ListLemmas` |
| `FlowControl` | `TrafficControlLayer`, the run loop, `NetDeviceQueue`, the device | |
| `Link` | abstract: a lossless FIFO pipe for each transmission queue | |
| `FlowRefinement` | the refinement mapping of `FlowControl` to `Link` | `FlowControl` |
| `FlowProofs` | theorems about `FlowControl` and `FlowRefinement` | `FlowRefinement`, `ListLemmas` |
| `BFDRR` | `BFDRRQueueDisc`; also mapped to `RoundRobin` | |
| `BFDRRProofs` | theorems about `BFDRR` | `BFDRR`, `ListLemmas` |
| `Burst` | `BurstyApplication`, `BurstSink` and the network between them | |
| `BurstProofs` | theorems about `Burst` | `Burst`, `ListLemmas` |
| `Shaper` | `TbfQueueDisc` over a CoDel child, its run loop and its device | |
| `ShaperHistory` | `Shaper` with history variables that measure its output | `Shaper` |
| `ShaperProofs` | theorems about `Shaper` and `ShaperHistory` | `ShaperHistory` |
| `Visualizer` | `SimulationThread` and `Visualizer` of PyViz, `PyViz::SimulatorRunUntil` | |
| `VisualizerProofs` | theorems about `Visualizer` | `Visualizer`, `ListLemmas` |
| `TestRunner` | `worker_thread` and the dispatching and collecting of `run_tests` | |
| `TestRunnerProofs` | theorems about `TestRunner` | `TestRunner`, `ListLemmas` |

How they correspond to the code:

- **`DRR`.** `Enqueue` is `DoEnqueue` up to its loop, `DRRDrop` (`DropHead`,
  `DropNull`) one iteration of the loop, `Serve`, `Defer` and `PeekNull` the three
  ways an iteration of `DoDequeue` can go, `CoDelDrop` a drop inside a peek.  The
  simulator is single threaded, so a handler runs to its end; `pc` says which loop
  is running and keeps others out.  A packet is its size.  `held` is the child's
  `m_requeued` with `m_peeked` set, so the suppressed counters are visible: a drop
  from a child that holds a packet changes no count.  `pc = "fault"` is a null
  dereference.
- **`FlowControl`.** A step is a simulator event, except that an iteration of `Run`
  is a step of its own.  The traces that join the device queue to its
  `NetDeviceQueue` run inside `Accept` and `TransmitStart`, in the code's order:
  enqueue notifies the limits and tests for room, dequeue completes bytes, tests the
  limits, then tests for room; each cause that ends schedules its own wake.  The
  limit after a completion is any of `Limits`, which covers whatever
  `DynamicQueueLimits` computes, and so is the first limit, which the code leaves
  uninitialised (`dynamic-queue-limits.cc:90` sets everything but `m_adjLimit`).
- **`BFDRR`.** As `DRR`, without child queue discs.  `overflowing` counts the entries of
  each flow in `m_overflowingBurstyFlows`, whose order nothing reads.  `FlowMaxSize` is the
  capacity the
  constructor gives the flow queues: it reads `m_hard_limit` before the attribute has
  set it.  The run shows what the scheduler is meant to do with
  `FlowMaxSize = HardLimit`; the zero the code has is one of the differences below.
- **`Burst`.** A fragment is the number of its burst and its place in it; the header
  fields follow from the burst's size through `Fragments`, which translates the
  arithmetic of `SendFragmentedBurst`.  `Lose` and the choice of the next fragment
  are the network, which loses and reorders datagrams and never duplicates one.
- **`Shaper`.** A step is an event or an iteration of `Run`, split at the packet the
  child dequeues: `TbfPeek` (`PopAndKeep`, `PopAndDrop`, `PopAndLoop`) and `DropLoop` are
  CoDel's dequeue inside the peek, `Send` and `Block` the two ways `DoDequeue` ends,
  `Watchdog` the setting of the event.  `RunBegin` gives a run its quota and `CountDown`
  takes one off it for every packet sent after which the run could go on.  Times are kept
  relative to now: `elapsed` since
  `m_timeCheckPoint`, `wakeIn` until `m_id`, `firstAbove` and `dropNext` until theirs, and
  `Tick` moves all of them, which stop where no test tells a longer time apart.  A rate is
  the ticks a byte takes, so `Earned` is the code's `round`.  `RateDelay` and `PeakDelay`
  translate `CalculateBytesTxTime` with the conversion of its argument to `uint32_t`, and
  `NaNDelays` is what a build makes of 0 divided by 0.
- **`ShaperHistory`** adds the backlog a line of the rate would have if it were given the
  packets sent (`excess`, `pexcess`) and the time CoDel has seen only packets above its
  target (`aboveFor`).
- **`Visualizer`.** A step is what one thread does between two operations the other can
  see.  The main thread takes the lock only for what one action does, so `Locked` is read
  off the simulation thread.  A callback that polls is kept on `stack`; `Retry` is its turn
  once the main loop inside it has nothing to do.  Time is the distance to the target.
- **`TestRunner`.** A step is one operation on a queue or a flag, or the start or end of a
  process.  A job is its number; what happened to its process is kept in `exited`.

An operator whose comment starts with *Fault* is a wrong form of the one that
follows: a mistake the code does not make, put in its place to see that the property
it is meant for notices.

## The runs

Every run is exhaustive on its instance.  `CHECK_DEADLOCK FALSE` is set where the
model may rightly stop: after a crash or an abort, when the queue disc is gone, after
the last burst in `Burst`, and where the program ends, in `Visualizer` and `TestRunner`.

| run | instance | what it shows |
| --- | --- | --- |
| `drr_safe` | 3 flows, sizes 1, 2, quantum 2, limit 6 | in the intended configuration (a quantum of at least a packet, a limit above what empties the fat flow) no child holds a packet between calls, and `DRR` implements `RoundRobin`, drops included: each takes a packet, never a flow's last one, and no flow without packets has a turn, which would be a null dereference |
| `drr_mixed` | 3 flows, quanta 1 and 3 changed at any time, `Word = 6` so that deficits wrap, limit 4, children of 4 bytes, `MinBytes` 1 | everything at once, crashes included: list, status, resets, counters, and that a drop from a child with a held packet always ends in a crash |
| `drr_fair` | 3 flows, sizes 2, 3, quantum 2 | bytes are shared within a quantum and two deficits; with packets held over several rounds `DRR` implements `RoundRobin`, so turns alternate, and nobody starves |
| `flow_path` | two queues of 2 packets, limits 0, 2, 9, quota 4 | no discard, and `FlowControl` implements `Link` despite head-of-line blocking |
| `flow_swaps` | a queue of 6 bytes, limits 0, 4, 9, quota 2, uninstall and install at any time | only a run that used its quota up strands packets, at most two wakes are owed, a stopped queue always has a transmission to come that looks at the stop again, and in the end the stop is lifted, unless a swap crashes the node or removed the limits that hold it |
| `bfdrr_safe` | 2 flows, sizes 1, 3, quanta 1, 2, soft limit 1, hard limit 3, `Word = 6` | the overflow list is exact, and `BFDRR` implements `RoundRobin` |
| `burst_reorder` | burst sizes 4 to 18, 30 and 36, header 4, fragments of 6, two bursts under way | fragments add up and keep their bounds; complete bursts are reported whole, once and in order; assertions fail for oversized bursts only |
| `shaper` | packets of 1 and 2 bytes, buckets of 3 and 2 bytes, with and without a peak rate, 3 packets in the child, quota 2, `Word = 4` | both rates are kept, CoDel drops only after an interval above its target, only a run that used its quota up abandons packets, and packets keep leaving although the watchdog may be late, unless such a run is the last |
| `visualizer` | two timers, periods 1, 2, the user doing anything at any time | never more than a period ahead, messages once, quit ends both threads, it goes on while playing and stops when paused |
| `test_runner` | 2 workers, up to 3 jobs of 3 kinds, processes that pass, crash, garble their output or cannot be started, an interrupt at any time | every job in one place, success is real, the run ends with all its threads, a crash ends it early only when its output hides the return code |
| `drr_overfull` (violation) | 2 flows, limit 3 | `DRRDrop` empties an active flow, which stays on the list; the next visit crashes |
| `shaper_peak` (violation) | one packet size, buckets of 4 and 3 bytes, a peak rate four times the rate | the watchdog of a packet blocked by the first bucket is set long after both buckets have its tokens |

A run marked as a violation checks what a comment or document of the repository says,
which `PROJECT.json` quotes; TLC finds a behaviour of the code that contradicts it.  Both
were also reproduced with the compiled simulator: `drr_overfull` ends in a null
dereference, and with buckets of 2500 and 1500 bytes, a rate of 80 kbps and a peak rate of
160 kbps the second of four packets of 1000 bytes leaves after 429497 s, the time of 2^32
bytes at the rate, since there it is the first bucket that has tokens left.

### Differences met while modelling

The models contain these behaviours; no run is spent on showing them.

- `doc/drr.rst:30` says that the deficit of a new flow "is initiated to the configured
  quantum"; `DoEnqueue` leaves it at zero, which `InactiveIsReset` relies on.
- `drr-queue-disc.h:159` says that `DRRDrop` takes a packet from the tail; it takes the
  head, as `drr.rst:30` says and `RoundRobin!Lose` requires.
- `doc/drr.rst:68` calls the quantum "the number of bytes each queue gets to dequeue on
  each round".  `DoDequeue` sends one packet a visit however large the quantum is, so
  `BytesFair` holds only when no quantum exceeds a packet, which is what `drr_fair`
  assumes; with larger quanta deficits grow until they wrap.
- `net-device-queue-interface.h:374` calls a discard by the device a bug that a correct
  device avoids.  With `MaxSize` in bytes it happens: the test for room takes a packet of
  MTU size, but the device adds its header first (`Header` in the model; `flow_path`
  counts packets).
- `traffic-control-layer.cc:259` removes the wake callbacks but not the events already
  scheduled for them, which call a null callback (`WakeNull`).  `doc/queue-discs.rst:180`
  suggests to install another queue disc after `Uninstall`; on a running node it is never
  connected and `Send` indexes an empty vector (`SendUnscanned`).  Both crashes are in
  `flow_swaps`, and an
  exception of `StopsAreLifted`.
- Queue limits that `Uninstall` removes while they hold a queue stopped leave it stopped
  for good: the exception that `StopsEnd` and `StopsAreLifted` state.
- `DRRDrop` picks the fat flow by counts that include a packet its child holds for a peek
  and takes from the queue that does not: it frees nothing until it dereferences null.
  `HeldDropIsFatal` states it, `drr_mixed` checks it and `HeldDropNeverReturns` proves it;
  the compiled simulator does it.  With a `MinBytes` of zero CoDel may also drop a child's
  last packet while DRR peeks, to the same end; the runs take it positive.
- `queue-disc.cc:959` has "\todo netif_schedule (q);" where a run ends on its quota: nobody
  continues it, and packets are left behind an idle device (so too in the compiled
  simulator).  `NotStranded` of `FlowControl`, `NotAbandoned` and `PacketsLeave` of `Shaper`
  make
  exactly these runs their exception.
- The constructor of `BFDRRQueueDisc` reads `m_hard_limit` for the flow queues before the
  attribute is set (`bfdrr-queue-disc.cc:72`): the flow queues have size zero, the first
  packet is dropped and the first dequeue crashes, also in the compiled simulator;
  `VisitsFaultJustWithoutRoom` proves that every dequeue does.  A soft
  limit in bytes is compared with a size in packets, which aborts
  (`bfdrr-queue-disc.cc:162`).
- Without a peak rate TBF divides 0 by 0 (`data-rate.cc:239`); in one build the result was
  half a second, so every wake waited at least as long.
- A dequeue from an empty CoDel leaves `m_firstAboveTime` set (`codel-queue-disc.cc:233`).
  In the model the next pop resets it or a packet has waited in between, so
  `DropsOnlyAfterInterval` holds all the same: `Run` does not show an empty queue to CoDel.
- `PyViz::Pause` is to pause a run at once, but the simulator's loop never reads `m_stop`:
  it runs to its target first, which `MessagesOnce` and `NeverFarAhead` allow for.
- A change of speed starts a timer although the button is released
  (`core.py:1443` says "if we're paused, stop the update timer"): that timer's first callback
  runs, finds the button released and lets go of it, so `PauseStops` holds.
- The comment at `test.py:1788` promises a VALGR entry in the results of a suite that
  returned 2; none is written.  A suite that crashes and whose output cannot be decoded counts
  as failed, `test.py:1780` takes it to have written its results, and main ends in the
  exception of `open`.  A process that cannot be started ends its worker, and main waits for
  ever.  `RunEnds` states that nothing else keeps a run from its end.
- A BFDRR flow is added to `m_overflowingBurstyFlows` with every packet above the soft
  limit; the code wonders about it itself (`bfdrr-queue-disc.cc:161`).
- `BFDRRQueueDisc::DoPeek` shows the first flow's packet even if its deficit will not cover
  it, while `queue-disc.h:406` promises "the next packet the queue discipline will extract".
- `burst-sink.h:68` says that "If all fragments from a burst are received, the burst is
  successfully received".  With more fragments than `uint16_t` counts two of them share a
  number, the count in the header is too small, and the sink asserts or reports a part:
  `CompleteIsReported`, `ReportedIntact` and `AssertsOnlyOnOverflow` are about bursts that can
  be counted (`Countable`).  For `CompleteIsReported` only the proof showed it; the sizes TLC
  was given at first were too few.
- A burst of exactly a header's size is sent without payload, on which the sink aborts
  (`burst-sink.cc:236`); with a fragment size below two headers the sender aborts on the
  sizes whose last fragment is too small (`SendAborts`).

### Bounds

- `Word` stands for 2^32 (2^16 in `Burst`).  It is small where the wrap is the point
  (`drr_mixed`, `bfdrr_safe`, `burst_reorder`) and large where it is not.
- `MaxBacklog` bounds the bytes the senders keep queued and `MaxDeficit` makes them pause
  while a deficit is large; both guard only `Enqueue`, so nothing the queue disc does by
  itself is cut off.  Where overflow is of interest, `MaxBacklog` exceeds `Limit` by a
  largest packet, the most by which an enqueue can overshoot.
- `MaxOverflow` bounds the entries of one flow in the list of overflowing flows of `BFDRR`.
  A flow that goes back and forth between 2 and 3 packets adds one every time, and all of them
  are removed at once, so that 4 show what more would.
- Three flows give a ring (two cannot tell one from an alternation) and a fat flow among
  others.  `BFDRR` has no choice among flows and takes two.
- `DiscLimit` and `DevMax` are small enough to be reached.  In `flow_path` the queue disc
  holds fewer packets than the quota lets through in a run, since a run that ends on its
  quota implements no link; in `flow_swaps` it may hold more.
- Two bursts, one of which replaces the other, are all the sink ever knows about; the sizes
  give all remainders for one, two and three fragments.  30 makes five fragments and 36 six
  where `Word` counts to three, so that the count is 1 or 2 and two fragments share a number.
  `Word > 2` is assumed, since up to two fragments may carry no payload.
- `Shaper` holds up to 3 packets and its quota is 2, so that runs end on it and leave a
  packet.  It needs no bound of its own: `MaxElapsed` and `MaxOverdue` are where its clocks can
  no longer be told apart.  `Word = 4` is just more than the tokens of a bucket, so that
  late wakes happen and end; `shaper_peak` takes 16, past everything else.  A bucket of 3
  bytes sends
  one packet of 2 at once and blocks on the next, one of 2 on every second; a target of one
  tick and an interval of two let CoDel enter, stay in and leave its dropping state.
- `MaxTimers = 2` lets one callback poll inside another and an id be stale; a third only
  repeats the second.  Periods 1 and 2 make the target nearer or farther than before when
  the speed changes.
- In `TestRunner` two workers and three jobs leave one worker a job while the other takes
  its break job, and a job behind the interrupt; a `FAIL` comes from garbled output, and
  VALGR is treated as it is.
- `FlowSymmetry` permutes flows, which are model values that nothing orders; it is used
  with safety properties only.

### Fairness

`DRR!FairSpec` assumes that a loop that runs goes on and that `Dequeue` is called again
and again, because a device asks for the next packet whenever it has sent one; arrivals,
`SetQuantum` and CoDel's drops are not fair.  Strong fairness of `Visit` is needed since
an enqueue whose drop loop is running disables it; the simulator executes only finitely
many arrivals before the event that dequeues.  `BFDRR!FairSpec` is the same.
`FlowControl!FairSpec` assumes that each scheduled event is executed, a wake whatever callback
it finds (`WakeRun` or `WakeNull`): a wake and the end of
a transmission are disabled while a run of the queue disc, which is inside an event, lasts
in the model.  `Burst` assumes no fairness: the network may lose everything.

`Shaper!Fairness` assumes that a run of the queue disc goes on, that simulated time passes
and scheduled events are executed, and that the device wakes the queue it has stopped, as it
does when a transmission ends; strong fairness for those a run disables.  Arrivals are not
fair.  `Visualizer!FairSpec` assumes that both threads are scheduled and that the main loop
dispatches each ready source and lets a polling callback try again, again and again: strong
fairness, since the lock and other callbacks disable them.  The user is not fair.
`TestRunner!FairSpec` assumes that the threads are scheduled and that every process ends;
`test.py` has no time limit for one that does not.

## What is proved

Every invariant and every action property that a run checks, and the safety part of each
refinement, is a theorem; that of `BFDRR` needs flow queues with room for a packet, which its
constructor does not give them.  The theorems hold for all constants that satisfy the
`ASSUME`s of
the modules, and for nothing else unless a hypothesis is named below.  Where TLC checks
three flows, two queues or two timers, the theorem has any number of them.

Sums, minima, maxima and selections from a sequence are folds in the models.  The prover
cannot instantiate the library's induction theorems, which take an operator, so
`ListLemmas` proves induction over the subsets of a finite set once, from the well-foundedness
of their inclusion (`SubsetInduction`), and from it that a fold is the step it should be
(`TotalRemove`, `SumOfAppend`, `SumOfTail`, `MinIsLeast`, `MaxIsGreatest`).

### DRR

| theorem | property |
| --- | --- |
| `TypeCorrect` | `TypeOK` |
| `ListMatchesStatus` | `ListIsExact`, that is `NoDuplicates` and `ListedIffActive` |
| `InactiveFlowsAreReset` | `InactiveIsReset` |
| `HeldPacketsAreShort` | `HeldIsShort` |
| `LimitHolds` | `LimitAtRest` |
| `HeldDropNeverReturns` | `HeldDropIsFatal` |
| `DeficitIsBounded` | `DeficitBound`, when no quantum exceeds any packet |
| `NothingIsHeldWithoutWrap` | `NothingHeld`, when every quantum covers every packet and no deficit wraps |
| `CountersAreExact` | `CountersExact`, for finitely many flows |
| `ServesRoundRobin` | `RR!Spec`, the safety part of `ImplementsRoundRobin` |
| `LargeQuantaServeRoundRobin` | the same for quanta that cover every packet |
| `BytesAreSharedFairly` | `BytesFair`, for one quantum that no packet is smaller than |

`HeldIsShort`, `LimitAtRest` and `DeficitBound` are proved and checked by no run.

The argument: `TypeOK` is inductive by itself, since a packet is taken from a queue only
where the guard has seen one and a deficit is reduced only after it was found to cover
the packet.  The other structural properties are not inductive one by one.  That an
inactive flow has no packet left follows from its counter having reached zero, which says
something about the queue only if the counter counts the packets the child stores and the
one it holds; that a flow pushed to the end of the list is not there twice needs the list
to be free of duplicates *and* to agree with the statuses, so the two are carried
together with the exact per-child packet counts in one invariant, `Structure` (theorem
`StructureInvariant`).
It holds between the steps of `DRRDrop` as well, where the byte counts do not: the proof
keeps the count of packets of a child as an inequality while a drop that counts nothing
is under way.  `HeldDropNeverReturns` rests on the choice of the fat flow depending on
byte counts alone, which such a drop leaves as they are.

`NothingIsHeldWithoutWrap` is stated as `Spec /\ [](no wrap) => []NothingHeld`: without
the premise it is false, because a deficit that a flow of small packets piles up for long
enough wraps and may then be short of a packet.  TLC shows it for an instance in which
`MaxDeficit` keeps the wrap out.

`CountersInv` adds the bytes of each child and, as sums over all flows, the counters of the
parent; a packet that is dropped or sent moves one summand and the sum by the same.

`ServesRoundRobin` has two premises about the behaviour, both of which the code needs:
`DRRDrop` never finds a flow that holds a peeked packet (`~Wedged`), and the limit has room
for a largest packet of every listed flow (`RoomFor`), since a fat flow with a single packet
would otherwise lose it and stay on the list, which `drr_overfull` shows.  Under them each
drop leaves a packet behind (`FatFlowHasTwo`: above a limit that
has room for one packet of each, some flow has two, and so has the fattest), and
`ServiceInv`, that a listed flow has a packet and no
call crashed, is inductive.  `LargeQuantaServeRoundRobin` exchanges the first premise for
quanta that cover a packet and deficits that do not wrap.

For `BytesFair` the invariant is `LeadsMatch`: what flow f is ahead of flow g is the quanta
f has been given more than g, up to what each had saved at first and has saved now; and by
how many quanta they differ, the order of the two on `m_flowList` tells, since a turn of
either swaps that order.  The lemmas on `Precedes` say what the operations of the list do to
the order.  With quanta larger than a packet the property is false, see above.

### TBF over CoDel

| theorem | property |
| --- | --- |
| `ShaperTypeCorrect` | `TypeOK` |
| `NoPacketIsAbandoned` | `NotAbandoned` |
| `RatesAreKept` | `RatesHold` |
| `DropsFollowAnInterval` | `DropsOnlyAfterInterval` |

They are about `Spec` of `Shaper` and `HistorySpec` of `ShaperHistory`, for all packet sizes,
bucket sizes, rates, peak rates, limits and clocks (positive where the code divides by them).

The types need one fact more, that CoDel's loop turns only while a drop is due
(`DropIsDue`): `dropNext` would leave its range otherwise.  `NotAbandoned`, with its
exception of a run
that used its quota up, is inductive with the types: what a peek leaves empty-handed is an
empty queue, and a delay is never negative,
so that a watchdog that is set stays distinct from none.  The rates are not inductive:
between two packets the bucket in the code does not move, and only `elapsed` tells what it
will be found to have earned.  The invariant, `Behind`, relates the three: the line is behind
the packets sent by at most what the bucket lacks, less what the time since the last packet
is worth.  A tick takes from both sides (`BucketFills`); a packet adds to both, where
rounding to the nearest byte may add half a byte that the charge in `ShaperHistory` allows
for (`BucketPays`).  At the bound of `elapsed` the bucket is full and the line has nothing
left.  The lemmas on quotients and products at the top of the module are the arithmetic.

`DropsOnlyAfterInterval` rests on `DropInv`: while `m_firstAboveTime` is set there are packets
in the queue, so no pop has met an empty one, and the time until it is at least what is
missing from an interval above the target.  That `m_firstAboveTime` outlives no empty queue
is the point where the code could have gone wrong (see the differences above).

### The path to the device

| theorem | property |
| --- | --- |
| `FlowTypeCorrect` | `TypeOK` |
| `NoWakeupIsLost` | `NotStranded` |
| `StopsAreTemporary` | `StopsEnd` |
| `NoPacketIsDiscarded` | `NeverDiscarded`, when in byte mode a packet and its header fit the MTU |
| `QueuesAreLossless` | `L!Spec`, the safety part of `ImplementsLink`, with the same hypothesis and no uninstall |

All of them assume `DeviceFits`: in byte mode a device queue can hold one packet of MTU size
with its header; with less it is stopped while it is empty and never starts again.  The
invariant, `FlowInv`, is about each transmission queue by itself (`QueueInv`): while the
transmitter is idle its queue is empty and owes no wake, a queue that is not stopped has room,
and one that is stopped has a packet behind the one in flight; `NotStranded` then follows the
run loop.  A queue owes at most two wakes because a transmission ends only after the wakes of
its start have run, and each start schedules at most one for either stop (`WakeCount`).

For `QueuesAreLossless` the pipe of a transmission queue is what its transmitter, its device
queue, `m_requeued` and the queue disc hold for it, in that order.  `For` selects a queue's
packets from what the queue disc holds; the lemmas about it (`ForOfAppend`, `ForOfPrepend`) go
by induction over the places of a sequence.  An arrival then appends to one pipe
(`SendIsAccept`), the run loop moves a packet from the third part to the first without a
change of order (`RunKeepsOrder`), and the end of a transmission takes the head of one
(`CompletionIsDelivery`).

### BFDRR

| theorem | property |
| --- | --- |
| `BFDRRTypeCorrect` | `TypeOK` |
| `FlowsWithPacketsAreListed` | every flow with packets is on the list, none twice |
| `VisitsFaultJustWithoutRoom` | with `FlowMaxSize = 0` every visit dereferences null, with more room none does |
| `OverflowingFlowsAreListed` | `OverflowingIsExact`, unless `FlowMaxSize = SoftLimit` |

They hold for every size of the flow queues, the zero that the constructor gives them and the
`HardLimit` it means to give them alike, and the last for any but `SoftLimit`: a packet
refused by a queue that is full at just the soft limit is entered in the list of overflowing
flows although the flow is not above it.  The invariant, `ListInv`, is the agreement of list,
status and queues that DRR has only without overfull drops.  It holds although `DoEnqueue`
lists a flow whose queue refused the packet: a queue that refuses one is full, and so not
empty, unless its size is zero (`StoreFillsQueue`).

`StepsAreRoundRobin` in the same module is the safety part of `ImplementsRoundRobin`.  It
assumes `FlowMaxSize > 0` and so is about the queue disc as it is meant to be, not as it
comes out of its constructor.

### Bursts

| theorem | property |
| --- | --- |
| `BurstTypeCorrect` | `TypeOK` |
| `BurstsAreCutExactly` | `CutExactly` |
| `CompleteBurstsAreReported` | `CompleteIsReported` |
| `BurstsAreReportedInOrder` | `ReportedInOrder` |
| `AssertionsHold` | `AssertsOnlyOnOverflow` |
| `ReportsAreIntact` | `ReportedIntact` |

They need no hypothesis but that a fragment has room for a header and `Word > 2`.  The
arithmetic of the last two fragments is settled once (`FragmentsAddUp`).  The invariant,
`BurstInv`, says of the burst being assembled that the buffer and the early fragments are
exactly those that are no longer under way, the merged ones the first of them in order
(`Kept`, `Pending`), and of the bursts reported that all their fragments are in the buffer, so
that none is left to start one again (`Reports`).  A burst that cannot be counted breaks the
link between a fragment's number and its place; the invariant speaks of numbers, and of places
only under `Countable`.

### The visualizer and the test runner

| theorem | property |
| --- | --- |
| `VisualizerTypeCorrect` | `TypeOK` of `Visualizer` |
| `SimulatorStaysNear` | `NeverFarAhead` |
| `MessagesAreShownOnce` | `MessagesOnce` |
| `RunnerTypeCorrect` | `TypeOK` of `TestRunner` |
| `JobsAreInOnePlace` | `EachJobOnce` |
| `SuccessMeansPassed` | `SuccessIsReal` |

They have no hypotheses; callbacks nest to any depth and there are any number of workers and
jobs.  `VizInv` relates what the simulator has run since the view was updated to what it may
still run: together no more than a period, though an update, a change of speed and a round of
the simulator each move one of them; and only the callback that has just got the lock has
taken messages.  `RunnerInv` counts the places of a job over both queues, the workers and the
answers taken (`OncePlaced`), and says that answers are true (`AnswersAreTruthful`): the second
needs the first, because the end of a process would make an earlier answer untrue if the job
could be with two workers.

### What is only model-checked

- Liveness under fairness (`NoStarvation`, `PacketsLeave`, `StopsAreLifted`, `QuitEnds`,
`KeepsPlaying`,
  `PauseStops`, `RunEnds`), and the fairness of the abstract specifications in
  `ImplementsRoundRobin` and `ImplementsLink`: the prover has no rules for ENABLED.
- The two violations.

## Plan

Done first, because it is the repository's own subject: `DRR` with its abstract scheduler,
fairness and proofs; then the path that calls it; then `BFDRR`; then the bursts that feed
it; then TBF over CoDel with its clocks, and the two concurrent programs, the visualizer and
the test runner; then proofs of the safety properties of all of them.  Next, in this order:

1. Proofs: `RR!Spec` for `DRR` under hypotheses on the constants alone, where its premises
   about wraps and room are about behaviours now; `BytesFair` for a quantum that changes.
2. `DRR` as a child of the run loop: its own `m_requeued`, so that `FlowControl` composes
   with `DRR` and not with a FIFO; the statistics identities of `queue-disc.h`.
3. `DynamicQueueLimits` with its counters, in modular arithmetic.
4. `FqCoDel`, which DRR was modelled after (new and old lists), `PfifoFast`, `Prio` and `Mq`,
   each as a refinement of an abstract scheduler.
5. `FlowApplication` and the packet filters.
