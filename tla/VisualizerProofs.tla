-------------------------- MODULE VisualizerProofs --------------------------
(***************************************************************************)
(* Theorems about Visualizer for all sample periods and any number of       *)
(* timers, and so for callbacks nested to any depth.                        *)
(***************************************************************************)
EXTENDS Visualizer, ListLemmas

\* The inductive invariant.  The simulator cannot run further than the target, so
\* what it has run since the view was updated and what it may still run add up to
\* no more than a period.  Only the callback that has just got the lock has taken
\* messages, and each callback ends with its own timer on top of the stack.
VizInv ==
  /\ TypeOK
  /\ view \in {"try", "finish"} => stack # <<>>
  /\ view # "finish" => found = 0
  /\ MessagesOnce
  /\ \E p \in Periods : room + lag <= p

\* The counters are naturals and the periods too.
LEMMA CountersAreNaturals ==
  ASSUME TypeOK
  PROVE  /\ room \in Nat /\ raised \in Nat /\ messages \in Nat /\ found \in Nat
         /\ idles \in Nat /\ lag \in Nat /\ owed \in Nat
         /\ period \in Nat \ {0}
         /\ \A p \in Periods : p \in Nat \ {0}
BY VisualizerAssumption DEF TypeOK

\* It holds at first.
LEMMA VizInvAtFirst == Init => VizInv
<1> SUFFICES ASSUME Init PROVE VizInv
  OBVIOUS
<1>1. IsInjective(stack)
  BY DEF Init, IsInjective
<1>2. TypeOK
  <2>1. stack \in Seq(1..MaxTimers) /\ timers \subseteq 1..MaxTimers
    BY DEF Init
  <2>2. {room, raised, messages, found, idles, lag, owed} \subseteq Nat
    BY DEF Init
  <2> QED
    BY <1>1, <2>1, <2>2 DEF Init, TypeOK
<1>3. period \in Periods /\ period \in Nat
  BY VisualizerAssumption DEF Init
<1>4. \E p \in Periods : room + lag <= p
  BY <1>3 DEF Init
<1> QED
  BY <1>2, <1>4 DEF Init, VizInv, MessagesOnce

\* A round of the simulator.
LEMMA RoundsKeepVizInv ==
  ASSUME VizInv, SimRun
  PROVE  VizInv'
<1>1. /\ room \in Nat /\ raised \in Nat /\ messages \in Nat /\ found \in Nat
      /\ idles \in Nat /\ lag \in Nat /\ owed \in Nat
      /\ \A p \in Periods : p \in Nat \ {0}
  BY CountersAreNaturals DEF VizInv
<1>2. PICK ran \in Advances : room' = room - ran /\ lag' = lag + ran
  BY DEF SimRun
<1>3. ran \in 0..room
  BY <1>1, <1>2 DEF Advances
<1>4. PICK paused \in {0, 1} : raised' = Cleared + paused /\ owed' = owed + paused
  BY DEF SimRun
<1>5. messages' = messages + raised' /\ idles' = idles + 1
  BY DEF SimRun
<1>6. /\ room' \in Nat /\ raised' \in Nat /\ messages' \in Nat
      /\ idles' \in Nat /\ lag' \in Nat /\ owed' \in Nat
  BY <1>1, <1>2, <1>3, <1>4, <1>5 DEF Cleared
<1>7. sim' = "unlock" /\ UNCHANGED <<go, quit, view, found, stack, timers, timer, play, period>>
  BY DEF SimRun, SimStep, ui
<1>8. TypeOK'
  BY <1>6, <1>7 DEF VizInv, TypeOK
<1>9. MessagesOnce'
  BY <1>1, <1>4, <1>5, <1>7 DEF VizInv, MessagesOnce, Cleared
<1>10. (\E p \in Periods : room + lag <= p)'
  <2>1. PICK p \in Periods : room + lag <= p
    BY DEF VizInv
  <2>2. room' + lag' <= p
    BY <1>1, <1>2, <1>3, <2>1
  <2> QED
    BY <2>2
<1> QED
  BY <1>7, <1>8, <1>9, <1>10 DEF VizInv

\* The other steps of SimulationThread.
LEMMA MovesKeepVizInv ==
  ASSUME VizInv, SimMoves
  PROVE  VizInv'
<1>1. UNCHANGED <<quit, room, raised, messages, view, found, idles, ui, lag, owed>>
  BY DEF SimMoves
<1>2. sim' \in {"loop", "wait", "clear", "check", "lock", "run", "unlock", "ended"}
  BY DEF SimMoves, SimStep, SimLoop, SimWait, SimClear, SimCheck, SimLock, SimUnlock
<1>3. go' \in BOOLEAN
  BY DEF SimMoves, SimLoop, SimWait, SimClear, SimCheck, SimLock, SimUnlock, VizInv, TypeOK
<1>4. TypeOK'
  BY <1>1, <1>2, <1>3 DEF VizInv, TypeOK, ui
<1> QED
  BY <1>1, <1>4 DEF VizInv, MessagesOnce, ui

\* The callbacks of the timers.
LEMMA CallbacksKeepVizInv ==
  ASSUME VizInv,
         \/ UpdateView \/ UpdateViewEnds \/ Poll
         \/ \E t \in 1..MaxTimers : TimerFires(t)
         \/ \E depth \in 1..MaxTimers : Retry(depth)
  PROVE  VizInv'
<1>1. /\ room \in Nat /\ raised \in Nat /\ messages \in Nat /\ found \in Nat
      /\ idles \in Nat /\ lag \in Nat /\ owed \in Nat
      /\ period \in Nat \ {0}
  BY CountersAreNaturals DEF VizInv
<1>2. TypeOK /\ MessagesOnce
  BY DEF VizInv
<1>3. CASE UpdateView
  <2>1. TypeOK'
    BY <1>1, <1>2, <1>3 DEF TypeOK, UpdateView, thread, ui
  <2>2. MessagesOnce'
    BY <1>1, <1>3 DEF VizInv, MessagesOnce, UpdateView
  <2>3. (\E p \in Periods : room + lag <= p)'
    <3>1. period \in Periods /\ room' + lag' <= period
      BY <1>1, <1>2, <1>3 DEF TypeOK, UpdateView
    <3> QED
      BY <3>1
  <2> QED
    BY <1>3, <2>1, <2>2, <2>3 DEF VizInv, UpdateView, ui
<1>4. CASE UpdateViewEnds
  <2>1. stack \in Seq(1..MaxTimers) /\ stack # <<>> /\ IsInjective(stack)
    BY <1>2, <1>4 DEF VizInv, TypeOK, UpdateViewEnds
  <2>2. Front(stack) \in Seq(1..MaxTimers) /\ IsInjective(Front(stack))
    BY <2>1, FrontKeepsDistinct DEF IsInjective
  <2>3. view' \in {"loop", "ended"}
    BY <1>4 DEF UpdateViewEnds, Return
  <2>4. play' \in BOOLEAN /\ go' \in BOOLEAN
    BY <1>2, <1>4 DEF TypeOK, UpdateViewEnds, SayGo
  <2>5. timers' \subseteq 1..MaxTimers /\ timer' \in 1..MaxTimers \cup {NoTimer}
    BY <1>2, <1>4 DEF TypeOK, UpdateViewEnds
  <2>6. found' = 0 /\ owed' = messages /\ owed' \in Nat
    BY <1>1, <1>2, <1>4 DEF MessagesOnce, UpdateViewEnds
  <2>7. UNCHANGED <<sim, raised, quit, room, messages, idles, period, lag>>
        /\ stack' = Front(stack)
    BY <1>4 DEF UpdateViewEnds, thread
  <2>8. TypeOK'
    BY <1>2, <2>2, <2>3, <2>4, <2>5, <2>6, <2>7 DEF TypeOK
  <2> QED
    BY <1>1, <2>3, <2>6, <2>7, <2>8 DEF VizInv, MessagesOnce
<1>5. CASE Poll
  <2>1. TypeOK'
    BY <1>2, <1>5 DEF TypeOK, Poll, thread, ui
  <2> QED
    BY <1>5, <2>1 DEF VizInv, MessagesOnce, Poll, ui
<1>6. ASSUME NEW t \in 1..MaxTimers, TimerFires(t) PROVE VizInv'
  <2>1. /\ stack \in Seq(1..MaxTimers) /\ IsInjective(stack) /\ t \notin ToSet(stack)
        /\ stack' = Append(stack, t)
    BY <1>2, <1>6 DEF TypeOK, TimerFires
  <2>2. stack' \in Seq(1..MaxTimers) /\ stack' # <<>>
    BY <2>1, AppendProperties
  <2>3. IsInjective(stack')
    BY <2>1, AppendKeepsDistinct DEF IsInjective
  <2>4. TypeOK'
    BY <1>2, <1>6, <2>2, <2>3 DEF TypeOK, TimerFires, thread
  <2> QED
    BY <1>6, <2>2, <2>4 DEF VizInv, MessagesOnce, TimerFires, Dispatches
<1>7. ASSUME NEW depth \in 1..MaxTimers, Retry(depth) PROVE VizInv'
  <2>1. TypeOK'
    BY <1>2, <1>7 DEF TypeOK, Retry, thread, ui
  <2> QED
    BY <1>7, <2>1 DEF VizInv, MessagesOnce, Retry, ui
<1> QED
  BY <1>3, <1>4, <1>5, <1>6, <1>7

\* A timer that is started has an id that is not in use.
LEMMA TimersAreTyped ==
  ASSUME TypeOK, StartUpdateTimer
  PROVE  timer' \in 1..MaxTimers /\ timers' \subseteq 1..MaxTimers
<1>1. FreshTimers \in SUBSET (1..MaxTimers) /\ IsFiniteSet(1..MaxTimers)
  BY VisualizerAssumption, FS_Interval DEF FreshTimers
<1>2. FreshTimers \in SUBSET Int /\ IsFiniteSet(FreshTimers)
  <2>1. \A t \in FreshTimers : t \in Int
    BY <1>1
  <2>2. IsFiniteSet(FreshTimers)
    BY <1>1, FS_Subset
  <2> QED
    BY <2>1, <2>2
<1>3. Min(FreshTimers) \in FreshTimers
  BY <1>2, MinIsLeast DEF StartUpdateTimer
<1> QED
  BY <1>1, <1>3 DEF StartUpdateTimer, TypeOK

\* The other callbacks of the main loop, and what the user does.
LEMMA UserKeepsVizInv ==
  ASSUME VizInv,
         \/ UpdateModel \/ UpdateModelEnds
         \/ Toggle \/ SpeedChanged \/ Quit \/ QuitGoes \/ Joined
  PROVE  VizInv'
<1>1. TypeOK
  BY DEF VizInv
<1>2. UNCHANGED <<room, messages, found, stack, lag, owed>>
  BY DEF UpdateModel, UpdateModelEnds, Toggle, SpeedChanged, Quit, QuitGoes, Joined, ui
<1>3. view # "finish" /\ view' \notin {"try", "finish"}
  BY DEF UpdateModel, UpdateModelEnds, Toggle, SpeedChanged, Quit, QuitGoes, Joined,
         Dispatches, Return
<1>4. CASE UpdateModel
  <2>1. idles \in Nat /\ idles > 0
    BY <1>1, <1>4 DEF TypeOK, UpdateModel
  <2>2. idles' \in Nat
    BY <1>4, <2>1 DEF UpdateModel
  <2>3. TypeOK'
    BY <1>1, <1>4, <2>2 DEF TypeOK, UpdateModel, thread, ui
  <2> QED
    BY <1>2, <1>3, <2>3 DEF VizInv, MessagesOnce
<1>5. CASE UpdateModelEnds \/ Joined
  <2>1. view' \in {"loop", "ended"}
    BY <1>5 DEF UpdateModelEnds, Joined, Return
  <2>2. TypeOK'
    BY <1>1, <1>5, <2>1 DEF TypeOK, UpdateModelEnds, Joined, thread, ui
  <2> QED
    BY <1>2, <1>3, <2>2 DEF VizInv, MessagesOnce
<1>6. CASE Toggle
  <2>1. timers' \subseteq 1..MaxTimers /\ timer' \in 1..MaxTimers \cup {NoTimer}
    BY <1>1, <1>6, TimersAreTyped DEF TypeOK, Toggle
  <2>2. play' \in BOOLEAN
    BY <1>1, <1>6 DEF TypeOK, Toggle
  <2>3. TypeOK'
    BY <1>1, <1>6, <2>1, <2>2 DEF TypeOK, Toggle, thread
  <2> QED
    BY <1>2, <1>3, <2>3 DEF VizInv, MessagesOnce
<1>7. CASE SpeedChanged
  <2>1. timers' \subseteq 1..MaxTimers /\ timer' \in 1..MaxTimers
    BY <1>1, <1>7, TimersAreTyped DEF SpeedChanged
  <2>2. TypeOK'
    BY <1>1, <1>7, <2>1 DEF TypeOK, SpeedChanged, thread
  <2> QED
    BY <1>2, <1>3, <2>2 DEF VizInv, MessagesOnce
<1>8. CASE Quit \/ QuitGoes
  <2>1. go' \in BOOLEAN /\ quit' \in BOOLEAN
    BY <1>1, <1>8 DEF TypeOK, Quit, QuitGoes, QuitFlags
  <2>2. TypeOK'
    BY <1>1, <1>8, <2>1 DEF TypeOK, Quit, QuitGoes, thread, ui
  <2> QED
    BY <1>2, <1>3, <2>2 DEF VizInv, MessagesOnce
<1> QED
  BY <1>4, <1>5, <1>6, <1>7, <1>8

\* The inductive invariant holds in every state.
LEMMA VizInvariant == Spec => []VizInv
<1>1. Init => VizInv
  BY VizInvAtFirst
<1>2. VizInv /\ [Next]_vars => VizInv'
  <2> SUFFICES ASSUME VizInv, [Next]_vars PROVE VizInv'
    OBVIOUS
  <2>1. CASE UNCHANGED vars
    BY <2>1 DEF vars, thread, ui, VizInv, TypeOK, MessagesOnce
  <2> QED
    BY <2>1, RoundsKeepVizInv, MovesKeepVizInv, CallbacksKeepVizInv, UserKeepsVizInv
       DEF Next, Sim, View
<1> QED
  BY <1>1, <1>2, PTL DEF Spec

-----------------------------------------------------------------------------
\* The types; no timer's callback runs inside itself, however deep they nest.
THEOREM VisualizerTypeCorrect == Spec => []TypeOK
<1>1. VizInv => TypeOK
  BY DEF VizInv
<1> QED
  BY <1>1, VizInvariant, PTL

\* SimulationThread never runs the simulator further ahead of what update_view has
\* drawn than a sample period, whatever the user does and whichever timers fire.
THEOREM SimulatorStaysNear == Spec => []NeverFarAhead
<1>1. VizInv => NeverFarAhead
  <2> SUFFICES ASSUME VizInv PROVE NeverFarAhead
    OBVIOUS
  <2>1. room \in Nat /\ lag \in Nat /\ \A p \in Periods : p \in Nat
    BY CountersAreNaturals DEF VizInv
  <2>2. PICK p \in Periods : room + lag <= p
    BY DEF VizInv
  <2>3. lag <= p
    BY <2>1, <2>2
  <2> QED
    BY <2>3 DEF NeverFarAhead
<1> QED
  BY <1>1, VizInvariant, PTL

\* Of the messages that PyViz::Pause has raised, those not shown yet are in
\* pause_messages or with the callback that has taken them.
THEOREM MessagesAreShownOnce == Spec => []MessagesOnce
<1>1. VizInv => MessagesOnce
  BY DEF VizInv
<1> QED
  BY <1>1, VizInvariant, PTL
=============================================================================
