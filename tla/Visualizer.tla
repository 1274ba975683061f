----------------------------- MODULE Visualizer -----------------------------
(***************************************************************************)
(* The two threads of PyViz: SimulationThread, which runs the simulator up  *)
(* to a target time each time it is told to go, and the GTK main loop, in   *)
(* which a timer updates the view, moves the target and says go again.      *)
(* While the simulator is busy the timer's callback runs the main loop, so  *)
(* that other callbacks, the buttons' included, run inside it.              *)
(***************************************************************************)
EXTENDS Integers, SequencesExt

CONSTANTS Periods,   \* the sample_period each speed gives, in ticks
          MaxTimers, \* bound: the GLib sources in use at a time
          NoTimer    \* None in _update_timeout_id

ASSUME VisualizerAssumption ==
  /\ Periods \subseteq Nat \ {0} /\ Periods # {}
  /\ MaxTimers \in Nat
  /\ NoTimer \notin Nat

VARIABLES sim,       \* where SimulationThread.run is
          go,        \* its event
          quit,      \* its flag
          room,      \* target_time less the simulator's time
          raised,    \* PyViz::m_pauseMessages, how many
          messages,  \* pause_messages, how many
          view,      \* what the main thread does: its "loop", or a callback in it
          stack,     \* the timers whose callbacks have started, the last on top
          found,     \* the pause_messages the callback on top has taken
          timers,    \* the GLib sources of update_view_timeout
          timer,     \* _update_timeout_id, which may be stale
          idles,     \* calls of update_model that are pending
          play,      \* the button is pressed
          period,    \* sample_period
          lag,       \* history: what the simulator has run since update_view
          owed       \* history: pause messages raised and not shown

thread == <<sim, raised>>
ui == <<stack, timers, timer, play, period>>
vars == <<thread, go, quit, room, messages, view, found, idles, ui, lag, owed>>

Init ==
  /\ sim = "loop" /\ go = FALSE /\ quit = FALSE
  /\ room = 0 /\ raised = 0 /\ messages = 0
  /\ view = "loop" /\ stack = <<>> /\ found = 0
  /\ timers = {} /\ timer = NoTimer /\ idles = 0
  /\ play = FALSE /\ period \in Periods
  /\ lag = 0 /\ owed = 0

\* The main thread holds the lock only inside one action.
Locked == sim \in {"run", "unlock"}

-----------------------------------------------------------------------------
(***************************************************************************)
(* SimulationThread.                                                        *)
(***************************************************************************)
SimStep(from, to) == sim = from /\ sim' = to

SimLoop == /\ SimStep("loop", IF quit THEN "ended" ELSE "wait")
           /\ UNCHANGED go

SimWait == SimStep("wait", "clear") /\ go /\ UNCHANGED go

SimClear == SimStep("clear", "check") /\ go' = FALSE

SimCheck == /\ SimStep("check", IF quit THEN "ended" ELSE "lock")
            /\ UNCHANGED go

SimLock == SimStep("lock", "run") /\ UNCHANGED go

SimUnlock == SimStep("unlock", "loop") /\ UNCHANGED go

SimMoves == /\ SimLoop \/ SimWait \/ SimClear \/ SimCheck \/ SimLock \/ SimUnlock
            /\ UNCHANGED <<quit, room, raised, messages, view, found, idles, ui, lag, owed>>

\* Fault: the messages are cleared only when the simulator is really run.
ClearedLate == IF room > 0 THEN 0 ELSE raised

\* m_pauseMessages at the beginning of SimulatorRunUntil.
Cleared == 0

\* Fault: the simulator is run for a period, wherever the target is.
ForAPeriod == 1..period

\* How far SimulatorRunUntil gets: up to the target, if it is not there already,
\* or less if the simulator has nothing left to do.
Advances == IF room > 0 THEN 1..room ELSE {0}

SimRun ==
  /\ SimStep("run", "unlock")
  /\ \E ran \in Advances :
       /\ room' = room - ran
       /\ lag' = lag + ran
       /\ \E paused \in IF ran = 0 THEN {0} ELSE {0, 1} :
            /\ raised' = Cleared + paused
            /\ owed' = owed + paused
  /\ messages' = messages + raised'
  /\ idles' = idles + 1
  /\ UNCHANGED <<go, quit, view, found, ui>>

-----------------------------------------------------------------------------
(***************************************************************************)
(* The main loop.  It dispatches update_model before anything else.         *)
(***************************************************************************)
Dispatches == view = "loop" /\ idles = 0

\* update_model waits for the lock; the main loop stands still meanwhile.
UpdateModel ==
  /\ view = "loop" /\ idles > 0
  /\ view' = "model" /\ idles' = idles - 1
  /\ UNCHANGED <<thread, go, quit, room, messages, found, ui, lag, owed>>

UpdateModelEnds ==
  /\ view = "model" /\ ~Locked
  /\ view' = "loop"
  /\ UNCHANGED <<thread, go, quit, room, messages, found, idles, ui, lag, owed>>

\* A timer calls update_view_timeout, unless that call has not returned yet.
TimerFires(t) ==
  /\ Dispatches /\ t \in timers \ ToSet(stack)
  /\ stack' = Append(stack, t)
  /\ view' = "try"
  /\ UNCHANGED <<thread, go, quit, room, messages, found, idles>>
  /\ UNCHANGED <<timers, timer, play, period, lag, owed>>

\* The callback on top does not get the lock: it runs the main loop while there
\* are events, then tries again.
Poll ==
  /\ view = "try" /\ Locked
  /\ view' = "loop"
  /\ UNCHANGED <<thread, go, quit, room, messages, found, idles, ui, lag, owed>>

Retry(depth) ==
  /\ view = "loop" /\ stack # <<>> /\ Len(stack) = depth
  /\ view' = "try"
  /\ UNCHANGED <<thread, go, quit, room, messages, found, idles, ui, lag, owed>>

\* It gets the lock, takes the messages, updates the view and moves the target.
UpdateView ==
  /\ view = "try" /\ ~Locked
  /\ found' = messages /\ messages' = 0
  /\ room' = period /\ lag' = 0
  /\ view' = "finish"
  /\ UNCHANGED <<thread, go, quit, idles, ui, owed>>

\* The main loop of Gtk.main ends once the callbacks inside it have.
Return(frames) == IF quit /\ frames = <<>> THEN "ended" ELSE "loop"

\* Fault: it says go before it looks at the button.
GoAnyway == go' = TRUE

\* update_view_timeout says go only while the button is pressed.
SayGo == go' = IF play' THEN TRUE ELSE go

\* Messages release the button, which removes the timer; a callback that finds
\* the button released lets go of its timer.
UpdateViewEnds ==
  /\ view = "finish"
  /\ play' = (play /\ found = 0)
  /\ SayGo
  /\ timers' = timers \ ( (IF play' THEN {} ELSE {Last(stack)})
                          \cup (IF play # play' THEN {timer} ELSE {}) )
  /\ timer' = IF play' THEN timer ELSE NoTimer
  /\ stack' = Front(stack)
  /\ owed' = owed - found /\ found' = 0
  /\ view' = Return(stack')
  /\ UNCHANGED <<thread, quit, room, messages, idles, period, lag>>

\* Ids come round only after 2^32 of them: a new one is not in use, nor stale in
\* _update_timeout_id.
FreshTimers == (1..MaxTimers) \ (timers \cup ToSet(stack) \cup {timer})

\* Fault: a timer is started only if _update_timeout_id is None.
StartIfNone ==
  IF timer = NoTimer
  THEN timer' = Min(FreshTimers) /\ timers' = timers \cup {timer'}
  ELSE UNCHANGED <<timer, timers>>

\* _start_update_timer removes the source of the last id and starts a new one.
StartUpdateTimer ==
  /\ FreshTimers # {}
  /\ timer' = Min(FreshTimers)
  /\ timers' = (timers \ {timer}) \cup {timer'}

\* _on_play_button_toggled
Toggle ==
  /\ Dispatches /\ ~quit
  /\ play' = ~play
  /\ IF play' THEN StartUpdateTimer
     ELSE timers' = timers \ {timer} /\ UNCHANGED timer
  /\ UNCHANGED <<thread, go, quit, room, messages, view, found, idles>>
  /\ UNCHANGED <<stack, period, lag, owed>>

\* _speed_changed starts the timer, whatever the button says.
SpeedChanged ==
  /\ Dispatches /\ ~quit
  /\ period' \in Periods
  /\ StartUpdateTimer
  /\ UNCHANGED <<thread, go, quit, room, messages, view, found, idles>>
  /\ UNCHANGED <<stack, play, lag, owed>>

\* Fault: go is said before quit is set.
QuitLast(step) == /\ go' = (go \/ step = "quit")
                  /\ quit' = (step = "join")

\* The two assignments of _quit: quit, then go.
QuitFlags(step) == /\ quit' = TRUE
                   /\ go' = (go \/ step = "join")

Quit ==
  /\ Dispatches /\ ~quit
  /\ timers' = timers \ {timer} /\ timer' = NoTimer
  /\ QuitFlags("quit")
  /\ view' = "quit"
  /\ UNCHANGED <<thread, room, messages, found, idles, stack, play, period, lag, owed>>

QuitGoes ==
  /\ view = "quit"
  /\ QuitFlags("join")
  /\ view' = "join"
  /\ UNCHANGED <<thread, room, messages, found, idles, ui, lag, owed>>

\* The simulation thread has ended, and so do the main loop and the callbacks
\* whose polls the window was closed in.
Joined ==
  /\ view = "join" /\ sim = "ended"
  /\ view' = Return(stack)
  /\ UNCHANGED <<thread, go, quit, room, messages, found, idles, ui, lag, owed>>

Sim == SimMoves \/ SimRun

View == UpdateModelEnds \/ Poll \/ UpdateView \/ UpdateViewEnds \/ QuitGoes \/ Joined

Next == \/ Sim
        \/ View
        \/ UpdateModel
        \/ \E t \in 1..MaxTimers : TimerFires(t)
        \/ \E depth \in 1..MaxTimers : Retry(depth)
        \/ Toggle \/ SpeedChanged \/ Quit

Spec == Init /\ [][Next]_vars

(***************************************************************************)
(* Both threads are scheduled; the main loop dispatches every source that   *)
(* is ready again and again, and a callback that polls runs out of events   *)
(* again and again, timers being periodic.  What the user does is not fair. *)
(***************************************************************************)
FairSpec == /\ Spec
            /\ WF_vars(Sim) /\ WF_vars(View) /\ SF_vars(UpdateModel)
            /\ SF_vars(\E t \in 1..MaxTimers : TimerFires(t))
            /\ \A depth \in 1..MaxTimers : SF_vars(Retry(depth))

-----------------------------------------------------------------------------
\* The types of the fields; no timer's callback is running twice.
TypeOK ==
  /\ sim \in {"loop", "wait", "clear", "check", "lock", "run", "unlock", "ended"}
  /\ view \in {"loop", "try", "model", "finish", "quit", "join", "ended"}
  /\ {go, quit, play} \subseteq BOOLEAN
  /\ {room, raised, messages, found, idles, lag, owed} \subseteq Nat
  /\ timers \subseteq 1..MaxTimers /\ timer \in 1..MaxTimers \cup {NoTimer}
  /\ stack \in Seq(1..MaxTimers) /\ IsInjective(stack)
  /\ period \in Periods

\* The simulator is never ahead of the view by more than a period, whichever
\* callbacks said go since the view was updated, how often, and whether the button
\* has been released meanwhile.
NeverFarAhead == \E p \in Periods : lag <= p

\* Every message of PyViz::Pause is shown exactly once: in no round, though it
\* ends before it begins, is one taken over from the round before.
MessagesOnce == owed = messages + found

\* Closing the window, also from inside a callback that waits for the simulator,
\* ends both threads.
QuitEnds == quit ~> sim = "ended" /\ view = "ended"

\* While the button stays pressed the simulation goes on.
KeepsPlaying == []<>(~play \/ quit) \/ []<><<lag' > lag>>_vars

\* Once the button stays released the simulator stops, though the speed be changed.
PauseStops == <>[]~play => <>[](sim \in {"wait", "ended"})
=============================================================================
