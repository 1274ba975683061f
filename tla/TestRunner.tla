----------------------------- MODULE TestRunner -----------------------------
(***************************************************************************)
(* test.py: the main thread dispatches jobs to worker threads through a     *)
(* queue, with one break job for each worker behind them, and collects as   *)
(* many answers as there are jobs.  A worker runs a job's process; after an *)
(* interrupt it only sends jobs back.  The interrupt reaches the processes  *)
(* too, and a process may end in any way at any time.                       *)
(***************************************************************************)
EXTENDS Integers, FiniteSets, SequencesExt

CONSTANTS Workers, \* the worker threads, one for each processor
          Kinds,   \* "suite", "example" and "skip", for a job that is skipped
          Codes,   \* what a process returns, see statusOf
          MaxJobs  \* bound: the jobs of a run

ASSUME TestRunnerAssumption ==
  /\ Workers # {} /\ IsFiniteSet(Workers)
  /\ Kinds \subseteq {"suite", "example", "skip"}
  /\ Codes \subseteq {"PASS", "FAIL", "VALGR", "CRASH"}
  /\ MaxJobs \in Nat

\* The job that tells a worker to stop; the others are numbered.
Break == 0

VARIABLES kinds,      \* the jobs dispatched, by number; total_tests of them
          breaks,     \* how many break jobs have been dispatched
          input,      \* input_queue
          output,     \* output_queue: jobs and what their workers say of them
          taken,      \* what main has taken from it, the base of all it reports
          main,       \* where run_tests is
          at,         \* where each worker is
          job,        \* the job each worker has
          threadExit, \* thread_exit
          exited      \* history: how the process of each job ended, or "never"

dispatcher == <<kinds, breaks>>
workers == <<at, job>>
vars == <<dispatcher, input, output, taken, main, workers, threadExit, exited>>

Init ==
  /\ kinds = <<>> /\ breaks = 0
  /\ input = <<>> /\ output = <<>> /\ taken = <<>>
  /\ main = "dispatch"
  /\ at = [w \in Workers |-> "get"] /\ job = [w \in Workers |-> Break]
  /\ threadExit = FALSE
  /\ exited = <<>>

-----------------------------------------------------------------------------
(***************************************************************************)
(* The main thread.                                                         *)
(***************************************************************************)
Dispatch(kind) ==
  /\ main = "dispatch" /\ Len(kinds) < MaxJobs
  /\ kinds' = Append(kinds, kind) /\ exited' = Append(exited, "never")
  /\ input' = Append(input, Len(kinds'))
  /\ UNCHANGED <<breaks, output, taken, main, workers, threadExit>>

\* Faults: one worker is not told; one is told twice.
AllButOneTold == breaks + 1 >= Cardinality(Workers)
OneToldTwice == breaks > Cardinality(Workers)

\* for i in range(processors)
AllTold == breaks = Cardinality(Workers)

DispatchBreak ==
  /\ main \in {"dispatch", "break"} /\ ~AllTold
  /\ main' = "break"
  /\ breaks' = breaks + 1 /\ input' = Append(input, Break)
  /\ UNCHANGED <<kinds, output, taken, workers, threadExit, exited>>

\* A suite that returned 0, 1 or 2 is expected to have written its results; of a
\* skipped job, an example or a crash main writes them itself.
ReadsResults(answer) ==
  kinds[answer.job] = "suite" /\ answer.status \in {"PASS", "FAIL", "VALGR"}

\* There is nothing to read: main ends with the exception of open, and a suite
\* that crashed has not written its results.
Missing(answer) == ReadsResults(answer) /\ exited[answer.job] = "CRASH"

\* for i in range(jobs)
Collect ==
  /\ main = "break" /\ AllTold
  /\ Len(taken) < Len(kinds) /\ output # <<>>
  /\ taken' = Append(taken, Head(output)) /\ output' = Tail(output)
  /\ main' = IF Missing(Head(output)) THEN "failed" ELSE "break"
  /\ UNCHANGED <<dispatcher, input, workers, threadExit, exited>>

Joined == \A w \in Workers : at[w] \in {"ended", "dead"}

\* The threads are joined and the results file is completed.
Finish ==
  /\ main = "break" /\ AllTold /\ Len(taken) = Len(kinds)
  /\ Joined
  /\ main' = "done"
  /\ UNCHANGED <<dispatcher, input, output, taken, workers, threadExit, exited>>

\* How many jobs main has reported with this status.
Tally(status) == Cardinality({i \in DOMAIN taken : taken[i].status = status})

\* run_tests returns 0
Success == main = "done" /\ Tally("PASS") + Tally("SKIP") = Len(kinds)

\* sigint_hook
Interrupt ==
  /\ main # "done" /\ ~threadExit
  /\ threadExit' = TRUE
  /\ UNCHANGED <<dispatcher, input, output, taken, main, workers, exited>>

-----------------------------------------------------------------------------
(***************************************************************************)
(* A worker thread.                                                         *)
(***************************************************************************)
Step(w, from, to) == at[w] = from /\ at' = [at EXCEPT ![w] = to]

Get(w) ==
  /\ input # <<>>
  /\ Step(w, "get", IF Head(input) = Break THEN "ended" ELSE "check")
  /\ job' = [job EXCEPT ![w] = Head(input)]
  /\ input' = Tail(input)
  /\ UNCHANGED <<dispatcher, output, taken, main, threadExit, exited>>

\* Fault: an interrupted worker forgets its job.
Forget(w, status) ==
  IF status = "break" THEN output
  ELSE Append(output, [job |-> job[w], status |-> status])

\* The job goes back to main.
Answer(w, status) == Append(output, [job |-> job[w], status |-> status])

\* Fault: the job is not marked, and its return code is still False, which is 0.
NotMarked(w) == IF threadExit THEN "PASS" ELSE "SKIP"

\* What the worker says of a job it does not run.
Unrun(w) == IF threadExit THEN "break" ELSE "SKIP"

\* The worker is interrupted, or the job is to be skipped.
NotToRun(w) == threadExit \/ kinds[job[w]] = "skip"

SendBack(w) ==
  /\ Step(w, "check", "get") /\ NotToRun(w)
  /\ output' = Answer(w, Unrun(w))
  /\ UNCHANGED <<dispatcher, input, taken, main, job, threadExit, exited>>

GoAhead(w) ==
  /\ Step(w, "check", "launch") /\ ~NotToRun(w)
  /\ UNCHANGED <<dispatcher, input, output, taken, main, job, threadExit, exited>>

Launch(w) ==
  /\ Step(w, "launch", "wait")
  /\ UNCHANGED <<dispatcher, input, output, taken, main, job, threadExit, exited>>

\* Popen raises an exception, which ends the thread.
LaunchFails(w) ==
  /\ Step(w, "launch", "dead")
  /\ UNCHANGED <<dispatcher, input, output, taken, main, job, threadExit, exited>>

\* The return code, unless the output cannot be decoded.
Returned(code, garbled) == IF garbled THEN "FAIL" ELSE code

ProcessEnds(w, code, garbled) ==
  /\ Step(w, "wait", "get")
  /\ exited' = [exited EXCEPT ![job[w]] = code]
  /\ output' = Answer(w, Returned(code, garbled))
  /\ UNCHANGED <<dispatcher, input, taken, main, job, threadExit>>

Main == (\E kind \in Kinds : Dispatch(kind)) \/ DispatchBreak \/ Collect \/ Finish

Worker(w) ==
  \/ Get(w) \/ SendBack(w) \/ GoAhead(w) \/ Launch(w) \/ LaunchFails(w)
  \/ \E code \in Codes, garbled \in BOOLEAN : ProcessEnds(w, code, garbled)

Next == Main \/ Interrupt \/ \E w \in Workers : Worker(w)

Spec == Init /\ [][Next]_vars

\* The threads are scheduled, and the processes they wait for end.
FairSpec == Spec /\ WF_vars(Main) /\ \A w \in Workers : WF_vars(Worker(w))

-----------------------------------------------------------------------------
Statuses == {"break", "SKIP", "PASS", "FAIL", "VALGR", "CRASH"}
Answers == [job : 1..Len(kinds), status : Statuses]

\* The types of the fields; no worker is sent two break jobs.
TypeOK ==
  /\ kinds \in Seq(Kinds) /\ exited \in Seq(Codes \cup {"never"})
  /\ breaks \in 0..Cardinality(Workers)
  /\ input \in Seq(0..Len(kinds)) /\ output \in Seq(Answers) /\ taken \in Seq(Answers)
  /\ main \in {"dispatch", "break", "done", "failed"}
  /\ at \in [Workers -> {"get", "check", "launch", "wait", "ended", "dead"}]
  /\ job \in [Workers -> 0..Len(kinds)]
  /\ threadExit \in BOOLEAN

\* Every job dispatched is in one place, whenever the interrupt comes: in a queue,
\* with a worker that will answer for it, or taken by main; so it is reported once.
EachJobOnce ==
  \A j \in DOMAIN kinds :
    Cardinality({i \in DOMAIN input : input[i] = j})
    + Cardinality({w \in Workers : job[w] = j /\ at[w] \notin {"get", "ended"}})
    + Cardinality({i \in DOMAIN output : output[i].job = j})
    + Cardinality({i \in DOMAIN taken : taken[i].job = j}) = 1

\* An exit status of 0 means that every job was skipped or its process has passed:
\* no interrupted run, however late the interrupt, passes for a successful one.
SuccessIsReal ==
  Success => \A j \in DOMAIN kinds : kinds[j] = "skip" \/ exited[j] = "PASS"

\* A suite has crashed with output that hides its return code.
Deceived == main = "failed" /\ Last(taken).status # exited[Last(taken).job]

\* The run ends with all its threads, interrupted or not and whatever crashes; main
\* gives up early only where it is deceived, and hangs only where Popen has failed.
RunEnds ==
  <>( \/ (main = "done" \/ Deceived) /\ \A w \in Workers : at[w] = "ended"
      \/ \E w \in Workers : at[w] = "dead" )
=============================================================================
