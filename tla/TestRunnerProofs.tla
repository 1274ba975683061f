-------------------------- MODULE TestRunnerProofs --------------------------
(***************************************************************************)
(* Theorems about TestRunner for every set of worker threads, every number  *)
(* of jobs of any kinds, and whatever the processes return.                 *)
(***************************************************************************)
EXTENDS TestRunner, ListLemmas

\* What a worker says of a job is one of the statuses.
LEMMA AnswersAreTyped ==
  ASSUME TypeOK, NEW w \in Workers, job[w] # Break, NEW status \in Statuses
  PROVE  Answer(w, status) \in Seq(Answers)
<1>1. job[w] \in 1..Len(kinds) /\ Len(kinds) \in Nat
  BY LenProperties DEF TypeOK, Break
<1>2. [job |-> job[w], status |-> status] \in Answers
  BY <1>1 DEF Answers
<1> QED
  BY <1>2, AppendProperties DEF Answer, TypeOK

\* A worker has a job until it has answered for it.
AtWork(w) == at[w] \notin {"get", "ended"}

\* The place of a worker is one of those of TypeOK, and the steps keep to them.
LEMMA StepsAreTyped ==
  ASSUME TypeOK, NEW w \in Workers, NEW from,
         NEW to \in {"get", "check", "launch", "wait", "ended", "dead"}, Step(w, from, to)
  PROVE  /\ at' \in [Workers -> {"get", "check", "launch", "wait", "ended", "dead"}]
         /\ at[w] = from /\ at'[w] = to
         /\ \A v \in Workers \ {w} : at'[v] = at[v]
BY DEF Step, TypeOK

-----------------------------------------------------------------------------
\* The answer of a job is of this set, whatever its status.
AnswersFor(j) == [job : {j}, status : Statuses]

\* The workers that will answer for a job.
Holding(j) == {w \in Workers : job[w] = j /\ AtWork(w)}

\* The places a job is in.
Places(j) ==
  Cardinality(PlacesOf(input, {j})) + Cardinality(Holding(j))
  + Cardinality(PlacesOf(output, AnswersFor(j))) + Cardinality(PlacesOf(taken, AnswersFor(j)))

OncePlaced == \A j \in 1..Len(kinds) : Places(j) = 1

\* What a worker has said of a job is so: only a process that has passed is said to
\* have passed, and only a job to skip is said to be skipped.
Truthful(answer) ==
  /\ answer.status = "SKIP" => kinds[answer.job] = "skip"
  /\ answer.status = "PASS" => exited[answer.job] = "PASS"

AnswersAreTruthful ==
  /\ \A i \in 1..Len(output) : Truthful(output[i])
  /\ \A i \in 1..Len(taken) : Truthful(taken[i])

\* The types, and what they leave open: a worker is not at work on a break job.
Shape ==
  /\ TypeOK
  /\ Len(exited) = Len(kinds)
  /\ \A w \in Workers : AtWork(w) => job[w] # Break
  /\ main = "done" => Len(taken) = Len(kinds)

\* The inductive invariant: that a job is in one place says which job's process a
\* worker ends, and so that its end makes no earlier answer untrue.
RunnerInv == Shape /\ OncePlaced /\ AnswersAreTruthful

\* OncePlaced is what EachJobOnce says.
LEMMA PlacesAreCounted ==
  ASSUME TypeOK
  PROVE  OncePlaced <=> EachJobOnce
<1>1. DOMAIN kinds = 1..Len(kinds)
  BY LenProperties DEF TypeOK
<1>2. ASSUME NEW j
      PROVE  /\ PlacesOf(input, {j}) = {i \in DOMAIN input : input[i] = j}
             /\ Holding(j) = {w \in Workers : job[w] = j /\ at[w] \notin {"get", "ended"}}
  BY DEF PlacesOf, Holding, AtWork
<1>3. ASSUME NEW s \in Seq(Answers), NEW j
      PROVE  PlacesOf(s, AnswersFor(j)) = {i \in DOMAIN s : s[i].job = j}
  <2>1. ASSUME NEW i \in DOMAIN s
        PROVE  s[i] \in AnswersFor(j) <=> s[i].job = j
    <3>1. s[i] \in Answers
      BY ElementOfSeq, LenProperties
    <3> QED
      BY <3>1 DEF Answers, AnswersFor
  <2> QED
    BY <2>1 DEF PlacesOf
<1>4. output \in Seq(Answers) /\ taken \in Seq(Answers)
  BY DEF TypeOK
<1>5. ASSUME NEW j
      PROVE  Places(j) =
               Cardinality({i \in DOMAIN input : input[i] = j})
               + Cardinality({w \in Workers : job[w] = j /\ at[w] \notin {"get", "ended"}})
               + Cardinality({i \in DOMAIN output : output[i].job = j})
               + Cardinality({i \in DOMAIN taken : taken[i].job = j})
  BY <1>2, <1>3, <1>4, Zenon DEF Places
<1> QED
  BY <1>1, <1>5, Zenon DEF OncePlaced, EachJobOnce

\* The counts of the places of a job are numbers.
LEMMA PlacesAreNumbers ==
  ASSUME TypeOK, NEW j
  PROVE  /\ Cardinality(PlacesOf(input, {j})) \in Nat
         /\ IsFiniteSet(Holding(j)) /\ Cardinality(Holding(j)) \in Nat
         /\ Cardinality(PlacesOf(output, AnswersFor(j))) \in Nat
         /\ Cardinality(PlacesOf(taken, AnswersFor(j))) \in Nat
<1>1. Holding(j) \in SUBSET Workers /\ IsFiniteSet(Workers)
  BY TestRunnerAssumption DEF Holding
<1>2. IsFiniteSet(Holding(j)) /\ Cardinality(Holding(j)) \in Nat
  BY <1>1, FS_Subset, FS_CardinalityType
<1> QED
  BY <1>2, PlacesAreFinite DEF TypeOK
-----------------------------------------------------------------------------
\* The invariant holds at first.
LEMMA RunnerInvAtFirst == Init => RunnerInv
<1> SUFFICES ASSUME Init PROVE RunnerInv
  OBVIOUS
<1>1. 0 \in 0..Cardinality(Workers)
  BY TestRunnerAssumption, FS_CardinalityType
<1>2. Len(kinds) = 0 /\ Len(exited) = 0 /\ Len(output) = 0 /\ Len(taken) = 0
  BY DEF Init
<1>3. TypeOK
  <2>1. job \in [Workers -> 0..Len(kinds)]
    BY <1>2 DEF Init, Break
  <2>2. /\ kinds \in Seq(Kinds) /\ exited \in Seq(Codes \cup {"never"})
        /\ input \in Seq(0..Len(kinds)) /\ output \in Seq(Answers) /\ taken \in Seq(Answers)
    BY DEF Init
  <2> QED
    BY <1>1, <2>1, <2>2 DEF Init, TypeOK
<1>4. Shape
  BY <1>2, <1>3 DEF Init, Shape, AtWork
<1>5. OncePlaced /\ AnswersAreTruthful
  BY <1>2 DEF OncePlaced, AnswersAreTruthful
<1> QED
  BY <1>4, <1>5 DEF RunnerInv

\* A worker's step changes the place of that worker, and no list but those named.
LEMMA WorkersKeepShape ==
  ASSUME Shape, NEW w \in Workers, Worker(w)
  PROVE  Shape'
<1>1. TypeOK /\ Len(exited) = Len(kinds) /\ \A v \in Workers : AtWork(v) => job[v] # Break
  BY DEF Shape
<1>2. Len(kinds) \in Nat
  BY <1>1, LenProperties DEF TypeOK
<1>3. CASE Get(w)
  <2> DEFINE to == IF Head(input) = Break THEN "ended" ELSE "check"
  <2>1. Head(input) \in 0..Len(kinds) /\ Tail(input) \in Seq(0..Len(kinds))
    BY <1>1, <1>3, HeadTailProperties DEF TypeOK, Get
  <2>2. /\ at' \in [Workers -> {"get", "check", "launch", "wait", "ended", "dead"}]
        /\ at'[w] = to /\ \A v \in Workers \ {w} : at'[v] = at[v]
    BY <1>1, <1>3, StepsAreTyped DEF Get
  <2>3. /\ job' \in [Workers -> 0..Len(kinds)]
        /\ job'[w] = Head(input) /\ \A v \in Workers \ {w} : job'[v] = job[v]
    BY <1>1, <1>3, <2>1 DEF TypeOK, Get
  <2>4. TypeOK'
    BY <1>1, <1>3, <2>1, <2>2, <2>3 DEF TypeOK, Get, Answers, dispatcher
  <2>5. (\A v \in Workers : AtWork(v) => job[v] # Break)'
    BY <1>1, <2>2, <2>3 DEF AtWork
  <2> QED
    BY <1>3, <2>4, <2>5 DEF Shape, Get, dispatcher
<1>4. CASE SendBack(w)
  <2>1. at[w] = "check" /\ job[w] # Break /\ Unrun(w) \in Statuses
    BY <1>1, <1>4 DEF SendBack, Step, AtWork, Unrun, Statuses
  <2>2. output' \in Seq(Answers)
    BY <1>1, <1>4, <2>1, AnswersAreTyped DEF SendBack
  <2>3. /\ at' \in [Workers -> {"get", "check", "launch", "wait", "ended", "dead"}]
        /\ at'[w] = "get" /\ \A v \in Workers \ {w} : at'[v] = at[v]
    BY <1>1, <1>4, StepsAreTyped DEF SendBack
  <2>4. TypeOK'
    BY <1>1, <1>4, <2>2, <2>3 DEF TypeOK, SendBack, Answers, dispatcher
  <2>5. (\A v \in Workers : AtWork(v) => job[v] # Break)'
    BY <1>1, <1>4, <2>3 DEF AtWork, SendBack
  <2> QED
    BY <1>4, <2>4, <2>5 DEF Shape, SendBack, dispatcher
<1>5. CASE GoAhead(w) \/ Launch(w) \/ LaunchFails(w)
  <2>1. PICK to \in {"launch", "wait", "dead"} :
          Step(w, at[w], to) /\ at[w] \in {"check", "launch"}
    BY <1>5 DEF GoAhead, Launch, LaunchFails, Step
  <2>2. UNCHANGED <<dispatcher, input, output, taken, main, job, threadExit, exited>>
    BY <1>5 DEF GoAhead, Launch, LaunchFails
  <2>3. /\ at' \in [Workers -> {"get", "check", "launch", "wait", "ended", "dead"}]
        /\ at'[w] = to /\ \A v \in Workers \ {w} : at'[v] = at[v]
    BY <1>1, <2>1, StepsAreTyped
  <2>4. TypeOK'
    BY <1>1, <2>2, <2>3 DEF TypeOK, Answers, dispatcher
  <2>5. (\A v \in Workers : AtWork(v) => job[v] # Break)'
    BY <1>1, <2>1, <2>2, <2>3 DEF AtWork
  <2> QED
    BY <2>2, <2>4, <2>5 DEF Shape, dispatcher
<1>6. CASE \E code \in Codes, garbled \in BOOLEAN : ProcessEnds(w, code, garbled)
  <2>1. PICK code \in Codes, garbled \in BOOLEAN : ProcessEnds(w, code, garbled)
    BY <1>6
  <2>2. at[w] = "wait" /\ job[w] # Break /\ Returned(code, garbled) \in Statuses
    BY <1>1, <2>1, TestRunnerAssumption DEF ProcessEnds, Step, AtWork, Returned, Statuses
  <2>3. output' \in Seq(Answers)
    BY <1>1, <2>1, <2>2, AnswersAreTyped DEF ProcessEnds
  <2>4. job[w] \in 1..Len(exited)
    BY <1>1, <1>2, <2>2 DEF TypeOK, Break
  <2>5. exited' \in Seq(Codes \cup {"never"}) /\ Len(exited') = Len(exited)
    BY <1>1, <2>1, <2>4, ExceptSeq DEF TypeOK, ProcessEnds
  <2>6. /\ at' \in [Workers -> {"get", "check", "launch", "wait", "ended", "dead"}]
        /\ at'[w] = "get" /\ \A v \in Workers \ {w} : at'[v] = at[v]
    BY <1>1, <2>1, StepsAreTyped DEF ProcessEnds
  <2>7. TypeOK'
    BY <1>1, <2>1, <2>3, <2>5, <2>6 DEF TypeOK, ProcessEnds, Answers, dispatcher
  <2>8. (\A v \in Workers : AtWork(v) => job[v] # Break)'
    BY <1>1, <2>1, <2>6 DEF AtWork, ProcessEnds
  <2> QED
    BY <1>1, <2>1, <2>5, <2>7, <2>8 DEF Shape, ProcessEnds, dispatcher
<1> QED
  BY <1>3, <1>4, <1>5, <1>6 DEF Worker

\* A step of the main thread or an interrupt leaves the workers alone.
LEMMA MainKeepsShape ==
  ASSUME Shape, Main \/ Interrupt
  PROVE  Shape'
<1>1. TypeOK /\ Len(exited) = Len(kinds) /\ \A v \in Workers : AtWork(v) => job[v] # Break
  BY DEF Shape
<1>2. Len(kinds) \in Nat
  BY <1>1, LenProperties DEF TypeOK
<1>3. at' = at /\ job' = job
  BY DEF Main, Dispatch, DispatchBreak, Collect, Finish, Interrupt, workers
<1>4. (\A v \in Workers : AtWork(v) => job[v] # Break)'
  BY <1>1, <1>3 DEF AtWork
<1>5. CASE \E kind \in Kinds : Dispatch(kind)
  <2>1. PICK kind \in Kinds : Dispatch(kind)
    BY <1>5
  <2>2. /\ kinds' \in Seq(Kinds) /\ Len(kinds') = Len(kinds) + 1
        /\ exited' \in Seq(Codes \cup {"never"}) /\ Len(exited') = Len(exited) + 1
    BY <1>1, <2>1, AppendProperties DEF TypeOK, Dispatch
  <2>3. 0..Len(kinds) \subseteq 0..Len(kinds') /\ Answers \subseteq Answers'
        /\ Len(kinds') \in 0..Len(kinds')
    BY <1>2, <2>2 DEF Answers
  <2>4. input \in Seq(0..Len(kinds')) /\ output \in Seq(Answers') /\ taken \in Seq(Answers')
    <3>1. /\ \A i \in 1..Len(input) : input[i] \in 0..Len(kinds')
          /\ \A i \in 1..Len(output) : output[i] \in Answers'
          /\ \A i \in 1..Len(taken) : taken[i] \in Answers'
      BY <1>1, <2>3, ElementOfSeq DEF TypeOK
    <3> QED
      BY <1>1, <3>1, SeqOver DEF TypeOK
  <2>5. input' \in Seq(0..Len(kinds'))
    BY <2>1, <2>3, <2>4, AppendProperties DEF Dispatch
  <2>6. job \in [Workers -> 0..Len(kinds')]
    BY <1>1, <2>3 DEF TypeOK
  <2>7. TypeOK'
    BY <1>1, <1>3, <2>1, <2>2, <2>4, <2>5, <2>6 DEF TypeOK, Dispatch
  <2> QED
    BY <1>1, <1>4, <2>1, <2>2, <2>7 DEF Shape, Dispatch
<1>6. CASE DispatchBreak
  <2>1. input' \in Seq(0..Len(kinds))
    <3>1. Break \in 0..Len(kinds)
      BY <1>2 DEF Break
    <3> QED
      BY <1>1, <1>6, <3>1, AppendProperties DEF TypeOK, DispatchBreak
  <2>2. breaks' \in 0..Cardinality(Workers)
    <3>1. Cardinality(Workers) \in Nat
      BY TestRunnerAssumption, FS_CardinalityType
    <3> QED
      BY <1>1, <1>6, <3>1 DEF TypeOK, DispatchBreak, AllTold
  <2>3. TypeOK'
    BY <1>1, <1>6, <2>1, <2>2 DEF TypeOK, DispatchBreak, Answers, workers
  <2> QED
    BY <1>1, <1>4, <1>6, <2>3 DEF Shape, DispatchBreak
<1>7. CASE Collect
  <2>1. Head(output) \in Answers /\ Tail(output) \in Seq(Answers)
    BY <1>1, <1>7, HeadTailProperties DEF TypeOK, Collect
  <2>2. taken' \in Seq(Answers)
    BY <1>1, <1>7, <2>1, AppendProperties DEF TypeOK, Collect
  <2>3. main' \in {"failed", "break"}
    BY <1>7 DEF Collect
  <2>4. TypeOK'
    BY <1>1, <1>7, <2>1, <2>2, <2>3 DEF TypeOK, Collect, Answers, workers, dispatcher
  <2> QED
    BY <1>1, <1>4, <1>7, <2>3, <2>4 DEF Shape, Collect, dispatcher
<1>8. CASE Finish \/ Interrupt
  <2>1. TypeOK'
    BY <1>1, <1>8 DEF TypeOK, Finish, Interrupt, Answers, workers, dispatcher
  <2>2. Len(exited') = Len(kinds') /\ (main' = "done" => Len(taken') = Len(kinds'))
    BY <1>1, <1>8 DEF Shape, Finish, Interrupt, dispatcher
  <2> QED
    BY <1>4, <2>1, <2>2 DEF Shape
<1> QED
  BY <1>5, <1>6, <1>7, <1>8 DEF Main
-----------------------------------------------------------------------------
\* An answer in the output or with main, of the job that it is of.
LEMMA AnswersAreForTheirJobs ==
  ASSUME NEW answer \in Answers, NEW j
  PROVE  answer \in AnswersFor(j) <=> answer.job = j
BY DEF Answers, AnswersFor

\* A worker that leaves its job counts no more among those that hold it.
LEMMA HeldNoMore ==
  ASSUME Shape, NEW w \in Workers, AtWork(w), ~AtWork(w)',
         job' = job, \A v \in Workers \ {w} : at'[v] = at[v], NEW j
  PROVE  Cardinality(Holding(j))
           = Cardinality(Holding(j)') + (IF job[w] = j THEN 1 ELSE 0)
<1>1. Holding(j)' = Holding(j) \ {w}
  BY DEF Holding, AtWork
<1>2. w \in Holding(j) <=> job[w] = j
  BY DEF Holding
<1>3. IsFiniteSet(Holding(j)) /\ Cardinality(Holding(j)) \in Nat
  BY PlacesAreNumbers DEF Shape
<1>4. CASE job[w] = j
  <2>1. Cardinality(Holding(j) \ {w}) = Cardinality(Holding(j)) - 1
    BY <1>2, <1>3, <1>4, FS_RemoveElement
  <2> QED
    BY <1>1, <1>3, <1>4, <2>1
<1>5. CASE job[w] # j
  <2>1. Holding(j)' = Holding(j)
    BY <1>1, <1>2, <1>5
  <2> QED
    BY <1>3, <1>5, <2>1
<1> QED
  BY <1>4, <1>5

\* A worker that takes a job counts among those that hold it.
LEMMA HeldFromNow ==
  ASSUME Shape, NEW w \in Workers, ~AtWork(w), AtWork(w)',
         \A v \in Workers \ {w} : at'[v] = at[v] /\ job'[v] = job[v], NEW j
  PROVE  Cardinality(Holding(j)')
           = Cardinality(Holding(j)) + (IF job'[w] = j THEN 1 ELSE 0)
<1>1. Holding(j)' = IF job'[w] = j THEN Holding(j) \cup {w} ELSE Holding(j)
  BY DEF Holding, AtWork
<1>2. w \notin Holding(j)
  BY DEF Holding
<1>3. IsFiniteSet(Holding(j)) /\ Cardinality(Holding(j)) \in Nat
  BY PlacesAreNumbers DEF Shape
<1>4. CASE job'[w] = j
  <2>1. Cardinality(Holding(j) \cup {w}) = Cardinality(Holding(j)) + 1
    BY <1>2, <1>3, FS_AddElement
  <2> QED
    BY <1>1, <1>4, <2>1
<1>5. CASE job'[w] # j
  BY <1>1, <1>3, <1>5
<1> QED
  BY <1>4, <1>5

\* An answer moves its job from the worker to the output.
LEMMA AnswersKeepPlaces ==
  ASSUME Shape, OncePlaced, NEW w \in Workers, AtWork(w), ~AtWork(w)',
         job' = job, \A v \in Workers \ {w} : at'[v] = at[v],
         UNCHANGED <<kinds, input, taken>>,
         \E status \in Statuses : output' = Answer(w, status)
  PROVE  OncePlaced'
<1>1. PICK status \in Statuses : output' = Answer(w, status)
  OBVIOUS
<1> DEFINE answer == [job |-> job[w], status |-> status]
<1>2. answer \in Answers /\ output \in Seq(Answers)
  <2>1. job[w] \in 1..Len(kinds)
    BY LenProperties DEF Shape, TypeOK, Break
  <2> QED
    BY <2>1 DEF Answers, Shape, TypeOK
<1>3. SUFFICES ASSUME NEW j \in 1..Len(kinds) PROVE Places(j)' = 1
  BY DEF OncePlaced
<1>4. Cardinality(PlacesOf(output', AnswersFor(j)))
        = Cardinality(PlacesOf(output, AnswersFor(j))) + (IF job[w] = j THEN 1 ELSE 0)
  <2>1. output' = Append(output, answer) /\ (answer \in AnswersFor(j) <=> job[w] = j)
    BY <1>1, <1>2, AnswersAreForTheirJobs DEF Answer
  <2> HIDE DEF answer
  <2> QED
    BY <1>2, <2>1, PlacesOfAppend
<1>5. Cardinality(Holding(j)) = Cardinality(Holding(j)') + (IF job[w] = j THEN 1 ELSE 0)
  BY HeldNoMore
<1>6. /\ Cardinality(PlacesOf(input, {j})) \in Nat
      /\ Cardinality(Holding(j)) \in Nat
      /\ Cardinality(PlacesOf(output, AnswersFor(j))) \in Nat
      /\ Cardinality(PlacesOf(taken, AnswersFor(j))) \in Nat
  BY PlacesAreNumbers DEF Shape
<1>7. Cardinality(Holding(j)') \in Nat
  <2>1. Holding(j)' \in SUBSET Workers /\ IsFiniteSet(Workers)
    BY TestRunnerAssumption DEF Holding
  <2> QED
    BY <2>1, FS_Subset, FS_CardinalityType
<1>8. Places(j) = 1
  BY DEF OncePlaced
<1>9. Places(j)' = Cardinality(PlacesOf(input, {j})) + Cardinality(Holding(j)')
        + Cardinality(PlacesOf(output', AnswersFor(j)))
        + Cardinality(PlacesOf(taken, AnswersFor(j)))
  BY Zenon DEF Places
<1> QED
  BY <1>4, <1>5, <1>6, <1>7, <1>8, <1>9 DEF Places

\* A job that a worker takes moves from the input to it, and a break job to nowhere.
LEMMA GettingKeepsPlaces ==
  ASSUME Shape, OncePlaced, NEW w \in Workers, Get(w)
  PROVE  OncePlaced'
<1>1. SUFFICES ASSUME NEW j \in 1..Len(kinds) PROVE Places(j)' = 1
  BY DEF OncePlaced, Get, dispatcher
<1>2. j \in Nat \ {0}
  BY LenProperties DEF Shape, TypeOK
<1>3. input \in Seq(0..Len(kinds)) /\ input # <<>> /\ input' = Tail(input)
  BY DEF Shape, TypeOK, Get
<1>4. Cardinality(PlacesOf(input, {j}))
        = Cardinality(PlacesOf(input', {j})) + (IF Head(input) = j THEN 1 ELSE 0)
  BY <1>3, PlacesOfTail
<1>5. /\ at \in [Workers -> {"get", "check", "launch", "wait", "ended", "dead"}]
      /\ at[w] = "get"
      /\ at'[w] = (IF Head(input) = Break THEN "ended" ELSE "check")
      /\ job'[w] = Head(input)
      /\ \A v \in Workers \ {w} : at'[v] = at[v] /\ job'[v] = job[v]
  BY DEF Shape, TypeOK, Get, Step
<1>6. Cardinality(Holding(j)') = Cardinality(Holding(j)) + (IF Head(input) = j THEN 1 ELSE 0)
  <2>1. CASE Head(input) = Break
    <3>1. Holding(j)' = Holding(j)
      BY <1>5, <2>1 DEF Holding, AtWork
    <3>2. Cardinality(Holding(j)) \in Nat
      BY PlacesAreNumbers DEF Shape
    <3> QED
      BY <1>2, <2>1, <3>1, <3>2 DEF Break
  <2>2. CASE Head(input) # Break
    <3>1. ~AtWork(w) /\ AtWork(w)'
      BY <1>5, <2>2 DEF AtWork
    <3> QED
      BY <1>5, <3>1, HeldFromNow
  <2> QED
    BY <2>1, <2>2
<1>7. /\ Cardinality(PlacesOf(input, {j})) \in Nat
      /\ Cardinality(Holding(j)) \in Nat
      /\ Cardinality(PlacesOf(output, AnswersFor(j))) \in Nat
      /\ Cardinality(PlacesOf(taken, AnswersFor(j))) \in Nat
  BY PlacesAreNumbers DEF Shape
<1>8. Cardinality(PlacesOf(input', {j})) \in Nat
  BY <1>3, HeadTailProperties, PlacesAreFinite
<1>9. Places(j) = 1
  BY DEF OncePlaced
<1>10. Places(j)' = Cardinality(PlacesOf(input', {j})) + Cardinality(Holding(j)')
         + Cardinality(PlacesOf(output, AnswersFor(j)))
         + Cardinality(PlacesOf(taken, AnswersFor(j)))
  BY Zenon DEF Places, Get
<1> QED
  BY <1>4, <1>6, <1>7, <1>8, <1>9, <1>10 DEF Places

\* A worker that moves on keeps its job.
LEMMA WorkKeepsPlaces ==
  ASSUME Shape, OncePlaced, NEW w \in Workers,
         GoAhead(w) \/ Launch(w) \/ LaunchFails(w)
  PROVE  OncePlaced'
<1>1. UNCHANGED <<kinds, input, output, taken, job>>
  BY DEF GoAhead, Launch, LaunchFails, dispatcher
<1>2. \A v \in Workers : AtWork(v)' <=> AtWork(v)
  BY DEF Shape, TypeOK, GoAhead, Launch, LaunchFails, Step, AtWork
<1>3. ASSUME NEW j PROVE Holding(j)' = Holding(j)
  BY <1>1, <1>2 DEF Holding
<1>4. ASSUME NEW j PROVE Places(j)' = Places(j)
  BY <1>1, <1>3, Zenon DEF Places
<1> QED
  BY <1>1, <1>4 DEF OncePlaced

\* A new job is in the input only; a break job is no job.
LEMMA DispatchingKeepsPlaces ==
  ASSUME Shape, OncePlaced, (\E kind \in Kinds : Dispatch(kind)) \/ DispatchBreak
  PROVE  OncePlaced'
<1>1. /\ Len(kinds) \in Nat /\ input \in Seq(0..Len(kinds))
      /\ output \in Seq(Answers) /\ taken \in Seq(Answers)
      /\ job \in [Workers -> 0..Len(kinds)]
  BY LenProperties DEF Shape, TypeOK
<1>2. UNCHANGED <<output, taken, at, job>>
  BY DEF Dispatch, DispatchBreak, workers
<1>3. ASSUME NEW j PROVE Holding(j)' = Holding(j)
  BY <1>2 DEF Holding, AtWork
<1>4. ASSUME NEW j
      PROVE  Places(j)' = Cardinality(PlacesOf(input', {j})) + Cardinality(Holding(j))
               + Cardinality(PlacesOf(output, AnswersFor(j)))
               + Cardinality(PlacesOf(taken, AnswersFor(j)))
  BY <1>2, <1>3, Zenon DEF Places
<1>5. ASSUME NEW e \in Nat, input' = Append(input, e), NEW j \in 1..Len(kinds), e # j
      PROVE  Places(j)' = 1
  <2>1. input \in Seq(Nat)
    <3>1. \A i \in 1..Len(input) : input[i] \in Nat
      BY <1>1, ElementOfSeq
    <3> QED
      BY <1>1, <3>1, SeqOver
  <2>2. Cardinality(PlacesOf(input', {j})) = Cardinality(PlacesOf(input, {j}))
    <3>1. Cardinality(PlacesOf(input, {j})) \in Nat
      BY PlacesAreNumbers DEF Shape
    <3> QED
      BY <1>5, <2>1, <3>1, PlacesOfAppend
  <2>3. Places(j) = 1
    BY DEF OncePlaced
  <2> QED
    BY <1>4, <2>2, <2>3 DEF Places
<1>6. CASE \E kind \in Kinds : Dispatch(kind)
  <2>1. PICK n \in Nat : n = Len(kinds) + 1
    BY <1>1
  <2>2. Len(kinds') = n /\ input' = Append(input, n)
    BY <1>6, <2>1, AppendProperties DEF Dispatch, Shape, TypeOK
  <2>3. ASSUME NEW j \in 1..Len(kinds) PROVE Places(j)' = 1
    <3>1. n # j
      BY <1>1, <2>1
    <3> QED
      BY <1>5, <2>2, <3>1
  <2>4. Places(n)' = 1
    <3>1. \A i \in 1..Len(input) : input[i] \in 0..Len(kinds) /\ input[i] # n
      BY <1>1, <2>1, ElementOfSeq
    <3>2. input \in Seq(Nat) /\ PlacesOf(input, {n}) = {}
      <4>1. \A i \in 1..Len(input) : input[i] \in Nat
        BY <1>1, <3>1
      <4> QED
        BY <1>1, <3>1, <4>1, SeqOver, LenProperties DEF PlacesOf
    <3>3. Cardinality(PlacesOf(input', {n})) = 1
      <4>1. n \in Nat /\ n \in {n}
        BY <1>1
      <4>2. Cardinality(PlacesOf(input, {n})) = 0
        BY <3>2, FS_EmptySet
      <4>3. Cardinality(PlacesOf(Append(input, n), {n})) = Cardinality(PlacesOf(input, {n})) + 1
        BY <3>2, <4>1, PlacesOfAppend
      <4> QED
        BY <2>2, <4>2, <4>3
    <3>4. Holding(n) = {}
      BY <1>1, <2>1 DEF Holding
    <3>5. ASSUME NEW s \in Seq(Answers) PROVE PlacesOf(s, AnswersFor(n)) = {}
      <4>1. ASSUME NEW i \in DOMAIN s PROVE s[i] \in Answers /\ s[i].job # n
        <5>1. s[i] \in Answers
          BY ElementOfSeq, LenProperties
        <5>2. s[i].job \in 1..Len(kinds)
          BY <5>1 DEF Answers
        <5> QED
          BY <1>1, <2>1, <5>1, <5>2
      <4> QED
        BY <4>1, AnswersAreForTheirJobs DEF PlacesOf
    <3>6. /\ Cardinality(Holding(n)) = 0
          /\ Cardinality(PlacesOf(output, AnswersFor(n))) = 0
          /\ Cardinality(PlacesOf(taken, AnswersFor(n))) = 0
      BY <1>1, <3>4, <3>5, FS_EmptySet
    <3> QED
      BY <1>4, <3>3, <3>6
  <2>5. ASSUME NEW j \in 1..Len(kinds') PROVE Places(j)' = 1
    <3>1. j \in 1..Len(kinds) \/ j = n
      BY <1>1, <2>1, <2>2
    <3> QED
      BY <2>3, <2>4, <3>1
  <2> QED
    BY <2>5 DEF OncePlaced
<1>7. CASE DispatchBreak
  <2>1. kinds' = kinds /\ input' = Append(input, 0)
    BY <1>7 DEF DispatchBreak, Break
  <2>2. ASSUME NEW j \in 1..Len(kinds) PROVE Places(j)' = 1
    <3>1. 0 \in Nat /\ 0 # j
      BY <1>1
    <3> QED
      BY <1>5, <2>1, <3>1
  <2> QED
    BY <2>1, <2>2 DEF OncePlaced
<1> QED
  BY <1>6, <1>7

\* What main takes it takes from the output.
LEMMA CollectingKeepsPlaces ==
  ASSUME Shape, OncePlaced, Collect
  PROVE  OncePlaced'
<1>1. UNCHANGED <<kinds, input, at, job>>
  BY DEF Collect, dispatcher, workers
<1>2. SUFFICES ASSUME NEW j \in 1..Len(kinds) PROVE Places(j)' = 1
  BY <1>1 DEF OncePlaced
<1>3. /\ output \in Seq(Answers) /\ output # <<>> /\ output' = Tail(output)
      /\ taken \in Seq(Answers) /\ taken' = Append(taken, Head(output))
      /\ Head(output) \in Answers /\ Tail(output) \in Seq(Answers)
  BY HeadTailProperties DEF Shape, TypeOK, Collect
<1>4. Cardinality(PlacesOf(output, AnswersFor(j)))
        = Cardinality(PlacesOf(output', AnswersFor(j)))
          + (IF Head(output) \in AnswersFor(j) THEN 1 ELSE 0)
  BY <1>3, PlacesOfTail
<1>5. Cardinality(PlacesOf(taken', AnswersFor(j)))
        = Cardinality(PlacesOf(taken, AnswersFor(j)))
          + (IF Head(output) \in AnswersFor(j) THEN 1 ELSE 0)
  BY <1>3, PlacesOfAppend
<1>6. /\ Cardinality(PlacesOf(input, {j})) \in Nat
      /\ Cardinality(Holding(j)) \in Nat
      /\ Cardinality(PlacesOf(output, AnswersFor(j))) \in Nat
      /\ Cardinality(PlacesOf(output', AnswersFor(j))) \in Nat
      /\ Cardinality(PlacesOf(taken, AnswersFor(j))) \in Nat
  BY <1>3, PlacesAreNumbers, PlacesAreFinite DEF Shape
<1>7. Holding(j)' = Holding(j)
  BY <1>1 DEF Holding, AtWork
<1>8. Places(j) = 1
  BY DEF OncePlaced
<1>9. Places(j)' = Cardinality(PlacesOf(input, {j})) + Cardinality(Holding(j))
        + Cardinality(PlacesOf(output', AnswersFor(j)))
        + Cardinality(PlacesOf(taken', AnswersFor(j)))
  BY <1>1, <1>7, Zenon DEF Places
<1> QED
  BY <1>4, <1>5, <1>6, <1>8, <1>9 DEF Places

\* Every step keeps each job in one place.
LEMMA PlacesAreKept ==
  ASSUME Shape, OncePlaced, [Next]_vars
  PROVE  OncePlaced'
<1>1. CASE UNCHANGED <<kinds, input, output, taken, at, job>>
  <2>1. ASSUME NEW j PROVE Holding(j)' = Holding(j)
    BY <1>1 DEF Holding, AtWork
  <2>2. ASSUME NEW j PROVE Places(j)' = Places(j)
    BY <1>1, <2>1, Zenon DEF Places
  <2> QED
    BY <1>1, <2>2 DEF OncePlaced
<1>2. ASSUME NEW w \in Workers, Worker(w) PROVE OncePlaced'
  <2>1. CASE Get(w)
    BY <2>1, GettingKeepsPlaces
  <2>2. CASE GoAhead(w) \/ Launch(w) \/ LaunchFails(w)
    BY <2>2, WorkKeepsPlaces
  <2>3. CASE SendBack(w)
    <3>1. /\ at[w] = "check" /\ at'[w] = "get" /\ \A v \in Workers \ {w} : at'[v] = at[v]
          /\ Unrun(w) \in Statuses
      BY <2>3 DEF Shape, TypeOK, SendBack, Step, Unrun, Statuses
    <3>2. AtWork(w) /\ ~AtWork(w)'
      BY <3>1 DEF AtWork
    <3>3. output' = Answer(w, Unrun(w)) /\ job' = job /\ UNCHANGED <<kinds, input, taken>>
      BY <2>3 DEF SendBack, dispatcher
    <3> QED
      BY <3>1, <3>2, <3>3, AnswersKeepPlaces
  <2>4. CASE \E code \in Codes, garbled \in BOOLEAN : ProcessEnds(w, code, garbled)
    <3>1. PICK code \in Codes, garbled \in BOOLEAN : ProcessEnds(w, code, garbled)
      BY <2>4
    <3>2. /\ at[w] = "wait" /\ at'[w] = "get" /\ \A v \in Workers \ {w} : at'[v] = at[v]
          /\ Returned(code, garbled) \in Statuses
      BY <3>1, TestRunnerAssumption
         DEF Shape, TypeOK, ProcessEnds, Step, Returned, Statuses
    <3>3. AtWork(w) /\ ~AtWork(w)'
      BY <3>2 DEF AtWork
    <3>4. /\ output' = Answer(w, Returned(code, garbled)) /\ job' = job
          /\ UNCHANGED <<kinds, input, taken>>
      BY <3>1 DEF ProcessEnds, dispatcher
    <3> QED
      BY <3>2, <3>3, <3>4, AnswersKeepPlaces
  <2> QED
    BY <1>2, <2>1, <2>2, <2>3, <2>4 DEF Worker
<1>3. CASE Main
  <2>1. CASE Finish
    BY <1>1, <2>1 DEF Finish, dispatcher, workers
  <2> QED
    BY <1>3, <2>1, DispatchingKeepsPlaces, CollectingKeepsPlaces DEF Main
<1>4. CASE Interrupt \/ UNCHANGED vars
  BY <1>1, <1>4 DEF Interrupt, vars, dispatcher, workers
<1> QED
  BY <1>2, <1>3, <1>4 DEF Next
-----------------------------------------------------------------------------
\* While a worker holds a job, there is no answer for it yet.
LEMMA HeldIsUnanswered ==
  ASSUME Shape, OncePlaced, NEW w \in Workers, AtWork(w)
  PROVE  /\ job[w] \in 1..Len(kinds)
         /\ \A i \in 1..Len(output) : output[i].job # job[w]
         /\ \A i \in 1..Len(taken) : taken[i].job # job[w]
<1> DEFINE j == job[w]
<1>1. j \in 1..Len(kinds) /\ Places(j) = 1
  BY LenProperties DEF Shape, TypeOK, Break, OncePlaced
<1>2. output \in Seq(Answers) /\ taken \in Seq(Answers)
  BY DEF Shape, TypeOK
<1>3. /\ Cardinality(PlacesOf(input, {j})) \in Nat
      /\ IsFiniteSet(Holding(j)) /\ Cardinality(Holding(j)) \in Nat
      /\ Cardinality(PlacesOf(output, AnswersFor(j))) \in Nat
      /\ Cardinality(PlacesOf(taken, AnswersFor(j))) \in Nat
  BY PlacesAreNumbers DEF Shape
<1>4. Cardinality(Holding(j)) # 0
  BY <1>3, FS_EmptySet DEF Holding
<1>5. /\ Cardinality(PlacesOf(output, AnswersFor(j))) = 0
      /\ Cardinality(PlacesOf(taken, AnswersFor(j))) = 0
  BY <1>1, <1>3, <1>4 DEF Places
<1>6. ASSUME NEW s \in Seq(Answers), Cardinality(PlacesOf(s, AnswersFor(j))) = 0,
             NEW i \in 1..Len(s)
      PROVE  s[i].job # j
  <2>1. PlacesOf(s, AnswersFor(j)) = {}
    BY <1>6, PlacesAreFinite, FS_EmptySet
  <2>2. s[i] \in Answers /\ DOMAIN s = 1..Len(s)
    BY ElementOfSeq, LenProperties
  <2> QED
    BY <2>1, <2>2, AnswersAreForTheirJobs DEF PlacesOf
<1> QED
  BY <1>1, <1>2, <1>5, <1>6

\* A new answer at the end of the output is all that can be untrue.
LEMMA AnswersStayTruthful ==
  ASSUME Shape, AnswersAreTruthful, NEW answer \in Answers, output' = Append(output, answer),
         taken' = taken, kinds' = kinds, Truthful(answer)',
         \A i \in 1..Len(output) : exited'[output[i].job] = exited[output[i].job],
         \A i \in 1..Len(taken) : exited'[taken[i].job] = exited[taken[i].job]
  PROVE  AnswersAreTruthful'
<1>1. /\ Len(output) \in Nat /\ Len(output') = Len(output) + 1
      /\ \A i \in 1..Len(output) : output'[i] = output[i]
      /\ output'[Len(output) + 1] = answer
  BY AppendProperties, LenProperties DEF Shape, TypeOK
<1>2. ASSUME NEW i \in 1..Len(output') PROVE Truthful(output[i])'
  <2>1. CASE i = Len(output) + 1
    BY <1>1, <2>1 DEF Truthful
  <2>2. CASE i \in 1..Len(output)
    BY <1>1, <2>2 DEF AnswersAreTruthful, Truthful
  <2> QED
    BY <1>1, <2>1, <2>2
<1>3. ASSUME NEW i \in 1..Len(taken') PROVE Truthful(taken[i])'
  BY DEF AnswersAreTruthful, Truthful
<1> QED
  BY <1>2, <1>3 DEF AnswersAreTruthful

\* Every step leaves the answers truthful.
LEMMA TruthIsKept ==
  ASSUME Shape, OncePlaced, AnswersAreTruthful, [Next]_vars
  PROVE  AnswersAreTruthful'
<1>1. /\ output \in Seq(Answers) /\ taken \in Seq(Answers)
      /\ \A i \in 1..Len(output) : output[i] \in Answers
      /\ \A i \in 1..Len(taken) : taken[i] \in Answers
  BY ElementOfSeq DEF Shape, TypeOK
<1>2. CASE UNCHANGED <<kinds, output, taken, exited>>
  BY <1>2 DEF AnswersAreTruthful, Truthful
<1>3. CASE \E kind \in Kinds : Dispatch(kind)
  <2>1. PICK kind \in Kinds : Dispatch(kind)
    BY <1>3
  <2>2. \A j \in 1..Len(kinds) : kinds'[j] = kinds[j] /\ exited'[j] = exited[j]
    BY <2>1, AppendProperties DEF Dispatch, Shape, TypeOK
  <2>3. UNCHANGED <<output, taken>>
    BY <2>1 DEF Dispatch
  <2>4. ASSUME NEW answer \in Answers, Truthful(answer) PROVE Truthful(answer)'
    <3>1. answer.job \in 1..Len(kinds)
      BY DEF Answers
    <3> QED
      BY <2>2, <2>4, <3>1 DEF Truthful
  <2>5. /\ \A i \in 1..Len(output) : Truthful(output[i])'
        /\ \A i \in 1..Len(taken) : Truthful(taken[i])'
    BY <1>1, <2>2, <2>3 DEF AnswersAreTruthful, Truthful, Answers
  <2> QED
    BY <2>3, <2>5 DEF AnswersAreTruthful
<1>4. CASE Collect
  <2>1. /\ Len(output) \in Nat \ {0} /\ Head(output) = output[1]
        /\ Len(output') = Len(output) - 1
        /\ \A i \in 1..Len(output) - 1 : output'[i] = output[i + 1]
    BY <1>1, <1>4, HeadTailProperties, LenProperties, EmptySeq DEF Collect
  <2>2. /\ Len(taken) \in Nat /\ Len(taken') = Len(taken) + 1
        /\ \A i \in 1..Len(taken) : taken'[i] = taken[i]
        /\ taken'[Len(taken) + 1] = output[1]
    BY <1>1, <1>4, <2>1, HeadTailProperties, AppendProperties, LenProperties DEF Collect
  <2>3. kinds' = kinds /\ exited' = exited
    BY <1>4 DEF Collect, dispatcher
  <2>4. ASSUME NEW i \in 1..Len(output') PROVE Truthful(output[i])'
    <3>1. output'[i] = output[i + 1] /\ i + 1 \in 1..Len(output)
      BY <2>1
    <3> QED
      BY <2>3, <3>1 DEF AnswersAreTruthful, Truthful
  <2>5. ASSUME NEW i \in 1..Len(taken') PROVE Truthful(taken[i])'
    <3>1. CASE i = Len(taken) + 1
      BY <2>1, <2>2, <2>3, <3>1 DEF AnswersAreTruthful, Truthful
    <3>2. CASE i \in 1..Len(taken)
      BY <2>2, <2>3, <3>2 DEF AnswersAreTruthful, Truthful
    <3> QED
      BY <2>2, <3>1, <3>2
  <2> QED
    BY <2>4, <2>5 DEF AnswersAreTruthful
<1>5. ASSUME NEW w \in Workers, SendBack(w) PROVE AnswersAreTruthful'
  <2> DEFINE answer == [job |-> job[w], status |-> Unrun(w)]
  <2>1. output' = Append(output, answer) /\ UNCHANGED <<taken, kinds, exited>>
    BY <1>5 DEF SendBack, Answer, dispatcher
  <2>2. AtWork(w)
    BY <1>5 DEF SendBack, Step, AtWork
  <2>3. answer \in Answers
    BY <2>2, HeldIsUnanswered DEF Answers, Unrun, Statuses
  <2>4. answer.status = "SKIP" => kinds[answer.job] = "skip"
    BY <1>5 DEF SendBack, NotToRun, Unrun
  <2>5. answer.status # "PASS"
    BY DEF Unrun
  <2>6. PICK said \in Answers :
          /\ output' = Append(output, said) /\ said.status # "PASS"
          /\ said.status = "SKIP" => kinds[said.job] = "skip"
    BY <2>1, <2>3, <2>4, <2>5
  <2>7. Truthful(said)'
    BY <2>1, <2>6 DEF Truthful
  <2> QED
    BY <2>1, <2>6, <2>7, AnswersStayTruthful
<1>6. ASSUME NEW w \in Workers, NEW code \in Codes, NEW garbled \in BOOLEAN,
             ProcessEnds(w, code, garbled)
      PROVE  AnswersAreTruthful'
  <2>1. UNCHANGED <<taken, kinds>>
    BY <1>6 DEF ProcessEnds, dispatcher
  <2>2. AtWork(w)
    BY <1>6 DEF ProcessEnds, Step, AtWork
  <2>3. /\ job[w] \in 1..Len(kinds)
        /\ \A i \in 1..Len(output) : output[i].job # job[w]
        /\ \A i \in 1..Len(taken) : taken[i].job # job[w]
    BY <2>2, HeldIsUnanswered
  <2>4. DOMAIN exited = 1..Len(kinds) /\ exited' = [exited EXCEPT ![job[w]] = code]
    BY <1>6, LenProperties DEF Shape, TypeOK, ProcessEnds
  <2>5. PICK said \in Answers :
          /\ output' = Append(output, said)
          /\ said.job = job[w] /\ said.status = Returned(code, garbled)
    <3>1. [job |-> job[w], status |-> Returned(code, garbled)] \in Answers
      BY <2>3, TestRunnerAssumption DEF Answers, Returned, Statuses
    <3> QED
      BY <1>6, <3>1 DEF ProcessEnds, Answer
  <2>6. exited'[said.job] = code
    BY <2>3, <2>4, <2>5
  <2>7. Truthful(said)'
    BY <2>5, <2>6, TestRunnerAssumption DEF Truthful, Returned
  <2>8. /\ \A i \in 1..Len(output) : exited'[output[i].job] = exited[output[i].job]
        /\ \A i \in 1..Len(taken) : exited'[taken[i].job] = exited[taken[i].job]
    BY <1>1, <2>3, <2>4
  <2> QED
    BY <2>1, <2>5, <2>7, <2>8, AnswersStayTruthful
<1>7. CASE DispatchBreak \/ Finish \/ Interrupt \/ UNCHANGED vars
  BY <1>2, <1>7 DEF DispatchBreak, Finish, Interrupt, vars, dispatcher
<1>8. ASSUME NEW w \in Workers, Get(w) \/ GoAhead(w) \/ Launch(w) \/ LaunchFails(w)
      PROVE  AnswersAreTruthful'
  BY <1>2, <1>8 DEF Get, GoAhead, Launch, LaunchFails, dispatcher
<1> QED
  BY <1>3, <1>4, <1>5, <1>6, <1>7, <1>8 DEF Next, Main, Worker

\* The inductive invariant holds in every state.
LEMMA RunnerInvariant == Spec => []RunnerInv
<1>1. Init => RunnerInv
  BY RunnerInvAtFirst
<1>2. RunnerInv /\ [Next]_vars => RunnerInv'
  <2> SUFFICES ASSUME RunnerInv, [Next]_vars PROVE RunnerInv'
    OBVIOUS
  <2>1. Shape /\ OncePlaced /\ AnswersAreTruthful
    BY DEF RunnerInv
  <2>2. Shape'
    <3>1. CASE UNCHANGED vars
      BY <2>1, <3>1
         DEF vars, dispatcher, workers, Shape, TypeOK, AtWork, Answers
    <3> QED
      BY <2>1, <3>1, MainKeepsShape, WorkersKeepShape DEF Next
  <2> QED
    BY <2>1, <2>2, PlacesAreKept, TruthIsKept DEF RunnerInv
<1> QED
  BY <1>1, <1>2, PTL DEF Spec

-----------------------------------------------------------------------------
\* The types, for any number of workers and jobs.
THEOREM RunnerTypeCorrect == Spec => []TypeOK
<1>1. RunnerInv => TypeOK
  BY DEF RunnerInv, Shape
<1> QED
  BY <1>1, RunnerInvariant, PTL

\* Every job that run_tests puts in input_queue is in one place, whenever the
\* interrupt comes and however many workers take part.
THEOREM JobsAreInOnePlace == Spec => []EachJobOnce
<1>1. RunnerInv => EachJobOnce
  BY PlacesAreCounted DEF RunnerInv, Shape
<1> QED
  BY <1>1, RunnerInvariant, PTL

\* When main has taken as many answers as there are jobs, every job is answered:
\* no answer is of a job that another is of.
LEMMA EveryJobIsAnswered ==
  ASSUME Shape, OncePlaced, Len(taken) = Len(kinds), NEW j \in 1..Len(kinds)
  PROVE  \E i \in 1..Len(taken) : taken[i].job = j
<1> DEFINE S == 1..Len(kinds)
           f == [i \in S |-> taken[i].job]
<1>1. taken \in Seq(Answers) /\ DOMAIN taken = S /\ Len(kinds) \in Nat
  BY LenProperties DEF Shape, TypeOK
<1>2. \A i \in S : taken[i] \in Answers /\ taken[i].job \in S
  <2>1. \A i \in 1..Len(taken) : taken[i] \in Answers
    BY <1>1, ElementOfSeq
  <2> QED
    BY <1>1, <2>1 DEF Answers
<1>3. ASSUME NEW a \in S, NEW b \in S, taken[a].job = taken[b].job PROVE a = b
  <2> DEFINE P == PlacesOf(taken, AnswersFor(taken[a].job))
  <2>1. a \in P /\ b \in P
    BY <1>1, <1>2, <1>3, AnswersAreForTheirJobs DEF PlacesOf
  <2>2. IsFiniteSet(P) /\ Cardinality(P) \in Nat
    BY <1>1, PlacesAreFinite
  <2>3. Cardinality(P) <= 1
    <3>1. Places(taken[a].job) = 1
      BY <1>2 DEF OncePlaced
    <3> QED
      BY <3>1, PlacesAreNumbers DEF Places, Shape
  <2> HIDE DEF P
  <2>4. Cardinality(P) = 1
    <3>1. Cardinality(P) # 0
      BY <2>1, <2>2, FS_EmptySet
    <3> QED
      BY <2>2, <2>3, <3>1
  <2>5. \E x : P = {x}
    BY <2>2, <2>4, FS_Singleton
  <2> QED
    BY <2>1, <2>5
<1>4. f \in Injection(S, S)
  BY <1>2, <1>3 DEF Injection, IsInjective
<1>5. IsFiniteSet(S)
  BY <1>1, FS_Interval
<1> HIDE DEF f, S
<1>6. f \in Surjection(S, S)
  BY <1>4, <1>5, FS_Injection
<1>7. PICK i \in S : f[i] = j
  BY <1>6 DEF Surjection, S
<1> QED
  BY <1>7 DEF f, S

\* Jobs are reported as passed and as skipped as often as there are jobs only when
\* each of them is.
LEMMA TalliesAddUp ==
  ASSUME Shape, Len(taken) = Len(kinds), Tally("PASS") + Tally("SKIP") = Len(kinds),
         NEW i \in 1..Len(taken)
  PROVE  taken[i].status \in {"PASS", "SKIP"}
<1> DEFINE S == 1..Len(kinds)
           With(status) == {k \in DOMAIN taken : taken[k].status = status}
           P == With("PASS")
           Q == With("SKIP")
<1>1. taken \in Seq(Answers) /\ DOMAIN taken = S /\ Len(kinds) \in Nat
  BY LenProperties DEF Shape, TypeOK
<1>2. IsFiniteSet(S) /\ Cardinality(S) = Len(kinds)
  BY <1>1, FS_Interval
<1>3. P \in SUBSET S /\ Q \in SUBSET S /\ P \cup Q \in SUBSET S /\ P \cap Q = {}
  BY <1>1
<1>4. Cardinality(P) + Cardinality(Q) = Len(kinds)
  BY DEF Tally
<1> HIDE DEF S, P, Q
<1>5. /\ IsFiniteSet(P) /\ IsFiniteSet(Q) /\ IsFiniteSet(P \cup Q)
      /\ Cardinality(P) \in Nat /\ Cardinality(Q) \in Nat
  BY <1>2, <1>3, FS_Subset, FS_CardinalityType
<1>6. Cardinality(P \cup Q) = Len(kinds)
  <2>1. Cardinality(P \cup Q) = Cardinality(P) + Cardinality(Q) - Cardinality(P \cap Q)
    BY <1>5, FS_Union
  <2>2. Cardinality(P \cap Q) = 0
    BY <1>3, FS_EmptySet
  <2> QED
    BY <1>1, <1>4, <1>5, <2>1, <2>2
<1>7. P \cup Q = S
  BY <1>2, <1>3, <1>6, FS_Subset
<1> QED
  BY <1>7 DEF S, P, Q

\* When run_tests returns 0, every job was to be skipped or its process has passed,
\* whatever was interrupted and whatever has crashed.
THEOREM SuccessMeansPassed == Spec => []SuccessIsReal
<1>1. RunnerInv => SuccessIsReal
  <2> SUFFICES ASSUME RunnerInv, Success, NEW j \in DOMAIN kinds
               PROVE  kinds[j] = "skip" \/ exited[j] = "PASS"
    BY DEF SuccessIsReal
  <2>1. Shape /\ OncePlaced /\ AnswersAreTruthful
    BY DEF RunnerInv
  <2>2. Len(taken) = Len(kinds) /\ Tally("PASS") + Tally("SKIP") = Len(kinds)
    BY <2>1 DEF Success, Shape
  <2>3. j \in 1..Len(kinds)
    BY <2>1, LenProperties DEF Shape, TypeOK
  <2>4. PICK i \in 1..Len(taken) : taken[i].job = j
    BY <2>1, <2>2, <2>3, EveryJobIsAnswered
  <2>5. taken[i].status \in {"PASS", "SKIP"}
    BY <2>1, <2>2, TalliesAddUp
  <2> QED
    BY <2>1, <2>4, <2>5 DEF AnswersAreTruthful, Truthful
<1> QED
  BY <1>1, RunnerInvariant, PTL
=============================================================================
