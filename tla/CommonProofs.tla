---------------------------- MODULE CommonProofs ----------------------------
(***************************************************************************)
(* The throttler for every timeout and any number of calls: no call is     *)
(* forgotten, processes run one at a time and in the order of their calls, *)
(* no promise is resolved early, and the timeout lies between processes.   *)
(* The pool of workers of the formatter, for any tasks, cores and errors:  *)
(* it implements TaskPool.  And the listeners of an event, for any number  *)
(* of registrations and dispatches: they are called rightly.               *)
(***************************************************************************)
EXTENDS MCCommon, Sequences, FunctionTheorems, FiniteSetTheorems, WellFoundedInduction, TLAPS


(* The rounds below the current one ran a process each, later rounds later *)
(* ones, the last of them the one that runs.                               *)
RoundsRan ==
  /\ \A r \in Rounds : ranInRound[r] \in (IF r < round THEN r + 1..calls ELSE {None})
  /\ \A r, s \in Rounds : r < s /\ s < round => ranInRound[r] < ranInRound[s]
  /\ running # None => round > 0 /\ running = ranInRound[round - 1]
  /\ process # None => \A r \in Rounds : ranInRound[r] < process

(* A call got the promise of the current round, and a process waits; or of *)
(* an earlier one, which ran a process at least as recent.                 *)
Promised ==
  \A n \in 1..calls :
    \/ promiseOf[n] = round /\ process # None
    \/ promiseOf[n] < round /\ ranInRound[promiseOf[n]] >= n

(* Resolved are only promises whose process is over.                       *)
ResolvedIsOver == \A r \in resolved : r < round /\ ranInRound[r] # running

(* Without haste, the timer is not due before the timeout has passed.      *)
TimerSpaced ==
  /\ processTimeout # NoTimer /\ ~hurried => sinceComplete + processTimeout >= timeout
  /\ asSoonAsPossible /\ ~hurried => sinceComplete > timeout /\ running = None

IInv == /\ TypeOK /\ WaitingIsScheduled /\ RoundsRan /\ Promised /\ ResolvedIsOver
        /\ TimerSpaced

LEMMA InitInv == Init => IInv
<1> SUFFICES ASSUME Init PROVE IInv
  OBVIOUS
<1> USE ThrottlerAssumption DEF Init, None, NoTimer, Rounds, Processes
<1>1. TypeOK
  <2>1. promiseOf \in [Processes -> Rounds] /\ ranInRound \in [Rounds -> 0..MaxCalls]
    OBVIOUS
  <2>2. round \in 0..calls /\ processTimeout \in -1..timeout /\ 0 \in 0..MaxCalls
    OBVIOUS
  <2> QED
    BY <2>1, <2>2 DEF TypeOK
<1>2. WaitingIsScheduled /\ Promised /\ ResolvedIsOver /\ TimerSpaced
  BY DEF WaitingIsScheduled, Promised, ResolvedIsOver, TimerSpaced
<1>3. RoundsRan
  BY DEF RoundsRan
<1> QED
  BY <1>1, <1>2, <1>3 DEF IInv

LEMMA ScheduleInv == ASSUME IInv, NEW hurry \in BOOLEAN, schedule(hurry) PROVE IInv'
<1> USE ThrottlerAssumption DEF IInv, None, NoTimer
<1> DEFINE asap == hurry \/ (~hasScheduledTasks /\ sinceComplete > timeout)
<1>1. /\ calls < MaxCalls /\ calls' = calls + 1 /\ process' = calls + 1
      /\ asSoonAsPossible' = (asSoonAsPossible \/ asap)
      /\ processTimeout' =
           innerSchedule(asap /\ ~asSoonAsPossible, running # None, asSoonAsPossible')
      /\ promiseOf' = [promiseOf EXCEPT ![calls + 1] = round]
      /\ hurried' = (hurried \/ hurry)
      /\ UNCHANGED <<running, sinceComplete, round, ranInRound, resolved>>
  BY DEF schedule
<1>2. processTimeout' \in {processTimeout, 0, timeout}
  BY <1>1 DEF innerSchedule
<1>3. TypeOK'
  <2>1. promiseOf' \in [Processes -> Rounds]
    <3>1. round \in Rounds /\ promiseOf \in [Processes -> Rounds]
      BY DEF TypeOK, Rounds
    <3> QED
      BY <1>1, <3>1
  <2>2. asap \in BOOLEAN
    BY DEF hasScheduledTasks
  <2>3. processTimeout' \in -1..timeout
    BY <1>2 DEF TypeOK
  <2> HIDE DEF asap
  <2> QED
    BY <1>1, <2>1, <2>2, <2>3 DEF TypeOK
<1>4. WaitingIsScheduled'
  BY <1>1, <1>2 DEF TypeOK, WaitingIsScheduled, innerSchedule
<1>5. RoundsRan'
  <2>1. \A r \in Rounds : ranInRound[r] <= calls
    BY DEF TypeOK, RoundsRan, Rounds
  <2>2. \A r \in Rounds : ranInRound[r] \in (IF r < round THEN r + 1..calls + 1 ELSE {0})
    BY DEF TypeOK, RoundsRan, Rounds
  <2> HIDE DEF asap
  <2> QED
    BY <1>1, <2>1, <2>2 DEF TypeOK, RoundsRan, Rounds
<1>6. Promised'
  BY <1>1 DEF TypeOK, Promised, Processes
<1>7. ResolvedIsOver'
  BY <1>1 DEF ResolvedIsOver
<1>8. TimerSpaced'
  BY <1>1 DEF TypeOK, TimerSpaced, WaitingIsScheduled, innerSchedule, hasScheduledTasks
<1> QED
  BY <1>3, <1>4, <1>5, <1>6, <1>7, <1>8

LEMMA TimeoutInv == ASSUME IInv, onTimeout PROVE IInv'
<1> USE ThrottlerAssumption DEF IInv, None, NoTimer
<1>1. /\ processTimeout = 0 /\ processTimeout' = -1 /\ asSoonAsPossible' = FALSE
      /\ running' = process /\ process' = 0 /\ hurried' = FALSE
      /\ ranInRound' = [ranInRound EXCEPT ![round] = process] /\ round' = round + 1
      /\ UNCHANGED <<sinceComplete, calls, promiseOf, resolved>>
  BY DEF onTimeout
<1>2. process # 0 /\ process = calls /\ running = 0
  BY <1>1 DEF WaitingIsScheduled
<1>3. round < calls
  <2>1. CASE round = 0
    BY <1>2, <2>1 DEF TypeOK
  <2>2. CASE round > 0
    <3>1. round - 1 \in Rounds /\ round - 1 < round
      BY <2>2 DEF TypeOK, Rounds
    <3>2. ranInRound[round - 1] \in round - 1 + 1..calls /\ ranInRound[round - 1] < process
      BY <1>2, <3>1 DEF RoundsRan
    <3>3. ranInRound[round - 1] \in Nat /\ round \in Nat /\ calls \in Nat
      BY <3>1 DEF TypeOK, Rounds
    <3> QED
      BY <1>2, <3>2, <3>3
  <2> QED
    BY <2>1, <2>2 DEF TypeOK
<1>4. TypeOK'
  <2>1. ranInRound' \in [Rounds -> 0..MaxCalls]
    BY <1>1 DEF TypeOK
  <2>2. round' \in 0..calls' /\ processTimeout' \in -1..timeout
    BY <1>1, <1>3 DEF TypeOK
  <2>3. process' \in 0..MaxCalls /\ running' \in 0..MaxCalls
    BY <1>1 DEF TypeOK
  <2> QED
    BY <1>1, <2>1, <2>2, <2>3 DEF TypeOK
<1>5. WaitingIsScheduled'
  BY <1>1, <1>2 DEF WaitingIsScheduled
<1>6. RoundsRan'
  <2>1. /\ calls \in Nat /\ round \in Nat /\ process = calls /\ calls \in 1..MaxCalls
        /\ \A r \in Rounds : r \in Nat
    BY <1>2 DEF TypeOK, Rounds
  <2>2. /\ \A r \in Rounds : r # round => ranInRound'[r] = ranInRound[r]
        /\ ranInRound'[round] = calls
    <3>1. ranInRound \in [Rounds -> 0..MaxCalls] /\ round \in Rounds
      BY <1>3 DEF TypeOK, Rounds
    <3>2. ranInRound' = [ranInRound EXCEPT ![round] = calls]
      BY <1>1, <1>2
    <3> QED
      BY <3>1, <3>2, Zenon
  <2>3. \A r \in Rounds :
          /\ ranInRound[r] \in (IF r < round THEN r + 1..calls ELSE {0})
          /\ ranInRound[r] < calls
    BY <1>2, <2>1 DEF RoundsRan
  <2>4. \A r \in Rounds : ranInRound'[r] \in (IF r < round + 1 THEN r + 1..calls ELSE {0})
    BY <1>3, <2>1, <2>2, <2>3
  <2>5. \A r, s \in Rounds : r < s /\ s < round + 1 => ranInRound'[r] < ranInRound'[s]
    BY <2>1, <2>2, <2>3 DEF RoundsRan
  <2> QED
    BY <1>1, <1>2, <2>1, <2>2, <2>4, <2>5 DEF RoundsRan
<1>7. Promised'
  <2>1. round \in Rounds /\ ranInRound'[round] = calls
    BY <1>1, <1>2, <1>3 DEF TypeOK, Rounds
  <2>2. ASSUME NEW n \in 1..calls
        PROVE  promiseOf[n] < round + 1 /\ ranInRound'[promiseOf[n]] >= n
    <3>1. promiseOf[n] \in Rounds
      BY DEF TypeOK, Processes
    <3>2. CASE promiseOf[n] = round
      BY <2>1, <3>2 DEF TypeOK
    <3>3. CASE promiseOf[n] # round
      <4>1. promiseOf[n] < round /\ ranInRound[promiseOf[n]] >= n /\ round \in Nat
        BY <3>3 DEF Promised, TypeOK
      <4>2. ranInRound'[promiseOf[n]] = ranInRound[promiseOf[n]]
        <5>1. /\ ranInRound \in [Rounds -> 0..MaxCalls]
              /\ ranInRound' = [ranInRound EXCEPT ![round] = process]
          BY <1>1 DEF TypeOK
        <5> QED
          BY <3>1, <3>3, <5>1, Zenon
      <4> QED
        BY <3>1, <4>1, <4>2 DEF Rounds
    <3> QED
      BY <3>2, <3>3
  <2> QED
    BY <1>1, <2>2 DEF Promised
<1>8. ResolvedIsOver'
  BY <1>1, <1>2, <1>3 DEF TypeOK, ResolvedIsOver, RoundsRan, Rounds
<1>9. TimerSpaced'
  BY <1>1 DEF TimerSpaced
<1> QED
  BY <1>4, <1>5, <1>6, <1>7, <1>8, <1>9

LEMMA CompletedInv == ASSUME IInv, processCompleted PROVE IInv'
<1> USE ThrottlerAssumption DEF IInv, None, NoTimer
<1>1. /\ running # 0 /\ running' = 0 /\ sinceComplete' = 0
      /\ processTimeout' = nextTimer /\ resolved' = resolved \cup completedPromises
      /\ UNCHANGED <<process, asSoonAsPossible, calls, round, promiseOf, ranInRound, hurried>>
  BY DEF processCompleted
<1>2. processTimeout = -1
  BY <1>1 DEF WaitingIsScheduled
<1>3. nextTimer = IF process = 0 THEN -1 ELSE IF asSoonAsPossible THEN 0 ELSE timeout
  BY <1>2 DEF nextTimer, innerSchedule
<1>4. \A r \in completedPromises : r \in Rounds /\ r < round
  BY <1>1 DEF completedPromises, RoundsRan, TypeOK, Rounds
<1>5. TypeOK'
  <2>1. processTimeout' \in -1..timeout
    BY <1>1, <1>3
  <2>2. resolved' \subseteq Rounds
    BY <1>1, <1>4 DEF TypeOK
  <2> QED
    BY <1>1, <2>1, <2>2 DEF TypeOK
<1>6. WaitingIsScheduled'
  BY <1>1, <1>3 DEF WaitingIsScheduled
<1>7. RoundsRan' /\ Promised'
  BY <1>1 DEF RoundsRan, Promised
<1>8. ResolvedIsOver'
  BY <1>1, <1>4 DEF TypeOK, ResolvedIsOver, RoundsRan, Rounds
<1>9. TimerSpaced'
  BY <1>1, <1>3 DEF TimerSpaced
<1> QED
  BY <1>5, <1>6, <1>7, <1>8, <1>9

LEMMA TickInv == ASSUME IInv, Tick PROVE IInv'
  BY ThrottlerAssumption
  DEF Tick, IInv, TypeOK, WaitingIsScheduled, RoundsRan, Promised, ResolvedIsOver, TimerSpaced,
      NoTimer

LEMMA StepInv == IInv /\ [Next]_vars => IInv'
<1>1. IInv /\ UNCHANGED vars => IInv'
  BY DEF vars, IInv, TypeOK, WaitingIsScheduled, RoundsRan, Promised, ResolvedIsOver, TimerSpaced
<1> QED
  BY <1>1, ScheduleInv, TimeoutInv, CompletedInv, TickInv DEF Next

(* The variables have their types; in particular there are never more      *)
(* rounds than calls.                                                      *)
THEOREM TypeCorrect == Spec => []TypeOK
  BY InitInv, StepInv, PTL DEF Spec, IInv

(* A process waits exactly while a timer is set or another process runs,   *)
(* and it is the last one scheduled (innerSchedule, processCompleted).     *)
THEOREM NoCallForgotten == Spec => []WaitingIsScheduled
  BY InitInv, StepInv, PTL DEF Spec, IInv

(* The promise schedule returned is resolved only after a process at least *)
(* as recent as its own has run to its end.                                *)
THEOREM NoPromiseResolvedEarly == Spec => []ResolvedAfterRun
<1>1. IInv => ResolvedAfterRun
  BY DEF IInv, ResolvedAfterRun, Promised, ResolvedIsOver, TypeOK, Processes
<1> QED
  BY InitInv, StepInv, <1>1, PTL DEF Spec

(* The timeout lies between two processes unless a caller was in a hurry   *)
(* (schedule with asSoonAsPossible).                                       *)
THEOREM ProcessesAreSpaced == Spec => Spaced
<1>1. IInv /\ [Next]_vars =>
        [running' # running /\ running' # None /\ ~hurried => sinceComplete >= timeout]_vars
  BY DEF Next, schedule, onTimeout, processCompleted, Tick, IInv, TimerSpaced, TypeOK, NoTimer,
     vars
<1> QED
  BY InitInv, StepInv, <1>1, PTL DEF Spec, Spaced

(* Processes start one at a time and in the order of their calls           *)
(* (onTimeout takes the last one scheduled).                               *)
THEOREM ProcessesStartInOrder == Spec => StartsInOrder
<1>1. IInv /\ [Next]_vars =>
        [running' # running /\ running' # None =>
           running = None /\ \A r \in Rounds : ranInRound[r] < running']_vars
  BY DEF Next, schedule, onTimeout, processCompleted, Tick, IInv, WaitingIsScheduled, RoundsRan,
         NoTimer, vars
<1> QED
  BY InitInv, StepInv, <1>1, PTL DEF Spec, StartsInOrder

(***************************************************************************)
(* A set of natural numbers has a least one.                               *)
LEMMA LeastNat ==
  ASSUME NEW T, T \subseteq Nat, T # {}
  PROVE  \E x \in T : \A y \in T : x <= y
<1> DEFINE R == {ss \in Nat \X Nat : ss[1] < ss[2]}
<1>1. IsWellFoundedOn(R, Nat)
  BY NatLessThanWellFounded DEF OpToRel
<1>2. PICK x \in T : \A y \in T : <<y, x>> \notin R
  <2> HIDE DEF R
  <2> QED
    BY <1>1, WFMin
<1>3. ASSUME NEW y \in T PROVE x <= y
  <2>1. x \in Nat /\ y \in Nat /\ <<y, x>> \notin R
    BY <1>2
  <2>2. <<y, x>>[1] = y /\ <<y, x>>[2] = x /\ <<y, x>> \in Nat \X Nat
    BY <2>1
  <2>3. ~(y < x)
    BY <2>1, <2>2
  <2> QED
    BY <2>1, <2>3
<1> QED
  BY <1>3
(***************************************************************************)
(* The pool of workers: it implements TaskPool for any tasks, any number   *)
(* of cores and however often workers throw.  What the proof needs to know *)
(* is where every task is: the pool holds it for one worker, and then it   *)
(* waits in the worker's inbox, or is computed, or its last message is on  *)
(* the way; and a worker for which no task is held has nothing to say.     *)

NoTask == Formatter!NoTask
MaxWorkers == Formatter!MAX_WORKERS
WorkerStates == {"loading", "ready", "terminated"}
Messages == [task : Tasks, kind : {"chunk", "last", "error"}]
EntriesFor(n) == [worker : 1..n, task : Tasks \cup {NoTask}]

(* A worker with inbox i, work w and outbox o: it has nothing to do ...    *)
Idle(i, w, o) == i = << >> /\ w = NoTask /\ o = << >>

(* ... or a task t, of which p chunks were taken, is in its inbox ...      *)
Waits(t, i, w, o) == i = <<t>> /\ w = NoTask /\ o = << >>

Chunks(t, o, n) ==
  /\ \A k \in 1..n : o[k].task = t /\ o[k].kind = "chunk"
  /\ n > 0 => t \in Chunked

(* ... or is computed, and only chunks were posted ...                     *)
Computed(t, i, w, o, p) ==
  /\ i = << >> /\ w = t /\ Chunks(t, o, Len(o)) /\ p + Len(o) <= MaxChunks

(* ... or is over, as the youngest message says.                           *)
Posts(t, i, w, o, p) ==
  /\ i = << >> /\ w = NoTask /\ o # << >> /\ Chunks(t, o, Len(o) - 1)
  /\ o[Len(o)].task = t /\ o[Len(o)].kind \in {"last", "error"}
  /\ p + Len(o) <= MaxChunks + 1

PipeOf(t, i, w, o, p) ==
  \/ t = NoTask /\ Idle(i, w, o)
  \/ t \in Tasks /\ (Waits(t, i, w, o) \/ Computed(t, i, w, o, p) \/ Posts(t, i, w, o, p))

LEMMA PoolBounds ==
  /\ MaxChunks \in Nat /\ MaxErrors \in Nat /\ NoTask \notin Tasks /\ MaxWorkers \in Nat
  /\ Chunked \subseteq Tasks
<1>1. /\ Chunked \subseteq Tasks /\ NoTask \notin Tasks /\ HardwareConcurrency \in Nat \ {0}
      /\ MaxChunks \in Nat /\ MaxErrors \in Nat
  BY FormatterAssumption, Zenon DEF Formatter!PoolAssumption, NoTask
<1>2. MaxWorkers \in {2, HardwareConcurrency - 1}
  <2>1. \E x \in {2, HardwareConcurrency - 1} : \A y \in {2, HardwareConcurrency - 1} : x <= y
    <3>1. CASE 2 <= HardwareConcurrency - 1
      BY <3>1, <1>1
    <3>2. CASE HardwareConcurrency - 1 <= 2
      BY <3>2, <1>1
    <3> QED
      BY <1>1, <3>1, <3>2
  <2> QED
    BY <2>1, Zenon DEF MaxWorkers, Formatter!MAX_WORKERS, Formatter!Min
<1>3. 2 \in Nat /\ HardwareConcurrency - 1 \in Nat
  BY <1>1
<1>4. MaxWorkers \in Nat
  BY <1>2, <1>3, Zenon
<1> QED
  BY <1>1, <1>4

LEMMA NumberOf == MaxChunks \in Nat
BY PoolBounds, Zenon

(* The worker begins what was posted to it.                                *)
LEMMA PipeBegins ==
  ASSUME NEW t, NEW i, NEW w, NEW o, NEW p \in 0..MaxChunks, PipeOf(t, i, w, o, p),
         i # << >>
  PROVE  t \in Tasks /\ Head(i) = t /\ PipeOf(t, Tail(i), Head(i), o, p)
<1>1. t \in Tasks /\ i = <<t>> /\ o = << >>
  BY Zenon DEF PipeOf, Idle, Waits, Computed, Posts
<1>2. Head(<<t>>) = t /\ Tail(<<t>>) = << >> /\ Len(<< >>) = 0
  OBVIOUS
<1>3. Chunks(t, << >>, 0) /\ p + 0 <= MaxChunks
  BY NumberOf DEF Chunks
<1> QED
  BY <1>1, <1>2, <1>3 DEF PipeOf, Computed

(* It computes, and posts.                                                 *)
MayPost(t, i, w, o, p) ==
  /\ w = t /\ t \in Tasks
  /\ \A kind \in {"last", "error"} :
       PipeOf(t, i, NoTask, Append(o, [task |-> w, kind |-> kind]), p)
  /\ w \in Chunked /\ p + Len(o) < MaxChunks =>
       PipeOf(t, i, w, Append(o, [task |-> w, kind |-> "chunk"]), p)

LEMMA PipePosts ==
  ASSUME NEW t, NEW i, NEW w, NEW o \in Seq(Messages), NEW p \in 0..MaxChunks,
         PipeOf(t, i, w, o, p), w # NoTask
  PROVE  MayPost(t, i, w, o, p)
<1> USE NumberOf
<1>0. t \in Tasks /\ Computed(t, i, w, o, p)
  BY Zenon DEF PipeOf, Idle, Waits, Posts
<1>1. w = t /\ t \in Tasks /\ Computed(t, i, w, o, p)
  BY <1>0 DEF Computed
<1>2. /\ i = << >> /\ \A k \in 1..Len(o) : o[k].task = t /\ o[k].kind = "chunk"
      /\ (Len(o) > 0 => t \in Chunked) /\ p + Len(o) <= MaxChunks
  BY <1>1 DEF Computed, Chunks
<1>3. ASSUME NEW kind \in {"last", "error"}
      PROVE  PipeOf(t, i, NoTask, Append(o, [task |-> w, kind |-> kind]), p)
  <2> DEFINE m == [task |-> w, kind |-> kind]
             x == Append(o, m)
  <2>1. m.task = t /\ m.kind \in {"last", "error"}
    BY <1>1
  <2> HIDE DEF m
  <2>2. /\ Len(x) = Len(o) + 1 /\ x[Len(x)] = m /\ x # << >> /\ Len(o) \in Nat
        /\ \A k \in 1..Len(o) : x[k] = o[k]
    OBVIOUS
  <2> HIDE DEF x
  <2>3. Chunks(t, x, Len(x) - 1)
    BY <1>2, <2>2 DEF Chunks
  <2>4. p + Len(x) <= MaxChunks + 1
    BY <1>2, <2>2
  <2>5. Posts(t, i, NoTask, x, p)
    BY <1>2, <2>1, <2>2, <2>3, <2>4 DEF Posts
  <2> QED
    BY <1>1, <2>5 DEF PipeOf, x, m
<1>4. ASSUME w \in Chunked, p + Len(o) < MaxChunks
      PROVE  PipeOf(t, i, w, Append(o, [task |-> w, kind |-> "chunk"]), p)
  <2> DEFINE m == [task |-> w, kind |-> "chunk"]
             x == Append(o, m)
  <2>1. m.task = t /\ m.kind = "chunk"
    BY <1>1
  <2> HIDE DEF m
  <2>2. /\ Len(x) = Len(o) + 1 /\ x[Len(x)] = m /\ Len(o) \in Nat
        /\ \A k \in 1..Len(o) : x[k] = o[k]
    OBVIOUS
  <2> HIDE DEF x
  <2>3. Chunks(t, x, Len(x))
    <3>1. \A k \in 1..Len(x) : k \in 1..Len(o) \/ k = Len(x)
      BY <2>2
    <3> QED
      BY <1>1, <1>2, <1>4, <2>1, <2>2, <3>1 DEF Chunks
  <2>4. p + Len(x) <= MaxChunks
    BY <1>2, <1>4, <2>2
  <2> QED
    BY <1>1, <1>2, <2>3, <2>4 DEF PipeOf, Computed, x, m
<1> QED
  BY <1>1, <1>3, <1>4, Zenon DEF MayPost

Taken(t, i, w, o, p) ==
  /\ t \in Tasks /\ Head(o).task = t
  /\ Head(o).kind = "chunk" =>
       p + 1 <= MaxChunks /\ t \in Chunked /\ PipeOf(t, i, w, Tail(o), p + 1)
  /\ Head(o).kind # "chunk" => Idle(i, w, Tail(o))

(* The oldest message is about the task; a chunk is one of a part, another *)
(* message is the only one left.                                           *)
LEMMA PipeIsTaken ==
  ASSUME NEW t, NEW i, NEW w, NEW o \in Seq(Messages), NEW p \in 0..MaxChunks,
         PipeOf(t, i, w, o, p), o # << >>
  PROVE  Taken(t, i, w, o, p)
<1> USE NumberOf
<1>1. t \in Tasks /\ (Computed(t, i, w, o, p) \/ Posts(t, i, w, o, p))
  BY DEF PipeOf, Idle, Waits
<1>2. /\ Len(o) \in Nat /\ Len(o) > 0 /\ Head(o) = o[1] /\ Tail(o) \in Seq(Messages)
      /\ Len(Tail(o)) = Len(o) - 1 /\ \A k \in 1..Len(o) - 1 : Tail(o)[k] = o[k + 1]
  OBVIOUS
<1> DEFINE x == Tail(o)
<1> HIDE DEF x
<1>3. /\ Len(x) = Len(o) - 1 /\ Len(o) \in Nat /\ Len(o) > 0 /\ x \in Seq(Messages)
      /\ \A k \in 1..Len(x) : x[k] = o[k + 1]
  BY <1>2 DEF x
<1>4. CASE Computed(t, i, w, o, p)
  <2>1. /\ i = << >> /\ w = t /\ \A k \in 1..Len(o) : o[k].task = t /\ o[k].kind = "chunk"
        /\ t \in Chunked /\ p + Len(o) <= MaxChunks
    BY <1>4, <1>3 DEF Computed, Chunks
  <2>2. o[1].task = t /\ o[1].kind = "chunk"
    BY <2>1, <1>3
  <2>3. Chunks(t, x, Len(x))
    <3>1. \A k \in 1..Len(x) : k + 1 \in 1..Len(o)
      BY <1>3
    <3> QED
      BY <1>3, <2>1, <3>1 DEF Chunks
  <2>4. p + 1 + Len(x) <= MaxChunks /\ p + 1 <= MaxChunks
    BY <2>1, <1>3
  <2>5. Computed(t, i, w, x, p + 1)
    BY <2>1, <2>3, <2>4 DEF Computed
  <2> QED
    BY <1>1, <1>2, <2>1, <2>2, <2>4, <2>5 DEF PipeOf, Taken, x
<1>5. CASE Posts(t, i, w, o, p)
  <2>1. /\ i = << >> /\ w = NoTask /\ (Len(o) - 1 > 0 => t \in Chunked)
        /\ \A k \in 1..Len(o) - 1 : o[k].task = t /\ o[k].kind = "chunk"
        /\ o[Len(o)].task = t /\ o[Len(o)].kind \in {"last", "error"}
        /\ p + Len(o) <= MaxChunks + 1
    BY <1>5 DEF Posts, Chunks
  <2>2. CASE Len(o) = 1
    <3>1. x = << >> /\ o[1].task = t /\ o[1].kind # "chunk"
      BY <2>1, <2>2, <1>3
    <3> QED
      BY <1>1, <1>2, <2>1, <3>1 DEF Idle, Taken, x
  <2>3. CASE Len(o) > 1
    <3>1. o[1].task = t /\ o[1].kind = "chunk" /\ t \in Chunked
      BY <2>1, <2>3, <1>3
    <3>2. Chunks(t, x, Len(x) - 1)
      <4>1. \A k \in 1..Len(x) - 1 : k + 1 \in 1..Len(o) - 1 /\ k \in 1..Len(x)
        BY <1>3
      <4> QED
        BY <1>3, <2>1, <3>1, <4>1 DEF Chunks
    <3>3. Len(x) > 0 /\ Len(x) \in 1..Len(x) /\ Len(x) + 1 = Len(o)
      BY <1>3, <2>3
    <3>4. x[Len(x)] = o[Len(o)] /\ x # << >>
      BY <1>3, <3>3
    <3>5. p + 1 + Len(x) <= MaxChunks + 1 /\ p + 1 <= MaxChunks
      BY <2>1, <2>3, <1>3
    <3>6. Posts(t, i, w, x, p + 1)
      BY <2>1, <3>2, <3>4, <3>5 DEF Posts
    <3> QED
      BY <1>1, <1>2, <3>1, <3>5, <3>6 DEF PipeOf, Taken, x
  <2> QED
    BY <1>3, <2>2, <2>3
<1> QED
  BY <1>1, <1>4, <1>5

(***************************************************************************)
(* The map of workers: of none two entries, of no task two entries.        *)
EntriesOf(e, n, st) ==
  /\ e \in Seq(EntriesFor(n)) /\ Len(e) <= MaxWorkers
  /\ \A i \in DOMAIN e : st[e[i].worker] # "terminated"
  /\ \A i, j \in DOMAIN e : e[i].worker = e[j].worker => i = j
  /\ \A i, j \in DOMAIN e : e[i].task = e[j].task /\ e[i].task # NoTask => i = j

HeldTasks(e) == {e[i].task : i \in DOMAIN e} \ {NoTask}

NoneFree(e) == \A i \in DOMAIN e : e[i].task # NoTask

Given(e, i, t) == [e EXCEPT ![i] = [worker |-> e[i].worker, task |-> t]]

(* What processNextTask does.                                              *)
Unchanging(q, e, n, next) ==
  /\ q = << >> \/ (NoneFree(e) /\ Len(e) = MaxWorkers)
  /\ next.queue = q /\ next.entries = e /\ next.made = n /\ next.to = 0

GivesFree(q, e, n, next, i) ==
  /\ q # << >> /\ i \in DOMAIN e /\ e[i].task = NoTask
  /\ next.queue = Tail(q) /\ next.entries = Given(e, i, Head(q))
  /\ next.made = n /\ next.to = e[i].worker

GivesNew(q, e, n, next) ==
  /\ q # << >> /\ NoneFree(e) /\ Len(e) < MaxWorkers
  /\ next.queue = Tail(q) /\ next.made = n + 1 /\ next.to = n + 1
  /\ next.entries = Append(e, [worker |-> n + 1, task |-> Head(q)])

LEMMA EntryFacts ==
  ASSUME NEW e, NEW n \in Nat, e \in Seq(EntriesFor(n))
  PROVE  /\ DOMAIN e = 1..Len(e) /\ Len(e) \in Nat
         /\ \A i \in DOMAIN e :
              /\ e[i] \in EntriesFor(n) /\ e[i].worker \in 1..n /\ e[i].worker \in Nat
              /\ e[i].task \in Tasks \cup {NoTask}
              /\ e[i] = [worker |-> e[i].worker, task |-> e[i].task]
<1>1. DOMAIN e = 1..Len(e) /\ Len(e) \in Nat /\ \A i \in DOMAIN e : e[i] \in EntriesFor(n)
  OBVIOUS
<1>2. ASSUME NEW x \in EntriesFor(n)
      PROVE  /\ x.worker \in 1..n /\ x.task \in Tasks \cup {NoTask}
             /\ x = [worker |-> x.worker, task |-> x.task]
  BY DEF EntriesFor
<1>3. 1..n \subseteq Nat
  OBVIOUS
<1> QED
  BY <1>1, <1>2, <1>3, Zenon

(* The entry of a worker, and what setting its task does.                  *)
LEMMA EntryIs ==
  ASSUME NEW e, NEW n \in Nat, NEW st, EntriesOf(e, n, st), NEW i \in DOMAIN e, NEW t,
         NEW w, w = e[i].worker
  PROVE  /\ (CHOOSE j \in DOMAIN e : e[j].worker = w) = i
         /\ Formatter!SetTask(e, w, t) = Given(e, i, t)
<1>1. \A j \in DOMAIN e : e[j].worker = e[i].worker => i = j
  BY DEF EntriesOf
<1>2. (CHOOSE j \in DOMAIN e : e[j].worker = w) = i
  BY <1>1, Zenon
<1>3. DOMAIN e = 1..Len(e) /\ e \in [DOMAIN e -> EntriesFor(n)]
  BY DEF EntriesOf
<1>4. Given(e, i, t) =
        [j \in DOMAIN e |-> IF j = i THEN [worker |-> e[i].worker, task |-> t] ELSE e[j]]
  BY <1>3 DEF Given
<1>5. \A j \in DOMAIN e : (e[j].worker = w) <=> (j = i)
  BY <1>1
<1>6. Formatter!SetTask(e, w, t) =
        [j \in DOMAIN e |-> IF j = i THEN [worker |-> e[i].worker, task |-> t] ELSE e[j]]
  BY <1>5 DEF Formatter!SetTask
<1> QED
  BY <1>2, <1>4, <1>6

LEMMA SmallestIs == ASSUME NEW T, T \subseteq Nat, T # {} PROVE Formatter!Min(T) \in T
BY LeastNat, Zenon DEF Formatter!Min

LEMMA LargerOf ==
  ASSUME NEW a \in Nat, NEW b \in Nat
  PROVE  Formatter!Max({a, b}) = IF a >= b THEN a ELSE b
<1> DEFINE m == IF a >= b THEN a ELSE b
<1>1. m \in {a, b} /\ \A y \in {a, b} : m >= y
  OBVIOUS
<1>2. \A x \in {a, b} : (\A y \in {a, b} : x >= y) => x = m
  OBVIOUS
<1> HIDE DEF m
<1>3. (CHOOSE x \in {a, b} : \A y \in {a, b} : x >= y) = m
  BY <1>1, <1>2, Zenon
<1> QED
  BY <1>3 DEF Formatter!Max, m

LEMMA NextTask ==
  ASSUME NEW q, NEW e, NEW n \in Nat, NEW st, EntriesOf(e, n, st), NEW next,
         next = Formatter!processNextTask(q, e, n)
  PROVE  \/ Unchanging(q, e, n, next)
         \/ \E i \in DOMAIN e : GivesFree(q, e, n, next, i)
         \/ GivesNew(q, e, n, next)
<1> DEFINE free == Formatter!FreeEntries(e)
<1>1. free = {i \in DOMAIN e : e[i].task = NoTask}
  BY DEF Formatter!FreeEntries, NoTask
<1>2. free = {} <=> NoneFree(e)
  BY <1>1, Zenon DEF NoneFree
<1>3. Formatter!hasRoom(e) <=> Len(e) < MaxWorkers
  BY DEF Formatter!hasRoom, MaxWorkers
<1>4. /\ DOMAIN e = 1..Len(e) /\ Len(e) \in Nat
      /\ \A i \in DOMAIN e : e[i].worker \in 1..n /\ e[i].worker \in Nat
  BY EntryFacts DEF EntriesOf
<1>5. Len(e) <= MaxWorkers /\ MaxWorkers \in Nat
  BY PoolBounds, Zenon DEF EntriesOf
<1> DEFINE w == IF free # {} THEN e[Formatter!Min(free)].worker ELSE n + 1
<1>6. next = IF q = << >> \/ (free = {} /\ ~Formatter!hasRoom(e))
             THEN [queue |-> q, entries |-> e, made |-> n, to |-> 0]
             ELSE [queue |-> Tail(q), to |-> w, made |-> Formatter!Max({n, w}),
                   entries |-> IF free # {} THEN Formatter!SetTask(e, w, Head(q))
                               ELSE Append(e, [worker |-> w, task |-> Head(q)])]
  BY DEF Formatter!processNextTask
<1> HIDE DEF w, free
<1>7. CASE q = << >> \/ (free = {} /\ ~Formatter!hasRoom(e))
  <2>1. next = [queue |-> q, entries |-> e, made |-> n, to |-> 0]
    BY <1>6, <1>7, Zenon
  <2>2. next.queue = q /\ next.entries = e /\ next.made = n /\ next.to = 0
    BY <2>1
  <2>3. q = << >> \/ (NoneFree(e) /\ Len(e) = MaxWorkers)
    <3>1. q = << >> \/ (NoneFree(e) /\ ~(Len(e) < MaxWorkers))
      BY <1>2, <1>3, <1>7, Zenon
    <3>2. \A a, b \in Nat : a <= b /\ ~(a < b) => a = b
      OBVIOUS
    <3>3. ~(Len(e) < MaxWorkers) => Len(e) = MaxWorkers
      BY <1>4, <1>5, <3>2, Zenon
    <3> QED
      BY <3>1, <3>3
  <2> QED
    BY <2>2, <2>3 DEF Unchanging
<1>8. CASE q # << >> /\ free # {}
  <2>1. PICK i \in DOMAIN e : i = Formatter!Min(free) /\ e[i].task = NoTask
    <3>1. free \subseteq Nat
      BY <1>1, <1>4
    <3>2. Formatter!Min(free) \in free
      BY <1>8, <3>1, SmallestIs
    <3> QED
      BY <3>2, <1>1
  <2>2. w = e[i].worker
    BY <1>8, <2>1 DEF w
  <2>3. Formatter!SetTask(e, w, Head(q)) = Given(e, i, Head(q))
    BY <2>2, EntryIs
  <2>4. Formatter!Max({n, w}) = n
    <3>1. w \in Nat /\ w <= n
      BY <2>2, <1>4
    <3> QED
      BY <3>1, LargerOf
  <2>5. next = [queue |-> Tail(q), to |-> e[i].worker, made |-> n, entries |-> Given(e, i, Head(q))]
    BY <1>6, <1>8, <2>2, <2>3, <2>4
  <2>6. /\ next.queue = Tail(q) /\ next.entries = Given(e, i, Head(q))
        /\ next.made = n /\ next.to = e[i].worker
    BY <2>5
  <2> QED
    BY <1>8, <2>1, <2>6 DEF GivesFree
<1>9. CASE q # << >> /\ free = {} /\ Formatter!hasRoom(e)
  <2>1. w = n + 1 /\ n + 1 \in Nat
    BY <1>9 DEF w
  <2>2. Formatter!Max({n, w}) = n + 1
    BY <2>1, LargerOf
  <2>3. next = [queue |-> Tail(q), to |-> n + 1, made |-> n + 1,
                entries |-> Append(e, [worker |-> n + 1, task |-> Head(q)])]
    BY <1>6, <1>9, <2>1, <2>2
  <2>4. /\ next.queue = Tail(q) /\ next.made = n + 1 /\ next.to = n + 1
        /\ next.entries = Append(e, [worker |-> n + 1, task |-> Head(q)])
    BY <2>3
  <2> QED
    BY <1>2, <1>3, <1>9, <2>4 DEF GivesNew
<1> QED
  BY <1>7, <1>8, <1>9

(***************************************************************************)
(* The tasks: those that wait, those that are held and those that are over *)
(* are apart, and a callback was called for its own task only.             *)
Apart(q, e, a) ==
  /\ \A j, k \in DOMAIN q : q[j] = q[k] => j = k
  /\ \A j \in DOMAIN q : a[q[j]] = << >> /\ \A i \in DOMAIN e : e[i].task # q[j]
  /\ \A i \in DOMAIN e : e[i].task # NoTask => a[e[i].task] = << >>
  /\ \A t \in Tasks : \A k \in DOMAIN a[t] : a[t][k].task = t

PipesOf(e, n, inb, wk, o, p) ==
  /\ \A i \in DOMAIN e :
       PipeOf(e[i].task, inb[e[i].worker], wk[e[i].worker], o[e[i].worker], p[e[i].task])
  /\ \A w \in 1..n : (\A i \in DOMAIN e : e[i].worker # w) => Idle(inb[w], wk[w], o[w])

WorkersTyped(n, st, inb, wk, o) ==
  /\ st \in Seq(WorkerStates) /\ Len(st) = n
  /\ inb \in [1..n -> Seq(Tasks)]
  /\ wk \in [1..n -> Tasks \cup {NoTask}]
  /\ o \in [1..n -> Seq(Messages)]

PoolOf(q, e, n, st, inb, wk, o, p, a) ==
  /\ q \in Seq(Tasks) /\ p \in [Tasks -> 0..MaxChunks] /\ a \in [Tasks -> Seq(Messages)]
  /\ WorkersTyped(n, st, inb, wk, o)
  /\ EntriesOf(e, n, st) /\ PipesOf(e, n, inb, wk, o, p) /\ Apart(q, e, a)

LEMMA QueueFacts ==
  ASSUME NEW q \in Seq(Tasks), q # << >>
  PROVE  /\ Head(q) \in Tasks /\ Tail(q) \in Seq(Tasks) /\ Head(q) = q[1]
         /\ Len(q) \in Nat /\ Len(q) > 0 /\ DOMAIN q = 1..Len(q)
         /\ DOMAIN Tail(q) = 1..Len(q) - 1 /\ Len(Tail(q)) = Len(q) - 1
         /\ \A k \in DOMAIN Tail(q) : Tail(q)[k] = q[k + 1]
         /\ \A k \in DOMAIN Tail(q) : k + 1 \in DOMAIN q /\ k + 1 # 1
         /\ 1 \in DOMAIN q
OBVIOUS

(* The head of the queue leaves it.                                        *)
LEMMA HeadLeaves ==
  ASSUME NEW q \in Seq(Tasks), q # << >>, NEW e, NEW a, Apart(q, e, a)
  PROVE  /\ \A j, k \in DOMAIN Tail(q) : Tail(q)[j] = Tail(q)[k] => j = k
         /\ \A j \in DOMAIN Tail(q) :
              /\ a[Tail(q)[j]] = << >> /\ Tail(q)[j] # Head(q)
              /\ \A i \in DOMAIN e : e[i].task # Tail(q)[j]
         /\ a[Head(q)] = << >> /\ \A i \in DOMAIN e : e[i].task # Head(q)
<1> DEFINE x == Tail(q)
           h == Head(q)
<1>1. /\ h = q[1] /\ 1 \in DOMAIN q /\ DOMAIN x \subseteq Nat
      /\ \A k \in DOMAIN x : x[k] = q[k + 1] /\ k + 1 \in DOMAIN q /\ k + 1 # 1
  BY QueueFacts
<1>2. /\ \A j, k \in DOMAIN q : q[j] = q[k] => j = k
      /\ \A j \in DOMAIN q : a[q[j]] = << >> /\ \A i \in DOMAIN e : e[i].task # q[j]
  BY DEF Apart
<1> HIDE DEF x, h
<1>3. \A j, k \in DOMAIN x : x[j] = x[k] => j = k
  BY <1>1, <1>2
<1>4. \A j \in DOMAIN x : a[x[j]] = << >> /\ x[j] # h /\ \A i \in DOMAIN e : e[i].task # x[j]
  BY <1>1, <1>2
<1>5. a[h] = << >> /\ \A i \in DOMAIN e : e[i].task # h
  BY <1>1, <1>2
<1> QED
  BY <1>3, <1>4, <1>5 DEF x, h

(* It gets the entry of a free worker.                                     *)
LEMMA FreeGiven ==
  ASSUME NEW q \in Seq(Tasks), q # << >>, NEW e, NEW a, Apart(q, e, a),
         NEW n \in Nat, NEW st, EntriesOf(e, n, st), NEW i \in DOMAIN e, e[i].task = NoTask,
         NEW x, x = Given(e, i, Head(q))
  PROVE  /\ EntriesOf(x, n, st) /\ Apart(Tail(q), x, a) /\ DOMAIN x = DOMAIN e
         /\ x[i].worker = e[i].worker /\ x[i].task = Head(q)
         /\ \A j \in DOMAIN e : j # i => x[j] = e[j]
         /\ HeldTasks(x) = HeldTasks(e) \cup {Head(q)}
<1> DEFINE h == Head(q)
           r == Tail(q)
<1>1. h \in Tasks /\ h # NoTask
  BY QueueFacts, PoolBounds, Zenon
<1>2. /\ \A j, k \in DOMAIN r : r[j] = r[k] => j = k
      /\ \A j \in DOMAIN r :
           a[r[j]] = << >> /\ r[j] # h /\ \A k \in DOMAIN e : e[k].task # r[j]
      /\ a[h] = << >> /\ \A k \in DOMAIN e : e[k].task # h
  BY HeadLeaves
<1> HIDE DEF h, r
<1>3. /\ DOMAIN e = 1..Len(e) /\ Len(e) \in Nat
      /\ \A j \in DOMAIN e : e[j] \in EntriesFor(n) /\ e[j].worker \in 1..n
  BY EntryFacts DEF EntriesOf
<1>4. e \in Seq(EntriesFor(n)) /\ [worker |-> e[i].worker, task |-> h] \in EntriesFor(n)
  BY <1>1, <1>3 DEF EntriesOf, EntriesFor
<1>5. /\ x \in Seq(EntriesFor(n)) /\ DOMAIN x = DOMAIN e /\ Len(x) = Len(e)
      /\ x[i] = [worker |-> e[i].worker, task |-> h]
      /\ \A j \in DOMAIN e : j # i => x[j] = e[j]
  BY <1>4 DEF Given, h
<1>6. /\ x[i].worker = e[i].worker /\ x[i].task = h
      /\ \A j \in DOMAIN e : j # i => x[j] = e[j]
      /\ DOMAIN x = DOMAIN e
  BY <1>5
<1>7. \A j \in DOMAIN x : x[j].worker = e[j].worker
  BY <1>6
<1>8. EntriesOf(x, n, st)
  <2>1. Len(x) <= MaxWorkers
    BY <1>5 DEF EntriesOf
  <2>2. /\ \A j \in DOMAIN x : st[x[j].worker] # "terminated"
        /\ \A j, k \in DOMAIN x : x[j].worker = x[k].worker => j = k
    BY <1>6, <1>7 DEF EntriesOf
  <2>3. ASSUME NEW j \in DOMAIN x, NEW k \in DOMAIN x, x[j].task = x[k].task, x[j].task # NoTask
        PROVE  j = k
    <3>1. \A l, m \in DOMAIN e : e[l].task = e[m].task /\ e[l].task # NoTask => l = m
      BY DEF EntriesOf
    <3> QED
      BY <1>2, <1>6, <2>3, <3>1
  <2> QED
    BY <1>5, <2>1, <2>2, <2>3 DEF EntriesOf
<1>9. Apart(r, x, a)
  <2>1. \A j \in DOMAIN r : a[r[j]] = << >> /\ \A k \in DOMAIN x : x[k].task # r[j]
    BY <1>2, <1>6
  <2>2. \A k \in DOMAIN x : x[k].task # NoTask => a[x[k].task] = << >>
    <3>1. \A k \in DOMAIN e : e[k].task # NoTask => a[e[k].task] = << >>
      BY DEF Apart
    <3> QED
      BY <1>2, <1>6, <3>1
  <2>3. \A t \in Tasks : \A k \in DOMAIN a[t] : a[t][k].task = t
    BY DEF Apart
  <2> QED
    BY <1>2, <2>1, <2>2, <2>3 DEF Apart
<1>10. HeldTasks(x) = HeldTasks(e) \cup {h}
  <2>1. ASSUME NEW t \in HeldTasks(x) PROVE t \in HeldTasks(e) \cup {h}
    <3>1. PICK j \in DOMAIN x : x[j].task = t
      BY DEF HeldTasks
    <3>2. t # NoTask
      BY DEF HeldTasks
    <3>3. j # i => e[j].task = t
      BY <1>6, <3>1
    <3> QED
      BY <1>6, <3>1, <3>2, <3>3 DEF HeldTasks
  <2>2. ASSUME NEW t \in HeldTasks(e) PROVE t \in HeldTasks(x)
    <3>1. PICK j \in DOMAIN e : e[j].task = t
      BY DEF HeldTasks
    <3>2. t # NoTask
      BY DEF HeldTasks
    <3>3. x[j].task = t /\ j \in DOMAIN x
      BY <1>6, <3>1, <3>2
    <3> QED
      BY <3>2, <3>3 DEF HeldTasks
  <2>3. h \in HeldTasks(x)
    BY <1>1, <1>6 DEF HeldTasks
  <2> QED
    BY <2>1, <2>2, <2>3
<1> QED
  BY <1>6, <1>8, <1>9, <1>10 DEF h, r

(* It gets the entry of a new worker.                                      *)
Joins(n, st, st1) == st1[n + 1] # "terminated" /\ \A w \in 1..n : st1[w] = st[w]

NotHeld(e, t) == t = NoTask \/ \A j \in DOMAIN e : e[j].task # t

NewOf(e, n, t) == Append(e, [worker |-> n + 1, task |-> t])

HasOneMore(x, e, n, t) ==
  LET l == Len(e) + 1
  IN  /\ DOMAIN x = DOMAIN e \cup {l} /\ Len(x) = l /\ l \notin DOMAIN e
      /\ x[l].worker = n + 1 /\ x[l].task = t
      /\ \A j \in DOMAIN e : x[j] = e[j] /\ e[j].worker \in 1..n
      /\ HeldTasks(x) = (HeldTasks(e) \cup {t}) \ {NoTask}

LEMMA NewEntry ==
  ASSUME NEW e, NEW n \in Nat, e \in Seq(EntriesFor(n)), NEW t
  PROVE  HasOneMore(NewOf(e, n, t), e, n, t)
<1> DEFINE l == Len(e) + 1
           x == NewOf(e, n, t)
<1>1. DOMAIN e = 1..Len(e) /\ Len(e) \in Nat /\ \A j \in DOMAIN e : e[j].worker \in 1..n
  BY EntryFacts
<1>2. /\ DOMAIN x = 1..l /\ Len(x) = l
      /\ x[l] = [worker |-> n + 1, task |-> t] /\ \A j \in DOMAIN e : x[j] = e[j]
  BY <1>1 DEF NewOf
<1> HIDE DEF x
<1>3. /\ DOMAIN x = DOMAIN e \cup {l} /\ l \notin DOMAIN e
      /\ x[l].worker = n + 1 /\ x[l].task = t /\ \A j \in DOMAIN e : x[j] = e[j]
  BY <1>1, <1>2
<1> HIDE DEF l
<1>4. HeldTasks(x) = (HeldTasks(e) \cup {t}) \ {NoTask}
  <2>1. \A y : (\E j \in DOMAIN x : y = x[j].task) <=> (y = t \/ \E j \in DOMAIN e : y = e[j].task)
    BY <1>3
  <2> QED
    BY <2>1 DEF HeldTasks
<1> QED
  BY <1>1, <1>2, <1>3, <1>4, Zenon DEF l, x, HasOneMore

LEMMA NewGiven ==
  ASSUME NEW e, NEW n \in Nat, NEW st, EntriesOf(e, n, st), Len(e) < MaxWorkers,
         NEW st1, Joins(n, st, st1), NEW t \in Tasks \cup {NoTask}, NotHeld(e, t)
  PROVE  EntriesOf(NewOf(e, n, t), n + 1, st1)
<1> DEFINE l == Len(e) + 1
           x == NewOf(e, n, t)
<1>1. /\ st1[n + 1] # "terminated" /\ \A w \in 1..n : st1[w] = st[w]
      /\ (t = NoTask \/ \A j \in DOMAIN e : e[j].task # t)
  BY DEF Joins, NotHeld
<1>2. /\ e \in Seq(EntriesFor(n)) /\ Len(e) \in Nat
      /\ DOMAIN e = 1..Len(e) /\ \A j \in DOMAIN e : e[j].worker \in Nat /\ e[j].worker \in 1..n
  BY EntryFacts DEF EntriesOf
<1>3. x \in Seq(EntriesFor(n + 1))
  <2>1. 1..n \subseteq 1..n + 1
    OBVIOUS
  <2>2. EntriesFor(n) \subseteq EntriesFor(n + 1)
    BY <2>1 DEF EntriesFor
  <2>3. [worker |-> n + 1, task |-> t] \in EntriesFor(n + 1)
    BY DEF EntriesFor
  <2>4. e \in Seq(EntriesFor(n + 1))
    BY <1>2, <2>2
  <2> QED
    BY <2>3, <2>4 DEF NewOf
<1>4. /\ DOMAIN x = DOMAIN e \cup {l} /\ l \notin DOMAIN e /\ Len(x) = l
      /\ x[l].worker = n + 1 /\ x[l].task = t /\ \A j \in DOMAIN e : x[j] = e[j]
  <2>1. HasOneMore(x, e, n, t)
    BY <1>2, NewEntry
  <2> QED
    BY <2>1 DEF HasOneMore
<1>5. \A j \in DOMAIN e : e[j].worker # n + 1
  BY <1>2
<1> HIDE DEF l, x
<1>6. Len(x) <= MaxWorkers
  BY <1>2, <1>4, PoolBounds DEF l
<1>7. /\ \A j \in DOMAIN e : st[e[j].worker] # "terminated"
      /\ \A j, k \in DOMAIN e : e[j].worker = e[k].worker => j = k
      /\ \A j, k \in DOMAIN e : e[j].task = e[k].task /\ e[j].task # NoTask => j = k
  BY DEF EntriesOf
<1>8. \A j \in DOMAIN x : st1[x[j].worker] # "terminated"
  BY <1>1, <1>2, <1>4, <1>7
<1>9. \A j, k \in DOMAIN x : x[j].worker = x[k].worker => j = k
  BY <1>4, <1>5, <1>7
<1>10. \A j, k \in DOMAIN x : x[j].task = x[k].task /\ x[j].task # NoTask => j = k
  BY <1>1, <1>4, <1>7
<1> QED
  BY <1>3, <1>6, <1>8, <1>9, <1>10 DEF EntriesOf, x

(***************************************************************************)
(* While tasks wait every worker has one, and there is no room for more.   *)
QueueWaits(q, e) == q # << >> => NoneFree(e) /\ Len(e) = MaxWorkers

(* One place is free at most, which the head of the queue takes.           *)
OnePlace(q, e) ==
  q # << >> =>
    \/ Len(q) = 1
    \/ /\ Len(e) = MaxWorkers
       /\ \A i, j \in DOMAIN e : e[i].task = NoTask /\ e[j].task = NoTask => i = j

(* The workers after processNextTask are those before it, one of which got *)
(* the head h of the queue, and perhaps a new one.                         *)
WorkersAfter(n, st, inb, wk, o, h, next, st1, inb1, wk1, o1) ==
  /\ st1 \in Seq(WorkerStates) /\ Len(st1) = next.made
  /\ inb1 = [w \in 1..next.made |-> inb1[w]]
  /\ wk1 = [w \in 1..next.made |-> wk1[w]]
  /\ o1 = [w \in 1..next.made |-> o1[w]]
  /\ \A w \in 1..n :
       /\ st1[w] = st[w] /\ wk1[w] = wk[w] /\ o1[w] = o[w]
       /\ inb1[w] = IF w = next.to THEN inb[w] \o <<h>> ELSE inb[w]
  /\ next.made = n + 1 =>
       /\ st1[n + 1] = "loading" /\ wk1[n + 1] = NoTask /\ o1[n + 1] = << >>
       /\ inb1[n + 1] = IF n + 1 = next.to THEN <<h>> ELSE << >>

LEMMA SameSequence ==
  ASSUME NEW S, NEW s \in Seq(S), NEW t \in Seq(S), Len(s) = Len(t),
         \A i \in 1..Len(t) : s[i] = t[i]
  PROVE  s = t
<1>1. s \in [1..Len(t) -> S] /\ t \in [1..Len(t) -> S]
  OBVIOUS
<1> QED
  BY <1>1

LEMMA UnchangingKeeps ==
  ASSUME NEW q, NEW e, NEW n \in Nat, NEW st, NEW inb, NEW wk, NEW o, NEW p, NEW a,
         PoolOf(q, e, n, st, inb, wk, o, p, a),
         NEW next, Unchanging(q, e, n, next), NEW h,
         NEW st1, NEW inb1, NEW wk1, NEW o1,
         WorkersAfter(n, st, inb, wk, o, h, next, st1, inb1, wk1, o1)
  PROVE  /\ PoolOf(next.queue, next.entries, n, st1, inb1, wk1, o1, p, a)
         /\ QueueWaits(next.queue, next.entries)
<1>1. /\ next.queue = q /\ next.entries = e /\ next.made = n /\ next.to = 0
      /\ (q = << >> \/ (NoneFree(e) /\ Len(e) = MaxWorkers))
  BY DEF Unchanging
<1>2. /\ st1 \in Seq(WorkerStates) /\ Len(st1) = n
      /\ inb1 = [w \in 1..n |-> inb1[w]] /\ wk1 = [w \in 1..n |-> wk1[w]]
      /\ o1 = [w \in 1..n |-> o1[w]]
      /\ \A w \in 1..n : st1[w] = st[w] /\ wk1[w] = wk[w] /\ o1[w] = o[w] /\ inb1[w] = inb[w]
  BY <1>1 DEF WorkersAfter
<1>3. /\ st \in Seq(WorkerStates) /\ Len(st) = n
      /\ inb \in [1..n -> Seq(Tasks)] /\ wk \in [1..n -> Tasks \cup {NoTask}]
      /\ o \in [1..n -> Seq(Messages)]
  BY DEF PoolOf, WorkersTyped
<1>4. inb1 = inb /\ wk1 = wk /\ o1 = o
  BY <1>2, <1>3
<1>5. st1 = st
  BY <1>2, <1>3, SameSequence
<1> QED
  BY <1>1, <1>4, <1>5 DEF QueueWaits

LEMMA WorkersTypedAfter ==
  ASSUME NEW n \in Nat, NEW st, NEW inb, NEW wk, NEW o, WorkersTyped(n, st, inb, wk, o),
         NEW h \in Tasks, NEW next, next.made \in {n, n + 1},
         NEW st1, NEW inb1, NEW wk1, NEW o1,
         WorkersAfter(n, st, inb, wk, o, h, next, st1, inb1, wk1, o1)
  PROVE  WorkersTyped(next.made, st1, inb1, wk1, o1)
<1> DEFINE m == next.made
<1>1. /\ st1 \in Seq(WorkerStates) /\ Len(st1) = m
      /\ inb1 = [w \in 1..m |-> inb1[w]]
      /\ wk1 = [w \in 1..m |-> wk1[w]]
      /\ o1 = [w \in 1..m |-> o1[w]]
      /\ \A w \in 1..n :
           /\ st1[w] = st[w] /\ wk1[w] = wk[w] /\ o1[w] = o[w]
           /\ inb1[w] = IF w = next.to THEN inb[w] \o <<h>> ELSE inb[w]
      /\ m = n + 1 =>
           /\ st1[n + 1] = "loading" /\ wk1[n + 1] = NoTask /\ o1[n + 1] = << >>
           /\ inb1[n + 1] = IF n + 1 = next.to THEN <<h>> ELSE << >>
  BY DEF WorkersAfter
<1>2. /\ inb \in [1..n -> Seq(Tasks)] /\ wk \in [1..n -> Tasks \cup {NoTask}]
      /\ o \in [1..n -> Seq(Messages)]
  BY DEF WorkersTyped
<1>3. m \in {n, n + 1}
  OBVIOUS
<1> HIDE DEF m
<1>4. \A w \in 1..m : w \in 1..n \/ (w = n + 1 /\ m = n + 1)
  BY <1>3
<1>5. ASSUME NEW w \in 1..m
      PROVE  inb1[w] \in Seq(Tasks) /\ wk1[w] \in Tasks \cup {NoTask} /\ o1[w] \in Seq(Messages)
  <2>1. CASE w \in 1..n
    <3>1. wk1[w] \in Tasks \cup {NoTask} /\ o1[w] \in Seq(Messages)
      BY <1>1, <1>2, <2>1
    <3>2. inb[w] \in Seq(Tasks)
      BY <1>2, <2>1
    <3>3. inb[w] \o <<h>> \in Seq(Tasks)
      BY <3>2
    <3>4. inb1[w] = inb[w] \o <<h>> \/ inb1[w] = inb[w]
      BY <1>1, <2>1
    <3> QED
      BY <3>1, <3>2, <3>3, <3>4
  <2>2. CASE w = n + 1 /\ m = n + 1
    <3>1. wk1[w] = NoTask /\ o1[w] = << >> /\ (inb1[w] = <<h>> \/ inb1[w] = << >>)
      BY <1>1, <2>2
    <3>2. /\ <<h>> \in Seq(Tasks) /\ << >> \in Seq(Tasks) /\ << >> \in Seq(Messages)
          /\ NoTask \in Tasks \cup {NoTask}
      OBVIOUS
    <3> QED
      BY <3>1, <3>2, Zenon
  <2> QED
    BY <1>4, <2>1, <2>2
<1>6. /\ inb1 \in [1..m -> Seq(Tasks)] /\ wk1 \in [1..m -> Tasks \cup {NoTask}]
      /\ o1 \in [1..m -> Seq(Messages)]
  BY <1>1, <1>5
<1> QED
  BY <1>1, <1>6 DEF WorkersTyped, m

LEMMA IdleGetsTask ==
  ASSUME NEW i, NEW w, NEW o, NEW p, PipeOf(NoTask, i, w, o, p),
         NEW t \in Tasks, NEW i1, i1 = i \o <<t>>, NEW p1
  PROVE  PipeOf(t, i1, w, o, p1)
<1>1. i = << >> /\ w = NoTask /\ o = << >>
  BY PoolBounds, Zenon DEF PipeOf, Idle
<1>2. << >> \o <<t>> = <<t>>
  OBVIOUS
<1>3. Waits(t, i1, w, o)
  BY <1>1, <1>2, Zenon DEF Waits
<1> QED
  BY <1>3 DEF PipeOf

Carried(q, e, next, m, st1, inb1, wk1, o1, p, a) ==
  /\ PoolOf(next.queue, next.entries, m, st1, inb1, wk1, o1, p, a)
  /\ QueueWaits(next.queue, next.entries)
  /\ HeldTasks(next.entries) = HeldTasks(e) \cup {Head(q)}

LEMMA GivesFreeKeeps ==
  ASSUME NEW q, NEW e, NEW n \in Nat, NEW st, NEW inb, NEW wk, NEW o, NEW p, NEW a,
         PoolOf(q, e, n, st, inb, wk, o, p, a), OnePlace(q, e),
         NEW next, NEW i \in DOMAIN e, GivesFree(q, e, n, next, i),
         NEW st1, NEW inb1, NEW wk1, NEW o1,
         WorkersAfter(n, st, inb, wk, o, Head(q), next, st1, inb1, wk1, o1)
  PROVE  Carried(q, e, next, n, st1, inb1, wk1, o1, p, a)
<1> DEFINE x == next.entries
           h == Head(q)
           v == e[i].worker
<1>1. /\ q # << >> /\ e[i].task = NoTask /\ next.queue = Tail(q) /\ x = Given(e, i, h)
      /\ next.made = n /\ next.to = v
  BY DEF GivesFree
<1>2. /\ q \in Seq(Tasks) /\ p \in [Tasks -> 0..MaxChunks] /\ a \in [Tasks -> Seq(Messages)]
      /\ WorkersTyped(n, st, inb, wk, o)
      /\ EntriesOf(e, n, st) /\ PipesOf(e, n, inb, wk, o, p) /\ Apart(q, e, a)
  BY DEF PoolOf
<1>3. /\ EntriesOf(x, n, st) /\ Apart(Tail(q), x, a) /\ DOMAIN x = DOMAIN e
      /\ x[i].worker = v /\ x[i].task = h
      /\ \A j \in DOMAIN e : j # i => x[j] = e[j]
      /\ HeldTasks(x) = HeldTasks(e) \cup {h}
  BY <1>1, <1>2, FreeGiven
<1>4. h \in Tasks /\ Tail(q) \in Seq(Tasks)
  BY <1>1, <1>2, QueueFacts, Zenon
<1>5. WorkersTyped(n, st1, inb1, wk1, o1)
  BY <1>1, <1>2, <1>4, WorkersTypedAfter
<1>6. \A w \in 1..n :
        /\ st1[w] = st[w] /\ wk1[w] = wk[w] /\ o1[w] = o[w]
        /\ inb1[w] = IF w = v THEN inb[w] \o <<h>> ELSE inb[w]
  BY <1>1 DEF WorkersAfter
<1>7. \A j \in DOMAIN e : e[j].worker \in 1..n /\ (j # i => e[j].worker # v)
  BY <1>2, EntryFacts, Zenon DEF EntriesOf
<1> HIDE DEF x, h, v
<1>8. \A j \in DOMAIN x : x[j].worker = e[j].worker
  BY <1>3 DEF v
<1>9. EntriesOf(x, n, st1)
  <2>1. \A j \in DOMAIN x : st1[x[j].worker] = st[x[j].worker]
    BY <1>3, <1>6, <1>7, <1>8
  <2> QED
    BY <1>3, <2>1 DEF EntriesOf
<1>10. ASSUME NEW j \in DOMAIN x
       PROVE  PipeOf(x[j].task, inb1[x[j].worker], wk1[x[j].worker], o1[x[j].worker],
                     p[x[j].task])
  <2>1. PipeOf(e[j].task, inb[e[j].worker], wk[e[j].worker], o[e[j].worker], p[e[j].task])
    BY <1>2, <1>3, Zenon DEF PipesOf
  <2>2. CASE j = i
    <3>1. PipeOf(NoTask, inb[v], wk[v], o[v], p[NoTask])
      BY <1>1, <2>1, <2>2, Zenon DEF v
    <3>2. inb1[v] = inb[v] \o <<h>> /\ wk1[v] = wk[v] /\ o1[v] = o[v]
      BY <1>6, <1>7 DEF v
    <3>3. PipeOf(h, inb1[v], wk[v], o[v], p[h])
      BY <1>4, <3>1, <3>2, IdleGetsTask
    <3> QED
      BY <1>3, <2>2, <3>2, <3>3, Zenon
  <2>3. CASE j # i
    <3>1. x[j] = e[j] /\ e[j].worker \in 1..n /\ e[j].worker # v
      BY <1>3, <1>7, <2>3
    <3>2. /\ inb1[e[j].worker] = inb[e[j].worker] /\ wk1[e[j].worker] = wk[e[j].worker]
          /\ o1[e[j].worker] = o[e[j].worker]
      BY <1>6, <3>1
    <3> QED
      BY <2>1, <3>1, <3>2, Zenon
  <2> QED
    BY <2>2, <2>3
<1>11. ASSUME NEW w \in 1..n, \A j \in DOMAIN x : x[j].worker # w
       PROVE  Idle(inb1[w], wk1[w], o1[w])
  <2>1. w # v /\ \A j \in DOMAIN e : e[j].worker # w
    BY <1>3, <1>8, <1>11
  <2>2. Idle(inb[w], wk[w], o[w])
    BY <1>2, <2>1, Zenon DEF PipesOf
  <2>3. inb1[w] = inb[w] /\ wk1[w] = wk[w] /\ o1[w] = o[w]
    BY <1>6, <2>1
  <2> QED
    BY <2>2, <2>3, Zenon
<1>12. PipesOf(x, n, inb1, wk1, o1, p)
  BY <1>10, <1>11, Zenon DEF PipesOf
<1>13. QueueWaits(Tail(q), x)
  <2>1. ASSUME Tail(q) # << >> PROVE NoneFree(x) /\ Len(x) = MaxWorkers
    <3>1. Len(q) # 1
      BY <1>1, <1>2, <2>1, QueueFacts
    <3>2. /\ Len(e) = MaxWorkers
          /\ \A k, j \in DOMAIN e : e[k].task = NoTask /\ e[j].task = NoTask => k = j
      BY <1>1, <3>1, Zenon DEF OnePlace
    <3>3. h # NoTask
      BY <1>4, PoolBounds, Zenon
    <3>4. NoneFree(x)
      BY <1>1, <1>3, <3>2, <3>3 DEF NoneFree
    <3>5. Len(x) = Len(e)
      BY <1>2, <1>3 DEF EntriesOf
    <3> QED
      BY <3>2, <3>4, <3>5
  <2> QED
    BY <2>1 DEF QueueWaits
<1>14. PoolOf(Tail(q), x, n, st1, inb1, wk1, o1, p, a)
  BY <1>2, <1>3, <1>4, <1>5, <1>9, <1>12, Zenon DEF PoolOf
<1> QED
  BY <1>1, <1>3, <1>13, <1>14, Zenon DEF x, h, Carried

LEMMA GivesNewKeeps ==
  ASSUME NEW q, NEW e, NEW n \in Nat, NEW st, NEW inb, NEW wk, NEW o, NEW p, NEW a,
         PoolOf(q, e, n, st, inb, wk, o, p, a), OnePlace(q, e),
         NEW next, GivesNew(q, e, n, next),
         NEW st1, NEW inb1, NEW wk1, NEW o1,
         WorkersAfter(n, st, inb, wk, o, Head(q), next, st1, inb1, wk1, o1)
  PROVE  Carried(q, e, next, n + 1, st1, inb1, wk1, o1, p, a)
<1> DEFINE x == next.entries
           h == Head(q)
           m == n + 1
           l == Len(e) + 1
<1>1. /\ q # << >> /\ NoneFree(e) /\ Len(e) < MaxWorkers /\ next.queue = Tail(q)
      /\ next.made = m /\ next.to = m /\ x = Append(e, [worker |-> m, task |-> h])
  BY DEF GivesNew
<1>2. /\ q \in Seq(Tasks) /\ p \in [Tasks -> 0..MaxChunks] /\ a \in [Tasks -> Seq(Messages)]
      /\ WorkersTyped(n, st, inb, wk, o)
      /\ EntriesOf(e, n, st) /\ PipesOf(e, n, inb, wk, o, p) /\ Apart(q, e, a)
  BY DEF PoolOf
<1>3. h \in Tasks /\ Tail(q) \in Seq(Tasks) /\ h # NoTask
  BY <1>1, <1>2, QueueFacts, PoolBounds, Zenon
<1>4. WorkersTyped(m, st1, inb1, wk1, o1)
  <2>1. next.made \in {n, n + 1}
    BY <1>1
  <2> QED
    BY <1>1, <1>2, <1>3, <2>1, WorkersTypedAfter
<1>5. /\ \A w \in 1..n : st1[w] = st[w] /\ wk1[w] = wk[w] /\ o1[w] = o[w]
      /\ \A w \in 1..n : inb1[w] = inb[w]
      /\ st1[m] = "loading" /\ wk1[m] = NoTask /\ o1[m] = << >> /\ inb1[m] = <<h>>
  <2>1. \A w \in 1..n : w # m
    OBVIOUS
  <2> QED
    BY <1>1, <2>1 DEF WorkersAfter
<1>6. /\ \A j, k \in DOMAIN Tail(q) : Tail(q)[j] = Tail(q)[k] => j = k
      /\ \A j \in DOMAIN Tail(q) :
           /\ a[Tail(q)[j]] = << >> /\ Tail(q)[j] # h
           /\ \A k \in DOMAIN e : e[k].task # Tail(q)[j]
      /\ a[h] = << >> /\ \A k \in DOMAIN e : e[k].task # h
  BY <1>1, <1>2, HeadLeaves
<1>7. /\ EntriesOf(x, m, st1) /\ DOMAIN x = DOMAIN e \cup {l}
      /\ x[l].worker = m /\ x[l].task = h /\ l \notin DOMAIN e
      /\ \A j \in DOMAIN e : x[j] = e[j] /\ e[j].worker \in 1..n
      /\ HeldTasks(x) = (HeldTasks(e) \cup {h}) \ {NoTask}
  <2>1. h \in Tasks \cup {NoTask} /\ NotHeld(e, h)
    BY <1>3, <1>6 DEF NotHeld
  <2>2. Joins(n, st, st1)
    BY <1>5 DEF Joins
  <2>3. EntriesOf(e, n, st) /\ Len(e) < MaxWorkers
    BY <1>1, <1>2
  <2>4. x = NewOf(e, n, h)
    BY <1>1 DEF NewOf
  <2>5. EntriesOf(NewOf(e, n, h), n + 1, st1)
    BY <2>1, <2>2, <2>3, NewGiven
  <2>6. HasOneMore(NewOf(e, n, h), e, n, h)
    BY <2>3, NewEntry, Zenon DEF EntriesOf
  <2> QED
    BY <2>4, <2>5, <2>6, Zenon DEF HasOneMore
<1>8. HeldTasks(x) = HeldTasks(e) \cup {h}
  BY <1>3, <1>7 DEF HeldTasks
<1> HIDE DEF x, h, l
<1>9. Apart(Tail(q), x, a)
  <2>1. \A j \in DOMAIN Tail(q) :
          a[Tail(q)[j]] = << >> /\ \A k \in DOMAIN x : x[k].task # Tail(q)[j]
    BY <1>6, <1>7
  <2>2. /\ \A k \in DOMAIN e : e[k].task # NoTask => a[e[k].task] = << >>
        /\ \A t \in Tasks : \A k \in DOMAIN a[t] : a[t][k].task = t
    BY <1>2 DEF Apart
  <2>3. \A k \in DOMAIN x : x[k].task # NoTask => a[x[k].task] = << >>
    BY <1>6, <1>7, <2>2
  <2> QED
    BY <1>6, <2>1, <2>2, <2>3 DEF Apart
<1>10. ASSUME NEW j \in DOMAIN x
       PROVE  PipeOf(x[j].task, inb1[x[j].worker], wk1[x[j].worker], o1[x[j].worker],
                     p[x[j].task])
  <2>1. CASE j = l
    <3>1. Waits(h, inb1[m], wk1[m], o1[m])
      BY <1>5, Zenon DEF Waits
    <3> QED
      BY <1>3, <1>7, <2>1, <3>1, Zenon DEF PipeOf
  <2>2. CASE j \in DOMAIN e
    <3>1. PipeOf(e[j].task, inb[e[j].worker], wk[e[j].worker], o[e[j].worker], p[e[j].task])
      BY <1>2, <2>2, Zenon DEF PipesOf
    <3>2. x[j] = e[j] /\ e[j].worker \in 1..n
      BY <1>7, <2>2
    <3>3. /\ inb1[e[j].worker] = inb[e[j].worker] /\ wk1[e[j].worker] = wk[e[j].worker]
          /\ o1[e[j].worker] = o[e[j].worker]
      BY <1>5, <3>2
    <3> QED
      BY <3>1, <3>2, <3>3, Zenon
  <2> QED
    BY <1>7, <2>1, <2>2
<1>11. ASSUME NEW w \in 1..m, \A j \in DOMAIN x : x[j].worker # w
       PROVE  Idle(inb1[w], wk1[w], o1[w])
  <2>1. w # m /\ \A j \in DOMAIN e : e[j].worker # w
    BY <1>7, <1>11
  <2>2. w \in 1..n
    BY <2>1
  <2>3. Idle(inb[w], wk[w], o[w])
    BY <1>2, <2>1, <2>2, Zenon DEF PipesOf
  <2>4. inb1[w] = inb[w] /\ wk1[w] = wk[w] /\ o1[w] = o[w]
    BY <1>5, <2>2
  <2> QED
    BY <2>3, <2>4, Zenon
<1>12. PipesOf(x, m, inb1, wk1, o1, p)
  BY <1>10, <1>11, Zenon DEF PipesOf
<1>13. QueueWaits(Tail(q), x)
  <2>1. ASSUME Tail(q) # << >> PROVE FALSE
    <3>1. Len(q) # 1
      BY <1>1, <1>2, <2>1, QueueFacts
    <3>2. Len(e) = MaxWorkers
      BY <1>1, <3>1, Zenon DEF OnePlace
    <3>3. Len(e) \in Nat
      BY <1>2, EntryFacts, Zenon DEF EntriesOf
    <3> QED
      BY <1>1, <3>2, <3>3
  <2> QED
    BY <2>1 DEF QueueWaits
<1>14. PoolOf(Tail(q), x, m, st1, inb1, wk1, o1, p, a)
  BY <1>2, <1>3, <1>4, <1>7, <1>9, <1>12, Zenon DEF PoolOf
<1> QED
  BY <1>1, <1>8, <1>13, <1>14, Zenon DEF x, h, Carried

(***************************************************************************)
(* Posting: the head of the queue is held too when there was a place.      *)
Full(e) == NoneFree(e) /\ Len(e) = MaxWorkers

GoesOn(q, e, q1, e1) ==
  IF q = << >> \/ Full(e)
  THEN q1 = q /\ HeldTasks(e1) = HeldTasks(e)
  ELSE q1 = Tail(q) /\ HeldTasks(e1) = HeldTasks(e) \cup {Head(q)}

LEMMA Posting ==
  ASSUME NEW q, NEW e, NEW n \in Nat, NEW st, NEW inb, NEW wk, NEW o, NEW p, NEW a,
         PoolOf(q, e, n, st, inb, wk, o, p, a), OnePlace(q, e),
         NEW next, next = Formatter!processNextTask(q, e, n),
         NEW st1, NEW inb1, NEW wk1, NEW o1,
         WorkersAfter(n, st, inb, wk, o, Head(q), next, st1, inb1, wk1, o1)
  PROVE  /\ PoolOf(next.queue, next.entries, next.made, st1, inb1, wk1, o1, p, a)
         /\ QueueWaits(next.queue, next.entries)
         /\ GoesOn(q, e, next.queue, next.entries)
<1>1. EntriesOf(e, n, st)
  BY Zenon DEF PoolOf
<1>2. \/ Unchanging(q, e, n, next)
      \/ \E i \in DOMAIN e : GivesFree(q, e, n, next, i)
      \/ GivesNew(q, e, n, next)
  BY <1>1, NextTask
<1>3. CASE Unchanging(q, e, n, next)
  <2>1. /\ PoolOf(next.queue, next.entries, n, st1, inb1, wk1, o1, p, a)
        /\ QueueWaits(next.queue, next.entries)
    BY <1>3, UnchangingKeeps, Zenon
  <2>2. /\ next.made = n /\ next.queue = q /\ next.entries = e
        /\ (q = << >> \/ (NoneFree(e) /\ Len(e) = MaxWorkers))
    BY <1>3, Zenon DEF Unchanging
  <2>3. GoesOn(q, e, next.queue, next.entries)
    BY <2>2, Zenon DEF GoesOn, Full
  <2> QED
    BY <2>1, <2>2, <2>3
<1>4. ASSUME NEW i \in DOMAIN e, GivesFree(q, e, n, next, i)
      PROVE  /\ PoolOf(next.queue, next.entries, next.made, st1, inb1, wk1, o1, p, a)
             /\ QueueWaits(next.queue, next.entries)
             /\ GoesOn(q, e, next.queue, next.entries)
  <2>1. /\ PoolOf(next.queue, next.entries, n, st1, inb1, wk1, o1, p, a)
        /\ QueueWaits(next.queue, next.entries)
        /\ HeldTasks(next.entries) = HeldTasks(e) \cup {Head(q)}
    <3>1. Carried(q, e, next, n, st1, inb1, wk1, o1, p, a)
      BY <1>4, GivesFreeKeeps, Zenon
    <3> QED
      BY <3>1, Zenon DEF Carried
  <2>2. next.made = n /\ q # << >> /\ ~NoneFree(e) /\ next.queue = Tail(q)
    BY <1>4, Zenon DEF GivesFree, NoneFree
  <2>3. GoesOn(q, e, next.queue, next.entries)
    BY <2>1, <2>2, Zenon DEF GoesOn, Full
  <2> QED
    BY <2>1, <2>2, <2>3
<1>5. CASE GivesNew(q, e, n, next)
  <2>1. /\ PoolOf(next.queue, next.entries, n + 1, st1, inb1, wk1, o1, p, a)
        /\ QueueWaits(next.queue, next.entries)
        /\ HeldTasks(next.entries) = HeldTasks(e) \cup {Head(q)}
    <3>1. Carried(q, e, next, n + 1, st1, inb1, wk1, o1, p, a)
      BY <1>5, GivesNewKeeps, Zenon
    <3> QED
      BY <3>1, Zenon DEF Carried
  <2>2. next.made = n + 1 /\ q # << >> /\ Len(e) < MaxWorkers /\ next.queue = Tail(q)
    BY <1>5, Zenon DEF GivesNew
  <2>3. Len(e) # MaxWorkers
    <3>1. Len(e) \in Nat
      BY <1>1, EntryFacts, Zenon DEF EntriesOf
    <3> QED
      BY <2>2, <3>1, PoolBounds
  <2>4. GoesOn(q, e, next.queue, next.entries)
    BY <2>1, <2>2, <2>3, Zenon DEF GoesOn, Full
  <2> QED
    BY <2>1, <2>2, <2>4
<1> QED
  BY <1>2, <1>3, <1>4, <1>5

LEMMA MadeIs ==
  ASSUME NEW q, NEW e, NEW n \in Nat, NEW st, EntriesOf(e, n, st), NEW next,
         next = Formatter!processNextTask(q, e, n)
  PROVE  next.made = n \/ next.made = n + 1
<1>1. \/ Unchanging(q, e, n, next)
      \/ \E i \in DOMAIN e : GivesFree(q, e, n, next, i)
      \/ GivesNew(q, e, n, next)
  BY NextTask
<1> QED
  BY <1>1, Zenon DEF Unchanging, GivesFree, GivesNew

PoolInv ==
  /\ PoolOf(taskQueue, workerTasks, Len(workers), workers, inbox, work, outbox, parts, answers)
  /\ QueueWaits(taskQueue, workerTasks)
  /\ errors \in 0..MaxErrors

LEMMA FunctionIsSequence ==
  ASSUME NEW S, NEW n \in Nat, NEW f \in [1..n -> S]
  PROVE  f \in Seq(S) /\ Len(f) = n
OBVIOUS

(* What the action posts, worker by worker.                                *)
PostedIs(q, next) ==
  /\ taskQueue' = next.queue /\ workerTasks' = next.entries /\ Len(inbox') = next.made
  /\ inbox' = [w \in 1..next.made |-> inbox'[w]]
  /\ work' = [w \in 1..next.made |-> work'[w]]
  /\ \A w \in 1..next.made :
       /\ inbox'[w] = (IF w <= Len(workers) THEN inbox[w] ELSE << >>)
                        \o (IF w = next.to THEN <<Head(q)>> ELSE << >>)
       /\ work'[w] = IF w <= Len(workers) THEN work[w] ELSE NoTask

LEMMA PostedWorkers ==
  ASSUME PoolInv, NEW q, NEW e, NEW m, m \in {Len(workers), Len(workers) + 1},
         Formatter!Posted(q, e, m),
         NEW next, next = Formatter!processNextTask(q, e, m), next.made \in {m, m + 1}
  PROVE  PostedIs(q, next)
<1> DEFINE n == Len(workers)
<1>1. n \in Nat /\ inbox \in [1..n -> Seq(Tasks)] /\ work \in [1..n -> Tasks \cup {NoTask}]
  BY DEF PoolInv, PoolOf, WorkersTyped
<1> HIDE DEF n
<1>2. DOMAIN inbox = 1..n /\ DOMAIN work = 1..n
  BY <1>1
<1>3. /\ taskQueue' = next.queue /\ workerTasks' = next.entries
      /\ inbox' = [w \in 1..next.made |->
                     (IF w \in DOMAIN inbox THEN inbox[w] ELSE << >>)
                       \o (IF w = next.to THEN <<Head(q)>> ELSE << >>)]
      /\ work' = [w \in 1..next.made |-> IF w \in DOMAIN work THEN work[w] ELSE NoTask]
  BY DEF Formatter!Posted, NoTask
<1>4. next.made \in Nat
  BY <1>1 DEF n
<1>5. \A w \in 1..next.made : w \in 1..n <=> w <= n
  BY <1>1, <1>4
<1>6. Len(inbox') = next.made
  <2> DEFINE S == {inbox'[w] : w \in 1..next.made}
  <2>1. inbox' \in [1..next.made -> S]
    BY <1>3
  <2> HIDE DEF S
  <2> QED
    BY <1>4, <2>1, FunctionIsSequence
<1>7. ASSUME NEW w \in 1..next.made
      PROVE  /\ inbox'[w] = (IF w <= n THEN inbox[w] ELSE << >>)
                               \o (IF w = next.to THEN <<Head(q)>> ELSE << >>)
             /\ work'[w] = IF w <= n THEN work[w] ELSE NoTask
  <2>1. (w \in DOMAIN inbox <=> w <= n) /\ (w \in DOMAIN work <=> w <= n)
    BY <1>2, <1>5
  <2>2. /\ inbox'[w] = (IF w \in DOMAIN inbox THEN inbox[w] ELSE << >>)
                       \o (IF w = next.to THEN <<Head(q)>> ELSE << >>)
        /\ work'[w] = IF w \in DOMAIN work THEN work[w] ELSE NoTask
    BY <1>3, Zenon
  <2> QED
    BY <2>1, <2>2, Zenon
<1>8. inbox' = [w \in 1..next.made |-> inbox'[w]] /\ work' = [w \in 1..next.made |-> work'[w]]
  BY <1>3
<1> QED
  BY <1>3, <1>6, <1>7, <1>8, Zenon DEF n, PostedIs

(***************************************************************************)
(* There is a place exactly if fewer than MAX_WORKERS tasks are held.      *)
LEMMA PlacesCount ==
  ASSUME NEW e, NEW n \in Nat, NEW st, EntriesOf(e, n, st)
  PROVE  Cardinality(HeldTasks(e)) < MaxWorkers <=> ~Full(e)
<1> DEFINE N == {i \in DOMAIN e : e[i].task # NoTask}
           H == HeldTasks(e)
           f == [i \in N |-> e[i].task]
<1>1. /\ DOMAIN e = 1..Len(e) /\ Len(e) \in Nat /\ Len(e) <= MaxWorkers
      /\ \A i, j \in DOMAIN e : e[i].task = e[j].task /\ e[i].task # NoTask => i = j
  BY EntryFacts DEF EntriesOf
<1>2. H = {e[i].task : i \in N}
  BY DEF HeldTasks
<1>3. /\ N \subseteq DOMAIN e /\ \A i \in N : e[i].task # NoTask
      /\ NoneFree(e) <=> N = DOMAIN e
  BY DEF NoneFree
<1> HIDE DEF N, H
<1>4. f \in [N -> H] /\ (\A a, b \in N : f[a] = f[b] => a = b) /\ \A t \in H : \E s \in N : f[s] = t
  BY <1>1, <1>2, <1>3
<1> HIDE DEF f
<1>5. f \in Bijection(N, H)
  BY <1>4, Fun_IsBij
<1>6. IsFiniteSet(1..Len(e)) /\ Cardinality(1..Len(e)) = Len(e)
  <2>1. 1 \in Int /\ Len(e) \in Int
    BY <1>1
  <2>2. /\ IsFiniteSet(1..Len(e))
        /\ Cardinality(1..Len(e)) = IF 1 > Len(e) THEN 0 ELSE Len(e) - 1 + 1
    BY <2>1, FS_Interval
  <2> QED
    BY <1>1, <2>2
<1>7. /\ IsFiniteSet(N) /\ Cardinality(N) <= Len(e)
      /\ Cardinality(N) = Len(e) => N = DOMAIN e
  <2>1. N \in SUBSET (1..Len(e))
    BY <1>1, <1>3
  <2>2. /\ IsFiniteSet(N) /\ Cardinality(N) <= Cardinality(1..Len(e))
        /\ Cardinality(1..Len(e)) = Cardinality(N) => 1..Len(e) = N
    BY <1>6, <2>1, FS_Subset
  <2> QED
    BY <1>1, <1>6, <2>2
<1>8. Cardinality(H) = Cardinality(N) /\ Cardinality(N) \in Nat
  <2>1. ExistsBijection(N, H)
    BY <1>5 DEF ExistsBijection
  <2> QED
    BY <1>7, <2>1, FS_Bijection, FS_CardinalityType
<1>9. Full(e) <=> NoneFree(e) /\ Len(e) = MaxWorkers
  BY Zenon DEF Full
<1>10. MaxWorkers \in Nat
  BY PoolBounds, Zenon
<1>11. CASE Full(e)
  <2>1. N = 1..Len(e) /\ Len(e) = MaxWorkers
    BY <1>1, <1>3, <1>9, <1>11
  <2>2. Cardinality(H) = MaxWorkers
    BY <1>6, <1>8, <2>1
  <2>3. ~(MaxWorkers < MaxWorkers)
    BY <1>10
  <2> QED
    BY <1>11, <2>2, <2>3, Zenon DEF H
<1>12. CASE ~Full(e)
  <2>1. \A a, b, c \in Nat : a <= b /\ b <= c /\ ~(a = b /\ b = c) => a < c
    OBVIOUS
  <2>2. ~(Cardinality(N) = Len(e) /\ Len(e) = MaxWorkers)
    BY <1>3, <1>7, <1>9, <1>12, Zenon
  <2>3. Cardinality(N) < MaxWorkers
    BY <1>1, <1>7, <1>8, <1>10, <2>1, <2>2, Zenon
  <2> QED
    BY <1>8, <1>12, <2>3, Zenon DEF H
<1> QED
  BY <1>11, <1>12

(* The states and outboxes of the workers after an action, some of which   *)
(* were terminated.                                                        *)
LEMMA LoadingIs ==
  ASSUME PoolInv, NEW m \in Nat, NEW T, T \subseteq 1..Len(workers)
  PROVE  /\ Formatter!Loading(m, T) \in Seq(WorkerStates) /\ Len(Formatter!Loading(m, T)) = m
         /\ \A w \in 1..m :
              Formatter!Loading(m, T)[w] = IF w \in T THEN "terminated"
                                           ELSE IF w <= Len(workers) THEN workers[w] ELSE "loading"
<1> DEFINE n == Len(workers)
           f == Formatter!Loading(m, T)
<1>1. n \in Nat /\ workers \in Seq(WorkerStates)
  BY DEF PoolInv, PoolOf, WorkersTyped
<1>2. DOMAIN workers = 1..n /\ \A w \in 1..n : workers[w] \in WorkerStates
  BY <1>1
<1>3. f = [w \in 1..m |-> CASE w \in T -> "terminated"
                            [] w \notin DOMAIN workers -> "loading"
                            [] OTHER -> workers[w]]
  BY DEF Formatter!Loading, Formatter!Workers
<1> HIDE DEF f, n
<1>4. \A w \in 1..m : w \in 1..n <=> w <= n
  BY <1>1
<1>5. T \subseteq 1..n
  BY DEF n
<1>6. ASSUME NEW w \in 1..m
      PROVE  /\ f[w] = IF w \in T THEN "terminated"
                       ELSE IF w <= n THEN workers[w] ELSE "loading"
             /\ f[w] \in WorkerStates
  <2>1. f[w] = CASE w \in T -> "terminated"
                 [] w \notin DOMAIN workers -> "loading"
                 [] OTHER -> workers[w]
    BY <1>3
  <2>2. CASE w \in T
    <3>1. w \in DOMAIN workers
      BY <1>2, <1>5, <2>2
    <3>2. f[w] = "terminated"
      BY <2>1, <2>2, <3>1
    <3> QED
      BY <2>2, <3>2 DEF WorkerStates
  <2>3. CASE w \notin T /\ w \notin DOMAIN workers
    <3>1. f[w] = "loading"
      BY <2>1, <2>3
    <3> QED
      BY <1>2, <1>4, <2>3, <3>1 DEF WorkerStates
  <2>4. CASE w \notin T /\ w \in DOMAIN workers
    <3>1. f[w] = workers[w]
      BY <2>1, <2>4
    <3> QED
      BY <1>2, <1>4, <2>4, <3>1
  <2> QED
    BY <2>2, <2>3, <2>4
<1>7. f \in [1..m -> WorkerStates]
  BY <1>3, <1>6
<1> QED
  BY <1>6, <1>7, FunctionIsSequence DEF f, n

LEMMA OutboxesAre ==
  ASSUME PoolInv, NEW m \in Nat, NEW T
  PROVE  /\ Formatter!Outboxes(m, T) = [w \in 1..m |-> Formatter!Outboxes(m, T)[w]]
         /\ \A w \in 1..m :
              Formatter!Outboxes(m, T)[w] =
                IF w <= Len(workers) /\ w \notin T THEN outbox[w] ELSE << >>
<1>1. Len(workers) \in Nat /\ workers \in Seq(WorkerStates)
  BY DEF PoolInv, PoolOf, WorkersTyped
<1>2. /\ DOMAIN workers = 1..Len(workers)
      /\ \A w \in 1..m : w \in 1..Len(workers) <=> w <= Len(workers)
  BY <1>1
<1>3. Formatter!Outboxes(m, T) =
        [w \in 1..m |-> IF w \notin DOMAIN workers \/ w \in T THEN << >> ELSE outbox[w]]
  BY DEF Formatter!Outboxes, Formatter!Workers
<1> QED
  BY <1>2, <1>3

(***************************************************************************)
(* The actions that post.  What they are for the abstract pool: a task is  *)
(* handed in, or it is over.                                               *)
HandedIn(t) ==
  /\ \A i \in DOMAIN taskQueue : taskQueue[i] # t
  /\ t \notin HeldTasks(workerTasks) /\ answers[t] = << >>
  /\ IF Full(workerTasks)
     THEN taskQueue' = Append(taskQueue, t) /\ HeldTasks(workerTasks') = HeldTasks(workerTasks)
     ELSE taskQueue' = taskQueue /\ HeldTasks(workerTasks') = HeldTasks(workerTasks) \cup {t}
  /\ UNCHANGED <<answers, parts>>

IsOver(t) ==
  /\ t \in HeldTasks(workerTasks) /\ answers[t] = << >>
  /\ IF taskQueue = << >>
     THEN taskQueue' = << >> /\ HeldTasks(workerTasks') = HeldTasks(workerTasks) \ {t}
     ELSE /\ taskQueue' = Tail(taskQueue)
          /\ HeldTasks(workerTasks') = (HeldTasks(workerTasks) \ {t}) \cup {Head(taskQueue)}
  /\ UNCHANGED parts
  /\ \A s \in Tasks : answers'[s] # << >> <=> answers[s] # << >> \/ s = t
  /\ \A s \in Tasks : s # t => answers'[s] = answers[s]

LEMMA PoolFacts ==
  ASSUME PoolInv
  PROVE  /\ Len(workers) \in Nat /\ workers \in Seq(WorkerStates)
         /\ Formatter!Workers = 1..Len(workers)
         /\ taskQueue \in Seq(Tasks) /\ parts \in [Tasks -> 0..MaxChunks]
         /\ answers \in [Tasks -> Seq(Messages)]
         /\ inbox \in [1..Len(workers) -> Seq(Tasks)]
         /\ work \in [1..Len(workers) -> Tasks \cup {NoTask}]
         /\ outbox \in [1..Len(workers) -> Seq(Messages)]
         /\ EntriesOf(workerTasks, Len(workers), workers)
         /\ PipesOf(workerTasks, Len(workers), inbox, work, outbox, parts)
         /\ Apart(taskQueue, workerTasks, answers)
         /\ WorkersTyped(Len(workers), workers, inbox, work, outbox)
         /\ QueueWaits(taskQueue, workerTasks)
<1>1. /\ Len(workers) \in Nat /\ workers \in Seq(WorkerStates) /\ DOMAIN workers = 1..Len(workers)
  BY DEF PoolInv, PoolOf, WorkersTyped
<1>2. Formatter!Workers = 1..Len(workers)
  BY <1>1 DEF Formatter!Workers
<1> QED
  BY <1>1, <1>2, Zenon DEF PoolInv, PoolOf, WorkersTyped

(* The workers of whom m are there just before the posting, T terminated,  *)
(* and what becomes of them.                                               *)
Before(m, T, st0, inb0, wk0, o0) ==
  /\ T \subseteq 1..Len(workers) /\ workers' = Formatter!Loading(Len(inbox'), T)
  /\ outbox' = [w \in 1..Len(inbox') |-> IF w <= m THEN o0[w] ELSE << >>]
  /\ \A w \in 1..m :
       /\ st0[w] = IF w \in T THEN "terminated"
                   ELSE IF w <= Len(workers) THEN workers[w] ELSE "loading"
       /\ inb0[w] = IF w <= Len(workers) THEN inbox[w] ELSE << >>
       /\ wk0[w] = IF w <= Len(workers) THEN work[w] ELSE NoTask

(* When what is posted is known, the invariant holds for what is there     *)
(* after the action if it does for the workers just before the posting.    *)
LEMMA PostedInv ==
  ASSUME PoolInv, NEW q, NEW e, NEW st0, NEW inb0, NEW wk0, NEW o0, NEW m,
         m \in {Len(workers), Len(workers) + 1}, Formatter!Posted(q, e, m),
         PoolOf(q, e, m, st0, inb0, wk0, o0, parts', answers'), OnePlace(q, e),
         NEW T, Before(m, T, st0, inb0, wk0, o0), errors' \in 0..MaxErrors
  PROVE  PoolInv' /\ GoesOn(q, e, taskQueue', workerTasks')
<1> DEFINE n == Len(workers)
           h == Head(q)
<1>1. /\ T \subseteq 1..n /\ workers' = Formatter!Loading(Len(inbox'), T)
      /\ outbox' = [w \in 1..Len(inbox') |-> IF w <= m THEN o0[w] ELSE << >>]
      /\ \A w \in 1..m :
           /\ st0[w] = IF w \in T THEN "terminated"
                       ELSE IF w <= n THEN workers[w] ELSE "loading"
           /\ inb0[w] = IF w <= n THEN inbox[w] ELSE << >>
           /\ wk0[w] = IF w <= n THEN work[w] ELSE NoTask
  BY Zenon DEF Before
<1>2. PICK next : next = Formatter!processNextTask(q, e, m)
  OBVIOUS
<1>3. n \in Nat /\ m \in Nat /\ m >= n /\ inbox \in [1..n -> Seq(Tasks)]
  <2>1. n \in Nat /\ inbox \in [1..n -> Seq(Tasks)]
    BY PoolFacts
  <2> QED
    BY <2>1
<1>4. next.made = m \/ next.made = m + 1
  BY <1>2, <1>3, MadeIs DEF PoolOf
<1>5. next.made \in {m, m + 1} /\ next.made \in Nat /\ next.made >= m
  BY <1>3, <1>4
<1>6. /\ taskQueue' = next.queue /\ workerTasks' = next.entries /\ Len(inbox') = next.made
      /\ inbox' = [w \in 1..next.made |-> inbox'[w]]
      /\ work' = [w \in 1..next.made |-> work'[w]]
      /\ \A w \in 1..next.made :
           /\ inbox'[w] = (IF w <= n THEN inbox[w] ELSE << >>)
                            \o (IF w = next.to THEN <<h>> ELSE << >>)
           /\ work'[w] = IF w <= n THEN work[w] ELSE NoTask
  <2>1. PostedIs(q, next)
    BY <1>2, <1>5, PostedWorkers, Zenon
  <2> QED
    BY <2>1, Zenon DEF PostedIs
<1>7. /\ workers' \in Seq(WorkerStates) /\ Len(workers') = next.made
      /\ \A w \in 1..next.made :
           workers'[w] = IF w \in T THEN "terminated"
                         ELSE IF w <= n THEN workers[w] ELSE "loading"
  BY <1>1, <1>5, <1>6, LoadingIs
<1>8. /\ outbox' = [w \in 1..next.made |-> outbox'[w]]
      /\ \A w \in 1..next.made : outbox'[w] = IF w <= m THEN o0[w] ELSE << >>
  BY <1>1, <1>6
<1>9. ASSUME NEW w \in 1..m
      PROVE  /\ workers'[w] = st0[w] /\ work'[w] = wk0[w] /\ outbox'[w] = o0[w]
             /\ inbox'[w] = IF w = next.to THEN inb0[w] \o <<h>> ELSE inb0[w]
  <2>1. w \in 1..next.made /\ w <= m
    BY <1>3, <1>5
  <2>2. workers'[w] = st0[w] /\ work'[w] = wk0[w] /\ outbox'[w] = o0[w]
    BY <1>1, <1>6, <1>7, <1>8, <2>1
  <2>3. inb0[w] = (IF w <= n THEN inbox[w] ELSE << >>) /\ inb0[w] \in Seq(Tasks)
    <3>1. w <= n => inbox[w] \in Seq(Tasks)
      BY <1>3, <2>1
    <3>2. << >> \in Seq(Tasks)
      OBVIOUS
    <3> QED
      BY <1>1, <3>1, <3>2
  <2>4. inbox'[w] = inb0[w] \o (IF w = next.to THEN <<h>> ELSE << >>)
    BY <1>6, <2>1, <2>3
  <2>5. inb0[w] \o << >> = inb0[w]
    BY <2>3
  <2> QED
    BY <2>2, <2>4, <2>5
<1>10. ASSUME next.made = m + 1
      PROVE  /\ workers'[m + 1] = "loading" /\ work'[m + 1] = NoTask /\ outbox'[m + 1] = << >>
             /\ inbox'[m + 1] = IF m + 1 = next.to THEN <<h>> ELSE << >>
  <2>1. m + 1 \in 1..next.made /\ ~(m + 1 <= n) /\ ~(m + 1 <= m) /\ m + 1 \notin T
    BY <1>1, <1>3, <1>5, <1>10
  <2>2. << >> \o <<h>> = <<h>> /\ << >> \o << >> = << >>
    OBVIOUS
  <2>3. inbox'[m + 1] = << >> \o (IF m + 1 = next.to THEN <<h>> ELSE << >>)
    BY <1>6, <2>1
  <2>4. workers'[m + 1] = "loading" /\ work'[m + 1] = NoTask /\ outbox'[m + 1] = << >>
    BY <1>6, <1>7, <1>8, <2>1
  <2> QED
    BY <2>2, <2>3, <2>4
<1>11. WorkersAfter(m, st0, inb0, wk0, o0, h, next, workers', inbox', work', outbox')
  BY <1>6, <1>7, <1>8, <1>9, <1>10 DEF WorkersAfter
<1>12. /\ PoolOf(next.queue, next.entries, next.made, workers', inbox', work', outbox',
                 parts', answers')
       /\ QueueWaits(next.queue, next.entries)
       /\ GoesOn(q, e, next.queue, next.entries)
  BY <1>2, <1>3, <1>11, Posting
<1> QED
  BY <1>6, <1>7, <1>12 DEF PoolInv

LEMMA PostedLength ==
  ASSUME PoolInv, NEW q, NEW e, NEW m, m \in {Len(workers), Len(workers) + 1},
         Formatter!Posted(q, e, m), NEW st, EntriesOf(e, m, st)
  PROVE  Len(inbox') \in Nat /\ Len(inbox') >= m
<1>1. PICK next : next = Formatter!processNextTask(q, e, m)
  OBVIOUS
<1>2. m \in Nat
  BY PoolFacts
<1>3. next.made = m \/ next.made = m + 1
  BY <1>1, <1>2, MadeIs
<1>4. PostedIs(q, next)
  <2>1. next.made \in {m, m + 1}
    BY <1>3
  <2> QED
    BY <1>1, <2>1, PostedWorkers, Zenon
<1>5. Len(inbox') = next.made
  BY <1>4, Zenon DEF PostedIs
<1> QED
  BY <1>2, <1>3, <1>5

SameBut(x, e, i) ==
  DOMAIN x = DOMAIN e /\ Len(x) = Len(e) /\ \A j \in DOMAIN e : j # i => x[j] = e[j]

LEMMA PlaceIsOne ==
  ASSUME NEW q, NEW e, QueueWaits(q, e), NEW i \in DOMAIN e, NEW x, SameBut(x, e, i)
  PROVE  OnePlace(q, x)
<1>1. q # << >> => Len(e) = MaxWorkers /\ \A j \in DOMAIN e : e[j].task # NoTask
  BY DEF QueueWaits, NoneFree
<1> QED
  BY <1>1 DEF OnePlace, SameBut

LEMMA RunTaskInv ==
  ASSUME PoolInv, NEW t \in Tasks, Formatter!runTask(t)
  PROVE  PoolInv' /\ HandedIn(t)
<1> DEFINE q == Append(taskQueue, t)
           e == workerTasks
           n == Len(workers)
<1>1. /\ \A i \in DOMAIN taskQueue : taskQueue[i] # t
      /\ answers[t] = << >> /\ \A i \in DOMAIN e : e[i].task # t
      /\ Formatter!Posted(q, e, n)
      /\ workers' = Formatter!Loading(Len(inbox'), {})
      /\ outbox' = Formatter!Outboxes(Len(inbox'), {})
      /\ parts' = parts /\ answers' = answers /\ errors' = errors
  BY DEF Formatter!runTask, Formatter!Answered, Formatter!ToSet
<1>2. /\ n \in Nat /\ taskQueue \in Seq(Tasks)
      /\ EntriesOf(e, n, workers) /\ Apart(taskQueue, e, answers)
      /\ outbox \in [1..n -> Seq(Messages)] /\ QueueWaits(taskQueue, e)
  BY PoolFacts
<1> HIDE DEF e, n
<1>3. q \in Seq(Tasks) /\ Len(q) = Len(taskQueue) + 1 /\ Len(taskQueue) \in Nat
  BY <1>2
<1>4. \A j \in DOMAIN q : (j \in DOMAIN taskQueue /\ q[j] = taskQueue[j])
                          \/ (j = Len(taskQueue) + 1 /\ q[j] = t)
  BY <1>2
<1>5. taskQueue = << >> => Len(q) = 1 /\ Head(q) = t /\ Tail(q) = << >>
  BY <1>2
<1> HIDE DEF q
<1>6. q # << >>
  BY <1>3
<1>7. Apart(q, e, answers)
  <2>1. /\ \A j, k \in DOMAIN taskQueue : taskQueue[j] = taskQueue[k] => j = k
        /\ \A j \in DOMAIN taskQueue : answers[taskQueue[j]] = << >>
        /\ \A j \in DOMAIN taskQueue : \A i \in DOMAIN e : e[i].task # taskQueue[j]
        /\ \A i \in DOMAIN e : e[i].task # NoTask => answers[e[i].task] = << >>
        /\ \A s \in Tasks : \A k \in DOMAIN answers[s] : answers[s][k].task = s
    BY <1>2 DEF Apart
  <2>2. \A j, k \in DOMAIN q : q[j] = q[k] => j = k
    BY <1>1, <1>4, <2>1
  <2>3. \A j \in DOMAIN q : answers[q[j]] = << >> /\ \A i \in DOMAIN e : e[i].task # q[j]
    BY <1>1, <1>4, <2>1
  <2> QED
    BY <2>1, <2>2, <2>3 DEF Apart
<1>8. PoolOf(q, e, n, workers, inbox, work, outbox, parts', answers')
  <2>1. PoolOf(taskQueue, e, n, workers, inbox, work, outbox, parts, answers)
    BY Zenon DEF PoolInv, e, n
  <2> QED
    BY <1>1, <1>3, <1>7, <2>1, Zenon DEF PoolOf
<1>9. OnePlace(q, e)
  <2>1. CASE taskQueue = << >>
    BY <1>5, <2>1 DEF OnePlace
  <2>2. CASE taskQueue # << >>
    BY <1>2, <2>2 DEF OnePlace, QueueWaits, NoneFree
  <2> QED
    BY <2>1, <2>2
<1>10. Before(n, {}, workers, inbox, work, outbox)
  <2>1. Len(inbox') \in Nat /\ Len(inbox') >= n
    BY <1>1, <1>2, PostedLength DEF n
  <2>2. /\ outbox' = [w \in 1..Len(inbox') |-> outbox'[w]]
        /\ \A w \in 1..Len(inbox') :
             outbox'[w] = IF w <= n /\ w \notin {} THEN outbox[w] ELSE << >>
    BY <1>1, <2>1, OutboxesAre DEF n
  <2>3. outbox' = [w \in 1..Len(inbox') |-> IF w <= n THEN outbox[w] ELSE << >>]
    BY <2>2
  <2>4. \A w \in 1..n : w <= n /\ w \notin {}
    BY <1>2
  <2> QED
    BY <1>1, <2>3, <2>4 DEF Before, n
<1>11. errors' \in 0..MaxErrors
  BY <1>1 DEF PoolInv
<1>12. PoolInv' /\ GoesOn(q, e, taskQueue', workerTasks')
  <2>1. n \in {n, n + 1}
    OBVIOUS
  <2> QED
    BY <1>1, <1>8, <1>9, <1>10, <1>11, <2>1, PostedInv, Zenon DEF n
<1>13. t \notin HeldTasks(e)
  BY <1>1 DEF HeldTasks
<1>14. IF Full(e)
       THEN taskQueue' = q /\ HeldTasks(workerTasks') = HeldTasks(e)
       ELSE taskQueue' = taskQueue /\ HeldTasks(workerTasks') = HeldTasks(e) \cup {t}
  <2>1. CASE Full(e)
    BY <1>12, <2>1, Zenon DEF GoesOn
  <2>2. CASE ~Full(e)
    <3>1. taskQueue = << >>
      BY <1>2, <2>2, Zenon DEF QueueWaits, Full
    <3>2. taskQueue' = Tail(q) /\ HeldTasks(workerTasks') = HeldTasks(e) \cup {Head(q)}
      BY <1>6, <1>12, <2>2, Zenon DEF GoesOn
    <3> QED
      BY <1>5, <2>2, <3>1, <3>2
  <2> QED
    BY <2>1, <2>2
<1> QED
  BY <1>1, <1>12, <1>13, <1>14 DEF HandedIn, e, q

(* A worker that speaks holds a task, and its oldest message is about it.  *)
Speaks(w, i, t) ==
  /\ i \in DOMAIN workerTasks /\ workerTasks[i].worker = w /\ workerTasks[i].task = t
  /\ t \in Tasks /\ Formatter!TaskOf(w) = t /\ Formatter!EntryOf(w) = i
  /\ Formatter!Oldest(w) = Head(outbox[w])
  /\ outbox[w] \in Seq(Messages) /\ Head(outbox[w]).task = t /\ Head(outbox[w]) \in Messages
  /\ PipeOf(t, inbox[w], work[w], outbox[w], parts[t])
  /\ answers[t] = << >> /\ t \in HeldTasks(workerTasks)

LEMMA EntryOfIs ==
  ASSUME PoolInv, NEW i \in DOMAIN workerTasks
  PROVE  /\ Formatter!EntryOf(workerTasks[i].worker) = i
         /\ Formatter!TaskOf(workerTasks[i].worker) = workerTasks[i].task
<1>1. Len(workers) \in Nat /\ EntriesOf(workerTasks, Len(workers), workers)
  BY PoolFacts
<1>2. (CHOOSE j \in DOMAIN workerTasks : workerTasks[j].worker = workerTasks[i].worker) = i
  BY <1>1, EntryIs
<1> QED
  BY <1>2 DEF Formatter!EntryOf, Formatter!TaskOf

LEMMA WhoSpeaks ==
  ASSUME PoolInv, NEW w \in 1..Len(workers), outbox[w] # << >>
  PROVE  \E i, t : Speaks(w, i, t)
<1> DEFINE e == workerTasks
           n == Len(workers)
<1>1. /\ n \in Nat /\ EntriesOf(e, n, workers) /\ PipesOf(e, n, inbox, work, outbox, parts)
      /\ outbox \in [1..n -> Seq(Messages)] /\ parts \in [Tasks -> 0..MaxChunks]
      /\ Apart(taskQueue, e, answers)
  BY PoolFacts
<1>2. PICK i \in DOMAIN e : e[i].worker = w
  <2>1. (\A i \in DOMAIN e : e[i].worker # w) => Idle(inbox[w], work[w], outbox[w])
    BY <1>1, Zenon DEF PipesOf
  <2> QED
    BY <2>1 DEF Idle
<1>3. PICK t : t = e[i].task
  OBVIOUS
<1>4. PipeOf(t, inbox[w], work[w], outbox[w], parts[t])
  BY <1>1, <1>2, <1>3, Zenon DEF PipesOf
<1>5. t \in Tasks
  BY <1>4, Zenon DEF PipeOf, Idle
<1>6. outbox[w] \in Seq(Messages) /\ parts[t] \in 0..MaxChunks /\ t # NoTask
  BY <1>1, <1>5, PoolBounds
<1>7. Head(outbox[w]).task = t
  BY <1>4, <1>6, PipeIsTaken DEF Taken
<1>8. Head(outbox[w]) \in Messages
  BY <1>6
<1>9. Formatter!EntryOf(w) = i /\ Formatter!TaskOf(w) = t
  BY <1>2, <1>3, EntryOfIs
<1>10. answers[t] = << >> /\ t \in HeldTasks(e)
  BY <1>1, <1>2, <1>3, <1>6 DEF Apart, HeldTasks
<1>11. Speaks(w, i, t)
  BY <1>2, <1>3, <1>4, <1>5, <1>6, <1>7, <1>8, <1>9, <1>10 DEF Speaks, Formatter!Oldest
<1> QED
  BY <1>11

(***************************************************************************)
(* What is left when a task is over: the callback was called, and its      *)
(* worker's entry is free.                                                 *)
LEMMA AnsweredIs ==
  ASSUME NEW t \in Tasks, NEW a \in [Tasks -> Seq(Messages)], NEW m \in Messages, m.task = t,
         \A s \in Tasks : \A k \in DOMAIN a[s] : a[s][k].task = s,
         NEW b, b = [a EXCEPT ![t] = Append(@, m)]
  PROVE  /\ b \in [Tasks -> Seq(Messages)] /\ b[t] # << >>
         /\ \A s \in Tasks : s # t => b[s] = a[s]
         /\ \A s \in Tasks : \A k \in DOMAIN b[s] : b[s][k].task = s
<1>1. a[t] \in Seq(Messages)
  OBVIOUS
<1>2. /\ b[t] = Append(a[t], m) /\ \A s \in Tasks : s # t => b[s] = a[s]
      /\ b \in [Tasks -> Seq(Messages)]
  BY <1>1
<1>3. b[t] # << >> /\ \A k \in DOMAIN b[t] : (k \in DOMAIN a[t] /\ b[t][k] = a[t][k]) \/ b[t][k] = m
  <2> DEFINE x == a[t]
             y == Append(x, m)
  <2>1. x \in Seq(Messages) /\ Len(x) \in Nat /\ DOMAIN x = 1..Len(x)
    BY <1>1
  <2>2. /\ y # << >> /\ Len(y) = Len(x) + 1 /\ DOMAIN y = 1..Len(x) + 1
        /\ y[Len(x) + 1] = m /\ \A k \in 1..Len(x) : y[k] = x[k]
    BY <2>1
  <2>3. b[t] = y
    BY <1>2
  <2> HIDE DEF x, y
  <2>4. ASSUME NEW k \in DOMAIN y PROVE (k \in DOMAIN x /\ y[k] = x[k]) \/ y[k] = m
    BY <2>1, <2>2
  <2> QED
    BY <2>2, <2>3, <2>4, Zenon DEF x
<1>4. \A k \in DOMAIN b[t] : b[t][k].task = t
  BY <1>3
<1>5. ASSUME NEW s \in Tasks, NEW k \in DOMAIN b[s] PROVE b[s][k].task = s
  <2>1. CASE s = t
    BY <1>4, <1>5, <2>1
  <2>2. CASE s # t
    BY <1>2, <1>5, <2>2
  <2> QED
    BY <2>1, <2>2
<1> QED
  BY <1>2, <1>3, <1>5

Leaves(i, t) ==
  /\ answers' \in [Tasks -> Seq(Messages)]
  /\ \A s \in Tasks : answers'[s] # << >> <=> answers[s] # << >> \/ s = t
  /\ \A s \in Tasks : s # t => answers'[s] = answers[s]
  /\ \A s \in Tasks : \A k \in DOMAIN answers'[s] : answers'[s][k].task = s
  /\ \A j \in DOMAIN taskQueue : answers'[taskQueue[j]] = << >>
  /\ \A j \in DOMAIN workerTasks :
       workerTasks[j].task # NoTask /\ j # i => answers'[workerTasks[j].task] = << >>

LEMMA OverLeaves ==
  ASSUME PoolInv, NEW w, NEW i, NEW t, Speaks(w, i, t),
         answers' = [answers EXCEPT ![t] = Append(@, Head(outbox[w]))]
  PROVE  Leaves(i, t)
<1> DEFINE e == workerTasks
<1>1. /\ taskQueue \in Seq(Tasks) /\ answers \in [Tasks -> Seq(Messages)]
      /\ Apart(taskQueue, e, answers) /\ EntriesOf(e, Len(workers), workers)
      /\ Len(workers) \in Nat
  BY PoolFacts
<1>2. /\ i \in DOMAIN e /\ e[i].task = t /\ t \in Tasks /\ answers[t] = << >>
      /\ Head(outbox[w]) \in Messages /\ Head(outbox[w]).task = t
  BY Zenon DEF Speaks
<1>3. /\ \A j \in DOMAIN taskQueue : answers[taskQueue[j]] = << >>
      /\ \A j \in DOMAIN taskQueue : \A k \in DOMAIN e : e[k].task # taskQueue[j]
      /\ \A j \in DOMAIN e : e[j].task # NoTask => answers[e[j].task] = << >>
      /\ \A s \in Tasks : \A k \in DOMAIN answers[s] : answers[s][k].task = s
  BY <1>1 DEF Apart
<1>4. /\ answers' \in [Tasks -> Seq(Messages)] /\ answers'[t] # << >>
      /\ \A s \in Tasks : s # t => answers'[s] = answers[s]
      /\ \A s \in Tasks : \A k \in DOMAIN answers'[s] : answers'[s][k].task = s
  BY <1>1, <1>2, <1>3, AnsweredIs
<1>5. \A j \in DOMAIN taskQueue : taskQueue[j] \in Tasks /\ taskQueue[j] # t
  BY <1>1, <1>2, <1>3
<1>6. \A j \in DOMAIN e : e[j].task # NoTask /\ j # i => e[j].task \in Tasks /\ e[j].task # t
  <2>1. \A j \in DOMAIN e : e[j].task \in Tasks \cup {NoTask}
    BY <1>1, EntryFacts DEF EntriesOf
  <2>2. \A j, k \in DOMAIN e : e[j].task = e[k].task /\ e[j].task # NoTask => j = k
    BY <1>1 DEF EntriesOf
  <2> QED
    BY <1>2, <2>1, <2>2
<1> QED
  BY <1>3, <1>4, <1>5, <1>6 DEF Leaves

LEMMA FreedEntry ==
  ASSUME NEW e, NEW n \in Nat, NEW st, EntriesOf(e, n, st), NEW i \in DOMAIN e,
         NEW t, e[i].task = t, t \in Tasks
  PROVE  /\ EntriesOf(Given(e, i, NoTask), n, st)
         /\ DOMAIN Given(e, i, NoTask) = DOMAIN e /\ Len(Given(e, i, NoTask)) = Len(e)
         /\ Given(e, i, NoTask)[i].worker = e[i].worker /\ Given(e, i, NoTask)[i].task = NoTask
         /\ \A j \in DOMAIN e : j # i => Given(e, i, NoTask)[j] = e[j]
         /\ HeldTasks(Given(e, i, NoTask)) = HeldTasks(e) \ {t}
<1> DEFINE x == Given(e, i, NoTask)
<1>1. /\ DOMAIN e = 1..Len(e) /\ Len(e) \in Nat /\ e \in Seq(EntriesFor(n))
      /\ \A j \in DOMAIN e : e[j].worker \in 1..n
  BY EntryFacts DEF EntriesOf
<1>2. [worker |-> e[i].worker, task |-> NoTask] \in EntriesFor(n)
  BY <1>1 DEF EntriesFor
<1>3. /\ x \in Seq(EntriesFor(n)) /\ DOMAIN x = DOMAIN e /\ Len(x) = Len(e)
      /\ x[i] = [worker |-> e[i].worker, task |-> NoTask]
      /\ \A j \in DOMAIN e : j # i => x[j] = e[j]
  BY <1>1, <1>2 DEF Given
<1> HIDE DEF x
<1>4. /\ x[i].worker = e[i].worker /\ x[i].task = NoTask
      /\ \A j \in DOMAIN e : j # i => x[j] = e[j]
      /\ DOMAIN x = DOMAIN e
  BY <1>3
<1>5. t # NoTask
  BY PoolBounds, Zenon
<1>6. \A j \in DOMAIN x : x[j].worker = e[j].worker
  BY <1>4
<1>7. /\ \A j, k \in DOMAIN e : e[j].task = e[k].task /\ e[j].task # NoTask => j = k
      /\ \A j, k \in DOMAIN e : e[j].worker = e[k].worker => j = k
      /\ \A j \in DOMAIN e : st[e[j].worker] # "terminated"
      /\ Len(e) <= MaxWorkers
  BY DEF EntriesOf
<1>8. EntriesOf(x, n, st)
  <2>1. \A j, k \in DOMAIN x : x[j].task = x[k].task /\ x[j].task # NoTask => j = k
    BY <1>4, <1>7
  <2>2. /\ \A j, k \in DOMAIN x : x[j].worker = x[k].worker => j = k
        /\ \A j \in DOMAIN x : st[x[j].worker] # "terminated"
    BY <1>4, <1>6, <1>7
  <2> QED
    BY <1>3, <1>7, <2>1, <2>2 DEF EntriesOf
<1>9. HeldTasks(x) = HeldTasks(e) \ {t}
  <2>1. ASSUME NEW s \in HeldTasks(x) PROVE s \in HeldTasks(e) \ {t}
    <3>1. PICK j \in DOMAIN x : x[j].task = s
      BY DEF HeldTasks
    <3>2. s # NoTask
      BY DEF HeldTasks
    <3>3. j # i /\ e[j].task = s /\ j \in DOMAIN e
      BY <1>4, <3>1, <3>2
    <3>4. s # t
      BY <1>7, <3>2, <3>3
    <3> QED
      BY <3>2, <3>3, <3>4 DEF HeldTasks
  <2>2. ASSUME NEW s \in HeldTasks(e) \ {t} PROVE s \in HeldTasks(x)
    <3>1. PICK j \in DOMAIN e : e[j].task = s
      BY DEF HeldTasks
    <3>2. s # NoTask
      BY DEF HeldTasks
    <3>3. j # i
      BY <3>1
    <3>4. x[j].task = s /\ j \in DOMAIN x
      BY <1>4, <3>1, <3>3
    <3> QED
      BY <3>2, <3>4 DEF HeldTasks
  <2> QED
    BY <2>1, <2>2
<1> QED
  BY <1>3, <1>4, <1>8, <1>9 DEF x

LEMMA MessageInv ==
  ASSUME PoolInv, NEW w \in 1..Len(workers), Formatter!onWorkerMessage(w)
  PROVE  PoolInv' /\ \E t \in Tasks : IsOver(t)
<1> DEFINE n == Len(workers)
           q == taskQueue
           o == [outbox EXCEPT ![w] = Tail(@)]
<1>1. PICK i, t : Speaks(w, i, t)
  BY WhoSpeaks, Zenon DEF Formatter!onWorkerMessage
<1>2. /\ i \in DOMAIN workerTasks /\ workerTasks[i].worker = w /\ workerTasks[i].task = t
      /\ t \in Tasks /\ Formatter!TaskOf(w) = t /\ Formatter!Oldest(w) = Head(outbox[w])
      /\ outbox[w] \in Seq(Messages) /\ Head(outbox[w]) \in Messages
      /\ PipeOf(t, inbox[w], work[w], outbox[w], parts[t])
      /\ answers[t] = << >> /\ t \in HeldTasks(workerTasks)
  BY <1>1, Zenon DEF Speaks
<1> DEFINE e == Given(workerTasks, i, NoTask)
<1>3. /\ n \in Nat /\ q \in Seq(Tasks) /\ EntriesOf(workerTasks, n, workers)
      /\ Apart(q, workerTasks, answers) /\ WorkersTyped(n, workers, inbox, work, outbox)
      /\ PipesOf(workerTasks, n, inbox, work, outbox, parts)
      /\ outbox \in [1..n -> Seq(Messages)] /\ QueueWaits(q, workerTasks)
      /\ parts \in [Tasks -> 0..MaxChunks] /\ workerTasks \in Seq(EntriesFor(n))
  BY PoolFacts DEF EntriesOf
<1>4. Formatter!SetTask(workerTasks, w, NoTask) = e
  BY <1>2, <1>3, EntryIs
<1>5. /\ outbox[w] # << >> /\ Head(outbox[w]).kind # "error"
      /\ ~(t \in Chunked /\ Head(outbox[w]).kind # "last")
      /\ answers' = [answers EXCEPT ![t] = Append(@, Head(outbox[w]))]
      /\ Formatter!Posted(q, e, n)
      /\ workers' = Formatter!Loading(Len(inbox'), {})
      /\ outbox' = [Formatter!Outboxes(Len(inbox'), {}) EXCEPT ![w] = Tail(@)]
      /\ parts' = parts /\ errors' = errors
  BY <1>2, <1>4 DEF Formatter!onWorkerMessage, Formatter!isPart, NoTask
<1>6. Idle(inbox[w], work[w], Tail(outbox[w]))
  <2>1. parts[t] \in 0..MaxChunks
    BY <1>2, <1>3
  <2>2. /\ Head(outbox[w]).kind = "chunk" => t \in Chunked
        /\ Head(outbox[w]).kind # "chunk" => Idle(inbox[w], work[w], Tail(outbox[w]))
    <3>1. Taken(t, inbox[w], work[w], outbox[w], parts[t])
      BY <1>2, <1>5, <2>1, PipeIsTaken, Zenon
    <3> QED
      BY <3>1, Zenon DEF Taken
  <2> QED
    BY <1>5, <2>2
<1> HIDE DEF n
<1>7. /\ EntriesOf(e, n, workers) /\ DOMAIN e = DOMAIN workerTasks
      /\ Len(e) = Len(workerTasks) /\ e[i].worker = w /\ e[i].task = NoTask
      /\ \A j \in DOMAIN workerTasks : j # i => e[j] = workerTasks[j]
      /\ HeldTasks(e) = HeldTasks(workerTasks) \ {t}
  BY <1>2, <1>3, FreedEntry
<1> HIDE DEF e
<1>8. /\ answers' \in [Tasks -> Seq(Messages)]
      /\ \A s \in Tasks : answers'[s] # << >> <=> answers[s] # << >> \/ s = t
      /\ \A s \in Tasks : s # t => answers'[s] = answers[s]
      /\ \A s \in Tasks : \A k \in DOMAIN answers'[s] : answers'[s][k].task = s
      /\ \A j \in DOMAIN q : answers'[q[j]] = << >>
      /\ \A j \in DOMAIN workerTasks :
           workerTasks[j].task # NoTask /\ j # i => answers'[workerTasks[j].task] = << >>
  <2>1. Leaves(i, t)
    BY <1>1, <1>5, OverLeaves, Zenon
  <2> QED
    BY <2>1, Zenon DEF Leaves
<1>9. Apart(q, e, answers')
  <2>1. /\ \A j, k \in DOMAIN q : q[j] = q[k] => j = k
        /\ \A j \in DOMAIN q : \A k \in DOMAIN workerTasks : workerTasks[k].task # q[j]
    BY <1>3 DEF Apart
  <2>2. \A j \in DOMAIN q : q[j] # NoTask
    BY <1>3, PoolBounds
  <2>3. \A j \in DOMAIN q : \A k \in DOMAIN e : e[k].task # q[j]
    BY <1>7, <2>1, <2>2
  <2>4. \A j \in DOMAIN e : e[j].task # NoTask => answers'[e[j].task] = << >>
    BY <1>7, <1>8
  <2> QED
    BY <1>8, <2>1, <2>3, <2>4 DEF Apart
<1>10. /\ o \in [1..n -> Seq(Messages)] /\ o[w] = Tail(outbox[w])
       /\ \A v \in 1..n : v # w => o[v] = outbox[v]
  <2>1. Tail(outbox[w]) \in Seq(Messages)
    BY <1>2, <1>5
  <2> QED
    BY <1>3, <2>1 DEF n
<1> HIDE DEF o
<1>11. PipesOf(e, n, inbox, work, o, parts')
  <2>1. ASSUME NEW j \in DOMAIN e
        PROVE  PipeOf(e[j].task, inbox[e[j].worker], work[e[j].worker], o[e[j].worker],
                      parts'[e[j].task])
    <3>1. CASE j = i
      <4>1. Idle(inbox[w], work[w], o[w])
        BY <1>6, <1>10, Zenon
      <4> QED
        BY <1>7, <3>1, <4>1, Zenon DEF PipeOf
    <3>2. CASE j # i
      <4>1. e[j] = workerTasks[j] /\ e[j].worker \in 1..n /\ e[j].worker # w
        <5>1. e[j] = workerTasks[j]
          BY <1>7, <3>2
        <5>2. workerTasks[j].worker \in 1..n
          BY <1>3, <1>7, EntryFacts
        <5>3. workerTasks[j].worker # w
          BY <1>2, <1>3, <1>7, <3>2 DEF EntriesOf
        <5> QED
          BY <5>1, <5>2, <5>3
      <4>2. o[e[j].worker] = outbox[e[j].worker]
        BY <1>10, <4>1
      <4>3. PipeOf(workerTasks[j].task, inbox[workerTasks[j].worker],
                   work[workerTasks[j].worker], outbox[workerTasks[j].worker],
                   parts[workerTasks[j].task])
        BY <1>3, <1>7, Zenon DEF PipesOf
      <4> QED
        BY <1>5, <4>1, <4>2, <4>3, Zenon
    <3> QED
      BY <3>1, <3>2
  <2>2. ASSUME NEW v \in 1..n, \A j \in DOMAIN e : e[j].worker # v
        PROVE  Idle(inbox[v], work[v], o[v])
    <3>1. v # w
      BY <1>2, <1>7, <2>2
    <3>2. \A j \in DOMAIN workerTasks : workerTasks[j].worker # v
      BY <1>2, <1>7, <2>2, <3>1
    <3>3. Idle(inbox[v], work[v], outbox[v])
      BY <1>3, <3>2, Zenon DEF PipesOf
    <3> QED
      BY <1>10, <3>1, <3>3, Zenon
  <2> QED
    BY <2>1, <2>2, Zenon DEF PipesOf
<1>12. PoolOf(q, e, n, workers, inbox, work, o, parts', answers')
  <2>1. WorkersTyped(n, workers, inbox, work, o)
    BY <1>3, <1>10, Zenon DEF WorkersTyped
  <2> QED
    BY <1>3, <1>5, <1>7, <1>8, <1>9, <1>11, <2>1, Zenon DEF PoolOf
<1>13. OnePlace(q, e)
  <2>1. SameBut(e, workerTasks, i)
    BY <1>7 DEF SameBut
  <2> QED
    BY <1>2, <1>3, <2>1, PlaceIsOne, Zenon
<1>14. Before(n, {}, workers, inbox, work, o)
  <2>1. Len(inbox') \in Nat /\ Len(inbox') >= n
    BY <1>5, <1>7, PostedLength DEF n
  <2> DEFINE b == Formatter!Outboxes(Len(inbox'), {})
  <2>2. /\ b = [v \in 1..Len(inbox') |-> b[v]]
        /\ \A v \in 1..Len(inbox') :
             b[v] = IF v <= n /\ v \notin {} THEN outbox[v] ELSE << >>
    BY <2>1, OutboxesAre DEF n
  <2>3. outbox' = [b EXCEPT ![w] = Tail(@)]
    BY <1>5
  <2> HIDE DEF b
  <2>4. w \in 1..Len(inbox') /\ w <= n /\ w \in 1..n
    BY <1>3, <2>1 DEF n
  <2>5. \A v \in 1..Len(inbox') : v <= n <=> v \in 1..n
    BY <1>3, <2>1
  <2>6. outbox' = [v \in 1..Len(inbox') |-> IF v <= n THEN o[v] ELSE << >>]
    BY <1>10, <2>2, <2>3, <2>4, <2>5
  <2>7. \A v \in 1..n : v <= n /\ v \notin {}
    BY <1>3
  <2> QED
    BY <1>5, <2>6, <2>7 DEF Before, n
<1>15. errors' \in 0..MaxErrors
  BY <1>5 DEF PoolInv
<1>16. PoolInv' /\ GoesOn(q, e, taskQueue', workerTasks')
  <2>1. n \in {n, n + 1}
    OBVIOUS
  <2> QED
    BY <1>5, <1>12, <1>13, <1>14, <1>15, <2>1, PostedInv, Zenon DEF n
<1>17. ~Full(e)
  BY <1>2, <1>7 DEF Full, NoneFree
<1>18. IF q = << >>
       THEN taskQueue' = << >> /\ HeldTasks(workerTasks') = HeldTasks(workerTasks) \ {t}
       ELSE /\ taskQueue' = Tail(q)
            /\ HeldTasks(workerTasks') = (HeldTasks(workerTasks) \ {t}) \cup {Head(q)}
  BY <1>7, <1>16, <1>17, Zenon DEF GoesOn
<1>19. IsOver(t)
  BY <1>2, <1>5, <1>8, <1>18, Zenon DEF IsOver
<1> QED
  BY <1>2, <1>16, <1>19

(***************************************************************************)
(* A worker that threw: its entry is taken out, that of a new one is last. *)
Without(y, e, i, n) ==
  /\ y \in Seq(EntriesFor(n)) /\ Len(y) + 1 = Len(e)
  /\ \A j \in DOMAIN y : \E k \in DOMAIN e : k # i /\ y[j] = e[k]
  /\ \A k \in DOMAIN e : k # i => \E j \in DOMAIN y : y[j] = e[k]
  /\ \A j, k \in DOMAIN y : y[j].worker = y[k].worker => j = k
  /\ \A j, k \in DOMAIN y : y[j].task = y[k].task /\ y[j].task # NoTask => j = k
  /\ HeldTasks(y) = HeldTasks(e) \ {e[i].task}

LEMMA RemovedEntry ==
  ASSUME NEW e, NEW n \in Nat, NEW st, EntriesOf(e, n, st), NEW i \in DOMAIN e
  PROVE  Without(Formatter!RemoveAt(e, i), e, i, n)
<1> DEFINE y == Formatter!RemoveAt(e, i)
           a == SubSeq(e, 1, i - 1)
           b == SubSeq(e, i + 1, Len(e))
<1>1. DOMAIN e = 1..Len(e) /\ Len(e) \in Nat /\ e \in Seq(EntriesFor(n)) /\ i \in 1..Len(e)
  BY DEF EntriesOf
<1>2. /\ a \in Seq(EntriesFor(n)) /\ Len(a) = i - 1
      /\ \A j \in 1..i - 1 : a[j] = e[j]
  BY <1>1
<1>3. /\ b \in Seq(EntriesFor(n)) /\ Len(b) = Len(e) - i
      /\ \A j \in 1..Len(e) - i : b[j] = e[j + i]
  <2>1. b \in Seq(EntriesFor(n)) /\ Len(b) = Len(e) - i
    BY <1>1
  <2>2. ASSUME NEW j \in 1..Len(e) - i PROVE b[j] = e[j + i]
    <3>1. b[j] = e[i + 1 + j - 1] /\ i + 1 + j - 1 = j + i
      BY <1>1
    <3> QED
      BY <3>1
  <2> QED
    BY <2>1, <2>2
<1>4. y = a \o b
  BY DEF Formatter!RemoveAt
<1> HIDE DEF a, b, y
<1>5. /\ y \in Seq(EntriesFor(n)) /\ Len(y) = Len(e) - 1 /\ DOMAIN y = 1..Len(e) - 1
      /\ \A j \in 1..Len(e) - 1 : y[j] = IF j <= i - 1 THEN a[j] ELSE b[j - (i - 1)]
  <2> DEFINE E == EntriesFor(n)
  <2> HIDE DEF E
  <2>0. a \in Seq(E) /\ b \in Seq(E)
    BY <1>2, <1>3 DEF E
  <2>1. /\ y \in Seq(E) /\ Len(y) = Len(a) + Len(b) /\ DOMAIN y = 1..Len(y)
        /\ \A j \in 1..Len(y) : y[j] = IF j <= Len(a) THEN a[j] ELSE b[j - Len(a)]
    BY <1>4, <2>0
  <2>2. Len(y) = Len(e) - 1
    BY <1>1, <1>2, <1>3, <2>1
  <2> QED
    BY <1>2, <2>1, <2>2 DEF E
<1>6. \A j \in DOMAIN y : y[j] = IF j < i THEN e[j] ELSE e[j + 1]
  <2> SUFFICES ASSUME NEW j \in DOMAIN y PROVE y[j] = IF j < i THEN e[j] ELSE e[j + 1]
    OBVIOUS
  <2>1. CASE j < i
    <3>1. j \in 1..i - 1 /\ j <= i - 1 /\ j \in 1..Len(e) - 1
      BY <1>1, <1>5, <2>1
    <3> QED
      BY <1>2, <1>5, <2>1, <3>1
  <2>2. CASE ~(j < i)
    <3>1. /\ j - (i - 1) \in 1..Len(e) - i /\ ~(j <= i - 1) /\ j \in 1..Len(e) - 1
          /\ j - (i - 1) + i = j + 1
      BY <1>1, <1>5, <2>2
    <3>2. y[j] = b[j - (i - 1)]
      BY <1>5, <3>1
    <3>3. b[j - (i - 1)] = e[j - (i - 1) + i]
      BY <1>3, <3>1
    <3> QED
      BY <2>2, <3>1, <3>2, <3>3
  <2> QED
    BY <2>1, <2>2
<1>7. \A j \in DOMAIN y : \E k \in DOMAIN e :
        k # i /\ y[j] = e[k] /\ k = (IF j < i THEN j ELSE j + 1)
  <2> SUFFICES ASSUME NEW j \in DOMAIN y
               PROVE  \E k \in DOMAIN e :
                        k # i /\ y[j] = e[k] /\ k = (IF j < i THEN j ELSE j + 1)
    OBVIOUS
  <2>1. (IF j < i THEN j ELSE j + 1) \in DOMAIN e /\ (IF j < i THEN j ELSE j + 1) # i
    BY <1>1, <1>5
  <2> QED
    BY <1>6, <2>1
<1>8. ASSUME NEW k \in DOMAIN e, k # i PROVE \E j \in DOMAIN y : y[j] = e[k]
  <2>1. CASE k < i
    <3>1. k \in DOMAIN y
      BY <1>1, <1>5, <2>1
    <3> QED
      BY <1>6, <2>1, <3>1
  <2>2. CASE k > i
    <3>1. k - 1 \in DOMAIN y /\ ~(k - 1 < i) /\ k - 1 + 1 = k
      BY <1>1, <1>5, <2>2
    <3>2. y[k - 1] = e[k - 1 + 1]
      BY <1>6, <3>1
    <3> QED
      BY <3>1, <3>2
  <2> QED
    BY <1>1, <1>8, <2>1, <2>2
<1>9. /\ \A j, k \in DOMAIN e : e[j].worker = e[k].worker => j = k
      /\ \A j, k \in DOMAIN e : e[j].task = e[k].task /\ e[j].task # NoTask => j = k
  BY DEF EntriesOf
<1>10. \A j, k \in DOMAIN y :
         (IF j < i THEN j ELSE j + 1) = (IF k < i THEN k ELSE k + 1) => j = k
  BY <1>1, <1>5
<1>11. ASSUME NEW j \in DOMAIN y, NEW k \in DOMAIN y
       PROVE  /\ y[j].worker = y[k].worker => j = k
              /\ y[j].task = y[k].task /\ y[j].task # NoTask => j = k
  <2>1. PICK l \in DOMAIN e : y[j] = e[l] /\ l = (IF j < i THEN j ELSE j + 1)
    BY <1>7
  <2>2. PICK m \in DOMAIN e : y[k] = e[m] /\ m = (IF k < i THEN k ELSE k + 1)
    BY <1>7
  <2>3. l = m => j = k
    BY <1>10, <2>1, <2>2
  <2> QED
    BY <1>9, <2>1, <2>2, <2>3
<1>12. Len(y) + 1 = Len(e)
  BY <1>1, <1>5
<1>13. HeldTasks(y) = HeldTasks(e) \ {e[i].task}
  <2>1. ASSUME NEW s \in HeldTasks(y) PROVE s \in HeldTasks(e) \ {e[i].task}
    <3>1. PICK j \in DOMAIN y : y[j].task = s
      BY DEF HeldTasks
    <3>2. s # NoTask
      BY DEF HeldTasks
    <3>3. PICK k \in DOMAIN e : k # i /\ y[j] = e[k]
      BY <1>7
    <3>4. e[k].task = s /\ s # e[i].task
      BY <1>9, <3>1, <3>2, <3>3
    <3> QED
      BY <3>2, <3>4 DEF HeldTasks
  <2>2. ASSUME NEW s \in HeldTasks(e) \ {e[i].task} PROVE s \in HeldTasks(y)
    <3>1. PICK k \in DOMAIN e : e[k].task = s
      BY DEF HeldTasks
    <3>2. s # NoTask /\ k # i
      BY <3>1 DEF HeldTasks
    <3>3. PICK j \in DOMAIN y : y[j] = e[k]
      BY <1>8, <3>2
    <3> QED
      BY <3>1, <3>2, <3>3 DEF HeldTasks
  <2> QED
    BY <2>1, <2>2
<1> QED
  BY <1>5, <1>7, <1>8, <1>11, <1>12, <1>13 DEF Without, y

LEMMA ErrorInv ==
  ASSUME PoolInv, NEW w \in 1..Len(workers), Formatter!onWorkerError(w)
  PROVE  PoolInv' /\ \E t \in Tasks : IsOver(t)
<1> DEFINE n == Len(workers)
           m == Len(workers) + 1
           q == taskQueue
           e == workerTasks
           st == Formatter!Loading(m, {w})
           inb == [v \in 1..m |-> IF v <= n THEN inbox[v] ELSE << >>]
           wk == [v \in 1..m |-> IF v <= n THEN work[v] ELSE NoTask]
           o == [v \in 1..m |-> IF v <= n /\ v # w THEN outbox[v] ELSE << >>]
<1>1. PICK i, t : Speaks(w, i, t)
  BY WhoSpeaks, Zenon DEF Formatter!onWorkerError
<1>2. /\ i \in DOMAIN e /\ e[i].worker = w /\ e[i].task = t
      /\ t \in Tasks /\ Formatter!TaskOf(w) = t /\ Formatter!EntryOf(w) = i
      /\ Formatter!Oldest(w) = Head(outbox[w])
      /\ outbox[w] \in Seq(Messages) /\ Head(outbox[w]) \in Messages
      /\ PipeOf(t, inbox[w], work[w], outbox[w], parts[t])
      /\ answers[t] = << >> /\ t \in HeldTasks(e)
  BY <1>1, Zenon DEF Speaks
<1> DEFINE y == Formatter!RemoveAt(workerTasks, i)
           z == NewOf(y, n, NoTask)
<1>3. /\ n \in Nat /\ q \in Seq(Tasks) /\ EntriesOf(e, n, workers) /\ Apart(q, e, answers)
      /\ WorkersTyped(n, workers, inbox, work, outbox)
      /\ PipesOf(e, n, inbox, work, outbox, parts)
      /\ inbox \in [1..n -> Seq(Tasks)] /\ work \in [1..n -> Tasks \cup {NoTask}]
      /\ outbox \in [1..n -> Seq(Messages)] /\ QueueWaits(q, e)
      /\ parts \in [Tasks -> 0..MaxChunks] /\ e \in Seq(EntriesFor(n))
  BY PoolFacts DEF EntriesOf
<1>4. /\ outbox[w] # << >> /\ Head(outbox[w]).kind = "error"
      /\ Formatter!Posted(q, z, m)
      /\ workers' = Formatter!Loading(Len(inbox'), {w})
      /\ outbox' = Formatter!Outboxes(Len(inbox'), {w})
      /\ answers' = [answers EXCEPT ![t] = Append(@, Head(outbox[w]))]
      /\ parts' = parts /\ errors' = errors
  BY <1>2 DEF Formatter!onWorkerError, Formatter!queueAfterError, Formatter!newEntry,
              Formatter!entriesWithout, NewOf, NoTask
<1>5. inbox[w] = << >> /\ work[w] = NoTask
  <2>1. parts[t] \in 0..MaxChunks
    BY <1>2, <1>3
  <2>2. Taken(t, inbox[w], work[w], outbox[w], parts[t])
    BY <1>2, <1>4, <2>1, PipeIsTaken, Zenon
  <2>3. Idle(inbox[w], work[w], Tail(outbox[w]))
    BY <1>4, <2>2 DEF Taken
  <2> QED
    BY <2>3, Zenon DEF Idle
<1>6. m \in Nat /\ m = n + 1 /\ w \in 1..n /\ w <= n
  BY <1>3
<1>7. /\ st \in Seq(WorkerStates) /\ Len(st) = m
      /\ \A v \in 1..m : st[v] = IF v \in {w} THEN "terminated"
                                 ELSE IF v <= n THEN workers[v] ELSE "loading"
  BY <1>6, LoadingIs
<1>8. /\ inb \in [1..m -> Seq(Tasks)] /\ wk \in [1..m -> Tasks \cup {NoTask}]
      /\ o \in [1..m -> Seq(Messages)]
  <2>1. \A v \in 1..m : v <= n => v \in 1..n
    BY <1>6
  <2>2. << >> \in Seq(Tasks) /\ << >> \in Seq(Messages) /\ NoTask \in Tasks \cup {NoTask}
    OBVIOUS
  <2> QED
    BY <1>3, <2>1, <2>2
<1>9. /\ \A v \in 1..n : inb[v] = inbox[v] /\ wk[v] = work[v] /\ (v # w => o[v] = outbox[v])
      /\ o[w] = << >> /\ inb[m] = << >> /\ wk[m] = NoTask /\ o[m] = << >>
  <2>1. /\ \A v \in 1..n : v \in 1..m /\ v <= n
        /\ m \in 1..m /\ ~(m <= n)
    BY <1>6
  <2> QED
    BY <1>6, <2>1
<1>10. \A v \in 1..m : inb[v] = (IF v <= n THEN inbox[v] ELSE << >>)
                       /\ wk[v] = (IF v <= n THEN work[v] ELSE NoTask)
  OBVIOUS
<1> HIDE DEF inb, wk, st
<1>11. t # NoTask
  BY <1>2, PoolBounds
<1>12. Without(y, e, i, n)
  BY <1>2, <1>3, RemovedEntry DEF n
<1> HIDE DEF y, n, m
<1>13. /\ y \in Seq(EntriesFor(n)) /\ Len(y) + 1 = Len(e)
       /\ \A j \in DOMAIN y : \E k \in DOMAIN e : k # i /\ y[j] = e[k]
       /\ \A k \in DOMAIN e : k # i => \E j \in DOMAIN y : y[j] = e[k]
       /\ \A j, k \in DOMAIN y : y[j].worker = y[k].worker => j = k
       /\ \A j, k \in DOMAIN y : y[j].task = y[k].task /\ y[j].task # NoTask => j = k
       /\ HeldTasks(y) = HeldTasks(e) \ {e[i].task}
  BY <1>12, Zenon DEF Without
<1>14. /\ \A k \in DOMAIN e : k # i => e[k].worker # w
       /\ \A k \in DOMAIN e : e[k].worker \in 1..n /\ workers[e[k].worker] # "terminated"
       /\ Len(e) <= MaxWorkers
  <2>1. \A k \in DOMAIN e : e[k].worker \in 1..n
    BY <1>3, EntryFacts
  <2>2. /\ \A k \in DOMAIN e : e[k].worker = e[i].worker => k = i
        /\ \A k \in DOMAIN e : workers[e[k].worker] # "terminated"
        /\ Len(e) <= MaxWorkers
    BY <1>2, <1>3 DEF EntriesOf
  <2> QED
    BY <1>2, <2>1, <2>2
<1>15. EntriesOf(y, n, st) /\ Len(y) < MaxWorkers
  <2>1. Len(y) \in Nat /\ Len(e) \in Nat
    BY <1>3, <1>13
  <2>2. Len(y) < MaxWorkers /\ Len(y) <= MaxWorkers
    BY <1>13, <1>14, <2>1, PoolBounds
  <2>3. \A v \in 1..n : v # w => st[v] = workers[v]
    <3>1. \A v \in 1..n : v \in 1..m /\ v <= n
      BY <1>3, <1>6
    <3> QED
      BY <1>7, <3>1
  <2>4. ASSUME NEW j \in DOMAIN y PROVE st[y[j].worker] # "terminated"
    <3>1. PICK k \in DOMAIN e : k # i /\ y[j] = e[k]
      BY <1>13
    <3>2. y[j].worker \in 1..n /\ y[j].worker # w /\ workers[y[j].worker] # "terminated"
      BY <1>14, <3>1
    <3> QED
      BY <2>3, <3>2
  <2> QED
    BY <1>13, <2>2, <2>4 DEF EntriesOf
<1>16. EntriesOf(z, m, st)
  <2>1. Joins(n, st, st)
    <3>1. n + 1 \in 1..m /\ n + 1 \notin {w} /\ ~(n + 1 <= n)
      BY <1>3, <1>6
    <3>2. st[n + 1] = "loading"
      BY <1>7, <3>1
    <3> QED
      BY <3>2 DEF Joins
  <2>2. NotHeld(y, NoTask) /\ NoTask \in Tasks \cup {NoTask}
    BY DEF NotHeld
  <2>3. EntriesOf(NewOf(y, n, NoTask), n + 1, st)
    BY <1>3, <1>15, <2>1, <2>2, NewGiven
  <2> QED
    BY <1>6, <2>3
<1>17. HasOneMore(z, y, n, NoTask)
  BY <1>3, <1>13, NewEntry
<1> HIDE DEF z
<1> DEFINE l == Len(y) + 1
<1>18. /\ DOMAIN z = DOMAIN y \cup {l} /\ Len(z) = l /\ l \notin DOMAIN y
       /\ z[l].worker = n + 1 /\ z[l].task = NoTask
       /\ \A j \in DOMAIN y : z[j] = y[j]
       /\ HeldTasks(z) = (HeldTasks(y) \cup {NoTask}) \ {NoTask}
  BY <1>17, Zenon DEF HasOneMore
<1> HIDE DEF l
<1>19. HeldTasks(z) = HeldTasks(e) \ {t}
  BY <1>2, <1>13, <1>18 DEF HeldTasks
<1>20. \A j \in DOMAIN z : j = l \/ \E k \in DOMAIN e : k # i /\ z[j] = e[k]
  BY <1>13, <1>18
<1>21. Leaves(i, t)
  BY <1>1, <1>4, OverLeaves, Zenon
<1>22. /\ answers' \in [Tasks -> Seq(Messages)]
       /\ \A s \in Tasks : answers'[s] # << >> <=> answers[s] # << >> \/ s = t
       /\ \A s \in Tasks : s # t => answers'[s] = answers[s]
       /\ \A s \in Tasks : \A k \in DOMAIN answers'[s] : answers'[s][k].task = s
       /\ \A j \in DOMAIN q : answers'[q[j]] = << >>
       /\ \A j \in DOMAIN e : e[j].task # NoTask /\ j # i => answers'[e[j].task] = << >>
  BY <1>21, Zenon DEF Leaves
<1>23. Apart(q, z, answers')
  <2>1. /\ \A j, k \in DOMAIN q : q[j] = q[k] => j = k
        /\ \A j \in DOMAIN q : \A k \in DOMAIN e : e[k].task # q[j]
    BY <1>3 DEF Apart
  <2>2. \A j \in DOMAIN q : q[j] # NoTask
    BY <1>3, PoolBounds
  <2>3. ASSUME NEW j \in DOMAIN q, NEW k \in DOMAIN z PROVE z[k].task # q[j]
    BY <1>18, <1>20, <2>1, <2>2
  <2>4. ASSUME NEW k \in DOMAIN z, z[k].task # NoTask PROVE answers'[z[k].task] = << >>
    BY <1>18, <1>20, <1>22, <2>4
  <2> QED
    BY <1>22, <2>1, <2>3, <2>4 DEF Apart
<1>24. PipesOf(z, m, inb, wk, o, parts')
  <2>1. ASSUME NEW j \in DOMAIN z
        PROVE  PipeOf(z[j].task, inb[z[j].worker], wk[z[j].worker], o[z[j].worker],
                      parts'[z[j].task])
    <3>1. CASE j = l
      <4>1. Idle(inb[m], wk[m], o[m])
        BY <1>9, Zenon DEF Idle
      <4>2. z[j].worker = m /\ z[j].task = NoTask
        BY <1>6, <1>18, <3>1
      <4> QED
        BY <4>1, <4>2, Zenon DEF PipeOf
    <3>2. CASE j # l
      <4>1. PICK k \in DOMAIN e : k # i /\ z[j] = e[k]
        BY <1>20, <3>2
      <4>2. e[k].worker \in 1..n /\ e[k].worker # w
        BY <1>14, <4>1
      <4>3. /\ inb[e[k].worker] = inbox[e[k].worker] /\ wk[e[k].worker] = work[e[k].worker]
            /\ o[e[k].worker] = outbox[e[k].worker]
        BY <1>9, <4>2
      <4>4. PipeOf(e[k].task, inbox[e[k].worker], work[e[k].worker], outbox[e[k].worker],
                   parts[e[k].task])
        BY <1>3, Zenon DEF PipesOf
      <4> QED
        BY <1>4, <4>1, <4>3, <4>4, Zenon
    <3> QED
      BY <3>1, <3>2
  <2>2. ASSUME NEW v \in 1..m, \A j \in DOMAIN z : z[j].worker # v
        PROVE  Idle(inb[v], wk[v], o[v])
    <3>1. v # m
      BY <1>6, <1>18, <2>2
    <3>2. v \in 1..n
      BY <1>3, <1>6, <3>1
    <3>3. CASE v = w
      BY <1>5, <1>9, <3>2, <3>3 DEF Idle
    <3>4. CASE v # w
      <4>1. \A k \in DOMAIN e : e[k].worker # v
        BY <1>2, <1>13, <1>18, <2>2, <3>4
      <4>2. Idle(inbox[v], work[v], outbox[v])
        BY <1>3, <3>2, <4>1, Zenon DEF PipesOf
      <4>3. inb[v] = inbox[v] /\ wk[v] = work[v] /\ o[v] = outbox[v]
        BY <1>9, <3>2, <3>4
      <4> QED
        BY <4>2, <4>3, Zenon
    <3> QED
      BY <3>3, <3>4
  <2> QED
    BY <2>1, <2>2, Zenon DEF PipesOf
<1>25. PoolOf(q, z, m, st, inb, wk, o, parts', answers')
  <2>1. WorkersTyped(m, st, inb, wk, o)
    BY <1>7, <1>8, Zenon DEF WorkersTyped
  <2> QED
    BY <1>3, <1>4, <1>16, <1>22, <1>23, <1>24, <2>1, Zenon DEF PoolOf
<1>26. OnePlace(q, z)
  <2>1. ASSUME q # << >>
        PROVE  Len(z) = MaxWorkers /\ \A j \in DOMAIN z : z[j].task = NoTask => j = l
    <3>1. NoneFree(e) /\ Len(e) = MaxWorkers
      BY <1>3, <2>1, Zenon DEF QueueWaits
    <3>2. \A j \in DOMAIN z : z[j].task = NoTask => j = l
      BY <1>20, <3>1 DEF NoneFree
    <3> QED
      BY <1>13, <1>18, <3>1, <3>2 DEF l
  <2> QED
    BY <2>1 DEF OnePlace
<1>27. Before(m, {w}, st, inb, wk, o)
  <2>1. Len(inbox') \in Nat /\ Len(inbox') >= m
    <3>1. m \in {Len(workers), Len(workers) + 1}
      BY DEF m
    <3> QED
      BY <1>4, <1>16, <3>1, PostedLength
  <2>2. /\ outbox' = [v \in 1..Len(inbox') |-> outbox'[v]]
        /\ \A v \in 1..Len(inbox') :
             outbox'[v] = IF v <= n /\ v \notin {w} THEN outbox[v] ELSE << >>
    BY <1>4, <2>1, OutboxesAre DEF n
  <2>3. ASSUME NEW v \in 1..Len(inbox')
        PROVE  outbox'[v] = IF v <= m THEN o[v] ELSE << >>
    <3>1. (v <= m => v \in 1..m) /\ (v <= n => v <= m)
      BY <1>3, <1>6, <2>1
    <3> QED
      BY <2>2, <3>1
  <2> HIDE DEF o
  <2>4. outbox' = [v \in 1..Len(inbox') |-> IF v <= m THEN o[v] ELSE << >>]
    BY <2>2, <2>3
  <2>5. {w} \subseteq 1..n
    BY <1>6
  <2> QED
    BY <1>4, <1>7, <1>10, <2>4, <2>5 DEF Before, n
<1>28. errors' \in 0..MaxErrors
  BY <1>4 DEF PoolInv
<1>29. PoolInv' /\ GoesOn(q, z, taskQueue', workerTasks')
  <2>1. m \in {Len(workers), Len(workers) + 1}
    BY DEF m
  <2> HIDE DEF o
  <2> QED
    BY <1>4, <1>25, <1>26, <1>27, <1>28, <2>1, PostedInv, Zenon
<1>30. ~Full(z)
  BY <1>18 DEF Full, NoneFree
<1>31. IF q = << >>
       THEN taskQueue' = << >> /\ HeldTasks(workerTasks') = HeldTasks(e) \ {t}
       ELSE /\ taskQueue' = Tail(q)
            /\ HeldTasks(workerTasks') = (HeldTasks(e) \ {t}) \cup {Head(q)}
  BY <1>19, <1>29, <1>30, Zenon DEF GoesOn
<1>32. IsOver(t)
  BY <1>2, <1>4, <1>22, <1>31, Zenon DEF IsOver
<1> QED
  BY <1>2, <1>29, <1>32

(***************************************************************************)
(* The actions of a worker, and taking a chunk: one pipe changes.          *)
LEMMA WhoWorks ==
  ASSUME PoolInv, NEW w \in 1..Len(workers),
         ~Idle(inbox[w], work[w], outbox[w])
  PROVE  \E i \in DOMAIN workerTasks :
           /\ workerTasks[i].worker = w
           /\ workerTasks[i].task \in Tasks
           /\ PipeOf(workerTasks[i].task, inbox[w], work[w], outbox[w], parts[workerTasks[i].task])
           /\ parts[workerTasks[i].task] \in 0..MaxChunks
<1>1. /\ PipesOf(workerTasks, Len(workers), inbox, work, outbox, parts)
      /\ parts \in [Tasks -> 0..MaxChunks]
  BY PoolFacts
<1>2. PICK i \in DOMAIN workerTasks : workerTasks[i].worker = w
  BY <1>1, Zenon DEF PipesOf
<1>3. PipeOf(workerTasks[i].task, inbox[w], work[w], outbox[w], parts[workerTasks[i].task])
  BY <1>1, <1>2, Zenon DEF PipesOf
<1>4. workerTasks[i].task \in Tasks
  BY <1>3, Zenon DEF PipeOf
<1>5. parts[workerTasks[i].task] \in 0..MaxChunks
  BY <1>1, <1>4
<1> QED
  BY <1>2, <1>3, <1>4, <1>5

OnlyPipe(w, t) ==
  /\ inbox' \in [1..Len(workers) -> Seq(Tasks)]
  /\ work' \in [1..Len(workers) -> Tasks \cup {NoTask}]
  /\ outbox' \in [1..Len(workers) -> Seq(Messages)]
  /\ parts' \in [Tasks -> 0..MaxChunks]
  /\ \A v \in 1..Len(workers) : v # w =>
       inbox'[v] = inbox[v] /\ work'[v] = work[v] /\ outbox'[v] = outbox[v]
  /\ \A s \in Tasks : s # t => parts'[s] = parts[s]
  /\ UNCHANGED <<taskQueue, workerTasks, workers, answers>>

LEMMA OnePipe ==
  ASSUME PoolInv, NEW w, NEW i \in DOMAIN workerTasks, workerTasks[i].worker = w,
         NEW t, workerTasks[i].task = t, OnlyPipe(w, t), errors' \in 0..MaxErrors,
         PipeOf(t, inbox'[w], work'[w], outbox'[w], parts'[t])
  PROVE  PoolInv'
<1> DEFINE n == Len(workers)
           e == workerTasks
<1>1. /\ n \in Nat /\ EntriesOf(e, n, workers)
      /\ PipesOf(e, n, inbox, work, outbox, parts)
      /\ WorkersTyped(n, workers, inbox, work, outbox)
  BY PoolFacts
<1>2. /\ inbox' \in [1..n -> Seq(Tasks)] /\ work' \in [1..n -> Tasks \cup {NoTask}]
      /\ outbox' \in [1..n -> Seq(Messages)] /\ parts' \in [Tasks -> 0..MaxChunks]
      /\ \A v \in 1..n : v # w =>
           inbox'[v] = inbox[v] /\ work'[v] = work[v] /\ outbox'[v] = outbox[v]
      /\ \A s \in Tasks : s # t => parts'[s] = parts[s]
      /\ taskQueue' = taskQueue /\ workerTasks' = workerTasks /\ workers' = workers
      /\ answers' = answers
  BY Zenon DEF OnlyPipe
<1>3. /\ \A j \in DOMAIN e : e[j].worker \in 1..n /\ e[j].task \in Tasks \cup {NoTask}
      /\ \A j \in DOMAIN e : j # i => e[j].worker # w
      /\ \A j \in DOMAIN e : j # i /\ e[j].task # NoTask => e[j].task # t
  <2>1. \A j \in DOMAIN e : e[j].worker \in 1..n /\ e[j].task \in Tasks \cup {NoTask}
    BY <1>1, EntryFacts DEF EntriesOf
  <2>2. /\ \A j, k \in DOMAIN e : e[j].worker = e[k].worker => j = k
        /\ \A j, k \in DOMAIN e : e[j].task = e[k].task /\ e[j].task # NoTask => j = k
    BY <1>1 DEF EntriesOf
  <2> QED
    BY <2>1, <2>2
<1> HIDE DEF n, e
<1>4. PipesOf(e, n, inbox', work', outbox', parts')
  <2>1. ASSUME NEW j \in DOMAIN e
        PROVE  PipeOf(e[j].task, inbox'[e[j].worker], work'[e[j].worker],
                      outbox'[e[j].worker], parts'[e[j].task])
    <3>1. CASE j = i
      BY <3>1, Zenon DEF e
    <3>2. CASE j # i
      <4>1. PipeOf(e[j].task, inbox[e[j].worker], work[e[j].worker], outbox[e[j].worker],
                   parts[e[j].task])
        BY <1>1, Zenon DEF PipesOf
      <4>2. /\ inbox'[e[j].worker] = inbox[e[j].worker] /\ work'[e[j].worker] = work[e[j].worker]
            /\ outbox'[e[j].worker] = outbox[e[j].worker]
        BY <1>2, <1>3, <3>2
      <4>3. CASE e[j].task = NoTask
        <5>1. Idle(inbox[e[j].worker], work[e[j].worker], outbox[e[j].worker])
          BY <4>1, <4>3, PoolBounds, Zenon DEF PipeOf
        <5>2. Idle(inbox'[e[j].worker], work'[e[j].worker], outbox'[e[j].worker])
          BY <4>2, <5>1, Zenon
        <5> QED
          BY <4>3, <5>2, Zenon DEF PipeOf
      <4>4. CASE e[j].task # NoTask
        <5>1. parts'[e[j].task] = parts[e[j].task]
          BY <1>2, <1>3, <3>2, <4>4
        <5> QED
          BY <4>1, <4>2, <5>1, Zenon
      <4> QED
        BY <4>3, <4>4
    <3> QED
      BY <3>1, <3>2
  <2>2. ASSUME NEW v \in 1..n, \A j \in DOMAIN e : e[j].worker # v
        PROVE  Idle(inbox'[v], work'[v], outbox'[v])
    <3>1. v # w
      BY <2>2 DEF e
    <3>2. Idle(inbox[v], work[v], outbox[v])
      BY <1>1, <2>2, Zenon DEF PipesOf
    <3> QED
      BY <1>2, <3>1, <3>2, Zenon
  <2> QED
    BY <2>1, <2>2, Zenon DEF PipesOf
<1>5. WorkersTyped(n, workers, inbox', work', outbox')
  BY <1>1, <1>2, Zenon DEF WorkersTyped
<1>6. PoolOf(taskQueue, e, n, workers, inbox', work', outbox', parts', answers)
  <2>1. PoolOf(taskQueue, e, n, workers, inbox, work, outbox, parts, answers)
    BY Zenon DEF PoolInv, e, n
  <2> QED
    BY <1>2, <1>4, <1>5, <2>1, Zenon DEF PoolOf
<1>7. QueueWaits(taskQueue, e)
  BY DEF PoolInv, e
<1>8. /\ PoolOf(taskQueue', workerTasks', Len(workers'), workers', inbox', work', outbox',
                parts', answers')
      /\ QueueWaits(taskQueue', workerTasks')
  BY <1>2, <1>6, <1>7, Zenon DEF n, e
<1> QED
  BY <1>8, Zenon DEF PoolInv

LEMMA ReadyInv ==
  ASSUME PoolInv, NEW w \in 1..Len(workers), Formatter!workerReady(w)
  PROVE  PoolInv' /\ UNCHANGED <<taskQueue, workerTasks, answers, parts>>
<1>1. /\ workers[w] = "loading" /\ workers' = [workers EXCEPT ![w] = "ready"]
      /\ UNCHANGED <<taskQueue, workerTasks, inbox, work, outbox, parts, answers, errors>>
  BY Zenon DEF Formatter!workerReady
<1>2. /\ workers \in Seq(WorkerStates) /\ Len(workers) \in Nat
      /\ EntriesOf(workerTasks, Len(workers), workers)
      /\ WorkersTyped(Len(workers), workers, inbox, work, outbox)
  BY PoolFacts
<1>3. /\ workers' \in Seq(WorkerStates) /\ Len(workers') = Len(workers)
      /\ \A v \in 1..Len(workers) : workers[v] # "terminated" => workers'[v] # "terminated"
  BY <1>1, <1>2 DEF WorkerStates
<1>4. EntriesOf(workerTasks, Len(workers), workers')
  <2>1. \A i \in DOMAIN workerTasks : workerTasks[i].worker \in 1..Len(workers)
    BY <1>2, EntryFacts DEF EntriesOf
  <2>2. \A i \in DOMAIN workerTasks : workers[workerTasks[i].worker] # "terminated"
    BY <1>2, Zenon DEF EntriesOf
  <2>3. \A i \in DOMAIN workerTasks : workers'[workerTasks[i].worker] # "terminated"
    BY <1>3, <2>1, <2>2
  <2> QED
    BY <1>2, <2>3, Zenon DEF EntriesOf
<1>5. WorkersTyped(Len(workers), workers', inbox, work, outbox)
  BY <1>2, <1>3, Zenon DEF WorkersTyped
<1>6. PoolOf(taskQueue, workerTasks, Len(workers), workers', inbox, work, outbox, parts, answers)
  BY <1>4, <1>5, Zenon DEF PoolInv, PoolOf
<1> QED
  BY <1>1, <1>3, <1>6, Zenon DEF PoolInv

LEMMA BeginsInv ==
  ASSUME PoolInv, NEW w \in 1..Len(workers), Formatter!workerBegins(w)
  PROVE  PoolInv' /\ UNCHANGED <<taskQueue, workerTasks, answers, parts>>
<1>1. /\ inbox[w] # << >> /\ work' = [work EXCEPT ![w] = Head(inbox[w])]
      /\ inbox' = [inbox EXCEPT ![w] = Tail(@)]
      /\ UNCHANGED <<taskQueue, workerTasks, workers, outbox, parts, answers, errors>>
  BY Zenon DEF Formatter!workerBegins
<1>2. PICK i \in DOMAIN workerTasks :
        /\ workerTasks[i].worker = w /\ workerTasks[i].task \in Tasks
        /\ PipeOf(workerTasks[i].task, inbox[w], work[w], outbox[w], parts[workerTasks[i].task])
        /\ parts[workerTasks[i].task] \in 0..MaxChunks
  <2>1. ~Idle(inbox[w], work[w], outbox[w])
    BY <1>1 DEF Idle
  <2> QED
    BY <2>1, WhoWorks
<1>3. PICK t : t = workerTasks[i].task
  OBVIOUS
<1>4. /\ inbox \in [1..Len(workers) -> Seq(Tasks)] /\ outbox \in [1..Len(workers) -> Seq(Messages)]
      /\ work \in [1..Len(workers) -> Tasks \cup {NoTask}] /\ parts \in [Tasks -> 0..MaxChunks]
  BY PoolFacts
<1>5. Head(inbox[w]) = t /\ t \in Tasks
      /\ PipeOf(t, Tail(inbox[w]), Head(inbox[w]), outbox[w], parts[t])
  BY <1>1, <1>2, <1>3, PipeBegins
<1>6. Tail(inbox[w]) \in Seq(Tasks)
  BY <1>1, <1>4
<1>7. OnlyPipe(w, t)
  BY <1>1, <1>4, <1>5, <1>6 DEF OnlyPipe
<1>8. PipeOf(t, inbox'[w], work'[w], outbox'[w], parts'[t])
  BY <1>1, <1>4, <1>5
<1>9. errors' \in 0..MaxErrors
  BY <1>1 DEF PoolInv
<1>10. PoolInv'
  BY <1>2, <1>3, <1>7, <1>8, <1>9, OnePipe
<1> QED
  BY <1>1, <1>10

(* What it posts.                                                          *)
LEMMA PostInv ==
  ASSUME PoolInv, NEW w \in 1..Len(workers), work[w] # NoTask,
         NEW kind \in {"chunk", "last", "error"}, Formatter!Post(w, kind),
         UNCHANGED <<taskQueue, workerTasks, workers, inbox, parts, answers>>,
         errors' \in 0..MaxErrors,
         \/ kind # "chunk" /\ work' = [work EXCEPT ![w] = NoTask]
         \/ /\ kind = "chunk" /\ work' = work /\ work[w] \in Chunked
            /\ parts[work[w]] + Len(outbox[w]) < MaxChunks
  PROVE  PoolInv'
<1>1. outbox' = [outbox EXCEPT ![w] = Append(@, [task |-> work[w], kind |-> kind])]
  BY DEF Formatter!Post
<1>2. PICK i \in DOMAIN workerTasks :
        /\ workerTasks[i].worker = w /\ workerTasks[i].task \in Tasks
        /\ PipeOf(workerTasks[i].task, inbox[w], work[w], outbox[w], parts[workerTasks[i].task])
        /\ parts[workerTasks[i].task] \in 0..MaxChunks
  <2>1. ~Idle(inbox[w], work[w], outbox[w])
    BY DEF Idle
  <2> QED
    BY <2>1, WhoWorks
<1>3. PICK t : t = workerTasks[i].task
  OBVIOUS
<1>4. /\ inbox \in [1..Len(workers) -> Seq(Tasks)] /\ outbox \in [1..Len(workers) -> Seq(Messages)]
      /\ work \in [1..Len(workers) -> Tasks \cup {NoTask}] /\ parts \in [Tasks -> 0..MaxChunks]
  BY PoolFacts
<1>5. /\ work[w] = t /\ t \in Tasks
      /\ \A k \in {"last", "error"} :
           PipeOf(t, inbox[w], NoTask, Append(outbox[w], [task |-> work[w], kind |-> k]), parts[t])
      /\ work[w] \in Chunked /\ parts[t] + Len(outbox[w]) < MaxChunks =>
           PipeOf(t, inbox[w], work[w], Append(outbox[w], [task |-> work[w], kind |-> "chunk"]),
                  parts[t])
  <2>1. outbox[w] \in Seq(Messages)
    BY <1>4
  <2>2. MayPost(t, inbox[w], work[w], outbox[w], parts[t])
    BY <1>2, <1>3, <2>1, PipePosts, Zenon
  <2> QED
    BY <2>2, Zenon DEF MayPost
<1>6. Append(outbox[w], [task |-> work[w], kind |-> kind]) \in Seq(Messages)
  <2>1. [task |-> work[w], kind |-> kind] \in Messages /\ outbox[w] \in Seq(Messages)
    BY <1>4, <1>5 DEF Messages
  <2> HIDE DEF Messages
  <2> QED
    BY <2>1
<1>7. work' \in [1..Len(workers) -> Tasks \cup {NoTask}]
      /\ \A v \in 1..Len(workers) : v # w => work'[v] = work[v]
  BY <1>4
<1>8. OnlyPipe(w, t)
  BY <1>1, <1>4, <1>6, <1>7 DEF OnlyPipe
<1>9. outbox'[w] = Append(outbox[w], [task |-> work[w], kind |-> kind])
      /\ inbox'[w] = inbox[w] /\ parts'[t] = parts[t]
  BY <1>1, <1>4
<1>10. PipeOf(t, inbox'[w], work'[w], outbox'[w], parts'[t])
  <2>1. CASE kind # "chunk" /\ work' = [work EXCEPT ![w] = NoTask]
    <3>1. work'[w] = NoTask /\ kind \in {"last", "error"}
      BY <1>4, <2>1
    <3> QED
      BY <1>5, <1>9, <3>1, Zenon
  <2>2. CASE /\ kind = "chunk" /\ work' = work /\ work[w] \in Chunked
             /\ parts[work[w]] + Len(outbox[w]) < MaxChunks
    BY <1>5, <1>9, <2>2, Zenon
  <2> QED
    BY <2>1, <2>2
<1> QED
  BY <1>2, <1>3, <1>8, <1>10, OnePipe

LEMMA PostsInv ==
  ASSUME PoolInv, NEW w \in 1..Len(workers),
         \/ Formatter!workerPostsChunk(w) \/ Formatter!workerPostsLast(w)
         \/ Formatter!workerThrows(w)
  PROVE  PoolInv' /\ UNCHANGED <<taskQueue, workerTasks, answers, parts>>
<1>1. errors \in 0..MaxErrors
  BY DEF PoolInv
<1>2. CASE Formatter!workerPostsChunk(w)
  <2>1. /\ work[w] \in Chunked /\ parts[work[w]] + Len(outbox[w]) < MaxChunks
        /\ Formatter!Post(w, "chunk")
        /\ UNCHANGED <<taskQueue, workerTasks, workers, inbox, work, parts, answers, errors>>
    BY <1>2, Zenon DEF Formatter!workerPostsChunk
  <2>2. work[w] # NoTask
    BY <2>1, PoolBounds
  <2>3. PoolInv'
    BY <1>1, <2>1, <2>2, PostInv
  <2> QED
    BY <2>1, <2>3
<1>3. CASE Formatter!workerPostsLast(w)
  <2>1. /\ work[w] # NoTask /\ Formatter!Post(w, "last") /\ work' = [work EXCEPT ![w] = NoTask]
        /\ UNCHANGED <<taskQueue, workerTasks, workers, inbox, parts, answers, errors>>
    BY <1>3, Zenon DEF Formatter!workerPostsLast, NoTask
  <2>2. PoolInv'
    BY <1>1, <2>1, PostInv
  <2> QED
    BY <2>1, <2>2
<1>4. CASE Formatter!workerThrows(w)
  <2>1. /\ work[w] # NoTask /\ Formatter!Post(w, "error") /\ work' = [work EXCEPT ![w] = NoTask]
        /\ errors < MaxErrors /\ errors' = errors + 1
        /\ UNCHANGED <<taskQueue, workerTasks, workers, inbox, parts, answers>>
    BY <1>4, Zenon DEF Formatter!workerThrows, NoTask
  <2>2. errors' \in 0..MaxErrors
    BY <1>1, <2>1, PoolBounds
  <2>3. PoolInv'
    BY <2>1, <2>2, PostInv
  <2> QED
    BY <2>1, <2>3
<1> QED
  BY <1>2, <1>3, <1>4

LEMMA ChunkInv ==
  ASSUME PoolInv, NEW w \in 1..Len(workers), Formatter!onWorkerChunk(w)
  PROVE  /\ PoolInv' /\ UNCHANGED <<taskQueue, workerTasks, answers>>
         /\ \A s \in Tasks : answers[s] # << >> => parts'[s] = parts[s]
<1>1. PICK i, t : Speaks(w, i, t)
  BY WhoSpeaks, Zenon DEF Formatter!onWorkerChunk
<1>2. /\ i \in DOMAIN workerTasks /\ workerTasks[i].worker = w /\ workerTasks[i].task = t
      /\ t \in Tasks /\ Formatter!TaskOf(w) = t /\ Formatter!Oldest(w) = Head(outbox[w])
      /\ outbox[w] \in Seq(Messages) /\ Head(outbox[w]) \in Messages
      /\ PipeOf(t, inbox[w], work[w], outbox[w], parts[t]) /\ answers[t] = << >>
  BY <1>1, Zenon DEF Speaks
<1>3. /\ outbox[w] # << >> /\ Head(outbox[w]).kind # "error" /\ Head(outbox[w]).kind # "last"
      /\ parts' = [parts EXCEPT ![t] = @ + 1] /\ outbox' = [outbox EXCEPT ![w] = Tail(@)]
      /\ UNCHANGED <<taskQueue, workerTasks, workers, inbox, work, answers, errors>>
  BY <1>2, Zenon DEF Formatter!onWorkerChunk, Formatter!isPart
<1>4. Head(outbox[w]).kind = "chunk"
  BY <1>2, <1>3 DEF Messages
<1>5. /\ inbox \in [1..Len(workers) -> Seq(Tasks)] /\ outbox \in [1..Len(workers) -> Seq(Messages)]
      /\ work \in [1..Len(workers) -> Tasks \cup {NoTask}] /\ parts \in [Tasks -> 0..MaxChunks]
  BY PoolFacts
<1>6. parts[t] + 1 <= MaxChunks /\ PipeOf(t, inbox[w], work[w], Tail(outbox[w]), parts[t] + 1)
  <2>1. parts[t] \in 0..MaxChunks
    BY <1>2, <1>5
  <2>2. Taken(t, inbox[w], work[w], outbox[w], parts[t])
    BY <1>2, <1>3, <2>1, PipeIsTaken, Zenon
  <2> QED
    BY <1>4, <2>2, Zenon DEF Taken
<1>7. Tail(outbox[w]) \in Seq(Messages)
  BY <1>2, <1>3
<1>8. /\ parts' \in [Tasks -> 0..MaxChunks] /\ parts'[t] = parts[t] + 1
      /\ \A s \in Tasks : s # t => parts'[s] = parts[s]
  BY <1>2, <1>3, <1>5, <1>6, NumberOf
<1>9. OnlyPipe(w, t)
  BY <1>3, <1>5, <1>7, <1>8 DEF OnlyPipe
<1>10. PipeOf(t, inbox'[w], work'[w], outbox'[w], parts'[t])
  BY <1>3, <1>5, <1>6, <1>8
<1>11. errors' \in 0..MaxErrors
  BY <1>3 DEF PoolInv
<1>12. PoolInv'
  BY <1>2, <1>9, <1>10, <1>11, OnePipe
<1> QED
  BY <1>2, <1>3, <1>8, <1>12

(***************************************************************************)
(* The invariant holds first and after every step, and what a step is for  *)
(* the abstract pool.                                                      *)
LEMMA InitPool == Formatter!Init => PoolInv
<1> SUFFICES ASSUME Formatter!Init PROVE PoolInv
  OBVIOUS
<1>1. /\ taskQueue = << >> /\ workerTasks = << >> /\ workers = << >>
      /\ inbox = << >> /\ work = << >> /\ outbox = << >> /\ errors = 0
      /\ parts = [t \in Tasks |-> 0] /\ answers = [t \in Tasks |-> << >>]
  BY DEF Formatter!Init
<1>2. MaxChunks \in Nat /\ MaxErrors \in Nat /\ MaxWorkers \in Nat
  BY PoolBounds, Zenon
<1>3. /\ parts \in [Tasks -> 0..MaxChunks] /\ errors \in 0..MaxErrors
  BY <1>1, <1>2
<1>4. /\ answers \in [Tasks -> Seq(Messages)] /\ \A t \in Tasks : answers[t] = << >>
  <2>1. << >> \in Seq(Messages)
    OBVIOUS
  <2> QED
    BY <1>1, <2>1
<1>5. Len(<< >>) = 0 /\ DOMAIN << >> = {} /\ 1..0 = {}
  OBVIOUS
<1>6. WorkersTyped(0, workers, inbox, work, outbox)
  BY <1>1, <1>5 DEF WorkersTyped
<1>7. EntriesOf(workerTasks, 0, workers)
  BY <1>1, <1>2, <1>5 DEF EntriesOf
<1>8. PipesOf(workerTasks, 0, inbox, work, outbox, parts)
  BY <1>1, <1>5 DEF PipesOf
<1>9. Apart(taskQueue, workerTasks, answers)
  BY <1>1, <1>4, <1>5 DEF Apart
<1>10. taskQueue \in Seq(Tasks) /\ Len(workers) = 0
  BY <1>1
<1>11. PoolOf(taskQueue, workerTasks, Len(workers), workers, inbox, work, outbox, parts, answers)
  BY <1>3, <1>4, <1>6, <1>7, <1>8, <1>9, <1>10, Zenon DEF PoolOf
<1>12. QueueWaits(taskQueue, workerTasks)
  BY <1>1 DEF QueueWaits
<1> QED
  BY <1>3, <1>11, <1>12 DEF PoolInv

PoolVars == <<taskQueue, workerTasks, answers>>

Moved ==
  \/ \E t \in Tasks : HandedIn(t)
  \/ \E t \in Tasks : IsOver(t)
  \/ UNCHANGED PoolVars /\ \A s \in Tasks : answers[s] # << >> => parts'[s] = parts[s]

LEMMA WorkerMoves ==
  ASSUME PoolInv, NEW w \in 1..Len(workers),
         Formatter!WorkerSteps(w) \/ Formatter!workerPostsChunk(w) \/ Formatter!workerThrows(w)
  PROVE  PoolInv' /\ Moved
<1>1. CASE Formatter!workerReady(w)
  <2>1. PoolInv' /\ UNCHANGED <<taskQueue, workerTasks, answers, parts>>
    BY <1>1, ReadyInv
  <2> QED
    BY <2>1 DEF Moved, PoolVars
<1>2. CASE Formatter!workerBegins(w)
  <2>1. PoolInv' /\ UNCHANGED <<taskQueue, workerTasks, answers, parts>>
    BY <1>2, BeginsInv
  <2> QED
    BY <2>1 DEF Moved, PoolVars
<1>3. CASE \/ Formatter!workerPostsChunk(w) \/ Formatter!workerPostsLast(w)
           \/ Formatter!workerThrows(w)
  <2>1. PoolInv' /\ UNCHANGED <<taskQueue, workerTasks, answers, parts>>
    BY <1>3, PostsInv
  <2> QED
    BY <2>1 DEF Moved, PoolVars
<1>4. CASE Formatter!onWorkerChunk(w)
  <2>1. /\ PoolInv' /\ UNCHANGED <<taskQueue, workerTasks, answers>>
        /\ \A s \in Tasks : answers[s] # << >> => parts'[s] = parts[s]
    BY <1>4, ChunkInv
  <2> QED
    BY <2>1 DEF Moved, PoolVars
<1>5. CASE Formatter!onWorkerMessage(w)
  <2>1. PoolInv' /\ \E t \in Tasks : IsOver(t)
    BY <1>5, MessageInv
  <2> QED
    BY <2>1, Zenon DEF Moved
<1>6. CASE Formatter!onWorkerError(w)
  <2>1. PoolInv' /\ \E t \in Tasks : IsOver(t)
    BY <1>6, ErrorInv
  <2> QED
    BY <2>1, Zenon DEF Moved
<1> QED
  BY <1>1, <1>2, <1>3, <1>4, <1>5, <1>6, Zenon DEF Formatter!WorkerSteps

LEMMA NextPool == PoolInv /\ [Formatter!Next]_Formatter!vars => PoolInv' /\ Moved
<1> SUFFICES ASSUME PoolInv, [Formatter!Next]_Formatter!vars PROVE PoolInv' /\ Moved
  OBVIOUS
<1>1. Formatter!Workers = 1..Len(workers)
  BY PoolFacts
<1>2. CASE \E t \in Tasks : Formatter!runTask(t)
  <2>1. PICK t \in Tasks : Formatter!runTask(t)
    BY <1>2
  <2>2. PoolInv' /\ HandedIn(t)
    BY <2>1, RunTaskInv
  <2> QED
    BY <2>2, Zenon DEF Moved
<1>3. CASE \E w \in Formatter!Workers :
             \/ Formatter!WorkerSteps(w) \/ Formatter!workerPostsChunk(w)
             \/ Formatter!workerThrows(w)
  <2>1. PICK w \in 1..Len(workers) :
          \/ Formatter!WorkerSteps(w) \/ Formatter!workerPostsChunk(w)
          \/ Formatter!workerThrows(w)
    BY <1>1, <1>3, Zenon
  <2> QED
    BY <2>1, WorkerMoves
<1>4. CASE UNCHANGED Formatter!vars
  <2>1. /\ taskQueue' = taskQueue /\ workerTasks' = workerTasks /\ workers' = workers
        /\ inbox' = inbox /\ work' = work /\ outbox' = outbox /\ parts' = parts
        /\ answers' = answers /\ errors' = errors
    BY <1>4 DEF Formatter!vars
  <2>2. PoolInv'
    BY <2>1, Zenon DEF PoolInv
  <2> QED
    BY <2>1, <2>2 DEF Moved, PoolVars
<1> QED
  BY <1>2, <1>3, <1>4, Zenon DEF Formatter!Next

(* What the invariant says to who uses the pool.                           *)
LEMMA PoolIsRight ==
  PoolInv => Formatter!TypeOK /\ Formatter!PoolIsBounded /\ Formatter!AnswersAreOwn
<1> SUFFICES ASSUME PoolInv
             PROVE  Formatter!TypeOK /\ Formatter!PoolIsBounded /\ Formatter!AnswersAreOwn
  OBVIOUS
<1>1. /\ Len(workers) \in Nat /\ workers \in Seq(WorkerStates)
      /\ Formatter!Workers = 1..Len(workers)
      /\ taskQueue \in Seq(Tasks) /\ parts \in [Tasks -> 0..MaxChunks]
      /\ answers \in [Tasks -> Seq(Messages)]
      /\ inbox \in [1..Len(workers) -> Seq(Tasks)]
      /\ work \in [1..Len(workers) -> Tasks \cup {NoTask}]
      /\ outbox \in [1..Len(workers) -> Seq(Messages)]
      /\ EntriesOf(workerTasks, Len(workers), workers)
      /\ Apart(taskQueue, workerTasks, answers)
  BY PoolFacts
<1>2. /\ workerTasks \in Seq(EntriesFor(Len(workers))) /\ Len(workerTasks) <= MaxWorkers
      /\ \A i \in DOMAIN workerTasks : workers[workerTasks[i].worker] # "terminated"
      /\ \A i, j \in DOMAIN workerTasks :
           workerTasks[i].worker = workerTasks[j].worker => i = j
  BY <1>1, Zenon DEF EntriesOf
<1>3. Formatter!Entry = EntriesFor(Len(workers)) /\ Formatter!Message = Messages
  BY <1>1 DEF Formatter!Entry, EntriesFor, Formatter!Message, Messages, NoTask
<1>4. errors \in 0..MaxErrors
  BY Zenon DEF PoolInv
<1>5. Formatter!TypeOK
  BY <1>1, <1>2, <1>3, <1>4, Zenon DEF Formatter!TypeOK, WorkerStates, NoTask
<1>6. Formatter!PoolIsBounded
  BY <1>2, Zenon DEF Formatter!PoolIsBounded, MaxWorkers
<1>7. ASSUME NEW w \in Formatter!Workers, outbox[w] # << >>
      PROVE  /\ \E i \in DOMAIN workerTasks : workerTasks[i].worker = w
             /\ Formatter!Oldest(w).task = Formatter!TaskOf(w)
  <2>1. \E i, t : Speaks(w, i, t)
    BY <1>1, <1>7, WhoSpeaks
  <2>2. PICK i, t : Speaks(w, i, t)
    BY <2>1
  <2> QED
    BY <2>2, Zenon DEF Speaks
<1>8. \A t \in Tasks : \A i \in DOMAIN answers[t] : answers[t][i].task = t
  BY <1>1, Zenon DEF Apart
<1>9. Formatter!AnswersAreOwn
  BY <1>7, <1>8, Zenon DEF Formatter!AnswersAreOwn
<1> QED
  BY <1>5, <1>6, <1>9

(* A task that is over stays as it is.                                     *)
LEMMA OverStays ==
  PoolInv /\ Moved =>
    \A t \in Tasks : Formatter!Answered(t) => UNCHANGED <<answers[t], parts[t]>>
<1> SUFFICES ASSUME PoolInv, Moved, NEW t \in Tasks, answers[t] # << >>
             PROVE  answers'[t] = answers[t] /\ parts'[t] = parts[t]
  BY DEF Formatter!Answered
<1>1. CASE \E s \in Tasks : HandedIn(s)
  BY <1>1 DEF HandedIn
<1>2. CASE \E s \in Tasks : IsOver(s)
  BY <1>2 DEF IsOver
<1>3. CASE UNCHANGED PoolVars /\ \A s \in Tasks : answers[s] # << >> => parts'[s] = parts[s]
  BY <1>3 DEF PoolVars
<1> QED
  BY <1>1, <1>2, <1>3 DEF Moved

(* The pool implements TaskPool.                                           *)
LEMMA PlacesAre ==
  Formatter!Pool!Cardinality(HeldTasks(workerTasks)) = Cardinality(HeldTasks(workerTasks))
BY DEF Cardinality, Formatter!Pool!Cardinality


LEMMA InitTaskPool == Formatter!Init => Formatter!Pool!PoolInit
<1> SUFFICES ASSUME Formatter!Init PROVE Formatter!Pool!PoolInit
  OBVIOUS
<1>1. taskQueue = << >> /\ workerTasks = << >> /\ \A t \in Tasks : answers[t] = << >>
  BY DEF Formatter!Init
<1>2. DOMAIN << >> = {}
  OBVIOUS
<1> QED
  BY <1>1, <1>2 DEF Formatter!Pool!PoolInit, Formatter!Answered

LEMMA NextTaskPool ==
  PoolInv /\ PoolInv' /\ Moved => [Formatter!Pool!PoolNext]_Formatter!Pool!poolVars
<1> SUFFICES ASSUME PoolInv, PoolInv', Moved
             PROVE  [Formatter!Pool!PoolNext]_Formatter!Pool!poolVars
  OBVIOUS
<1>1. HeldTasks(workerTasks) = {workerTasks[i].task : i \in DOMAIN workerTasks} \ {Formatter!NoTask}
  BY DEF HeldTasks, NoTask
<1>2. HeldTasks(workerTasks') =
        {workerTasks'[i].task : i \in DOMAIN workerTasks'} \ {Formatter!NoTask}
  BY DEF HeldTasks, NoTask
<1>3. /\ Len(workers) \in Nat /\ EntriesOf(workerTasks, Len(workers), workers)
      /\ QueueWaits(taskQueue, workerTasks)
  BY PoolFacts
<1>4. \A t \in Tasks : Formatter!Answered(t) <=> answers[t] # << >>
  BY DEF Formatter!Answered
<1>5. \A t \in Tasks : Formatter!Answered(t)' <=> answers'[t] # << >>
  BY DEF Formatter!Answered
<1>6. ASSUME NEW t \in Tasks, HandedIn(t) PROVE Formatter!Pool!Submit(t)
  <2>1. /\ \A i \in DOMAIN taskQueue : taskQueue[i] # t
        /\ t \notin HeldTasks(workerTasks) /\ answers[t] = << >>
        /\ answers' = answers
        /\ IF Full(workerTasks)
           THEN taskQueue' = Append(taskQueue, t)
                /\ HeldTasks(workerTasks') = HeldTasks(workerTasks)
           ELSE taskQueue' = taskQueue
                /\ HeldTasks(workerTasks') = HeldTasks(workerTasks) \cup {t}
    BY <1>6, Zenon DEF HandedIn
  <2>2. Formatter!Pool!Cardinality(HeldTasks(workerTasks)) < Formatter!MAX_WORKERS
          <=> ~Full(workerTasks)
    BY <1>3, PlacesAre, PlacesCount, Zenon DEF MaxWorkers
  <2>3. t \notin Formatter!Pool!Known
    BY <1>1, <1>4, <2>1 DEF Formatter!Pool!Known
  <2>4. {s \in Tasks : Formatter!Answered(s)}' = {s \in Tasks : Formatter!Answered(s)}
    BY <2>1 DEF Formatter!Answered
  <2> QED
    BY <1>1, <1>2, <2>1, <2>2, <2>3, <2>4, Zenon DEF Formatter!Pool!Submit
<1>7. ASSUME NEW t \in Tasks, IsOver(t) PROVE Formatter!Pool!Finish(t)
  <2>1. /\ t \in HeldTasks(workerTasks)
        /\ IF taskQueue = << >>
           THEN taskQueue' = << >> /\ HeldTasks(workerTasks') = HeldTasks(workerTasks) \ {t}
           ELSE /\ taskQueue' = Tail(taskQueue)
                /\ HeldTasks(workerTasks') =
                     (HeldTasks(workerTasks) \ {t}) \cup {Head(taskQueue)}
        /\ \A s \in Tasks : answers'[s] # << >> <=> answers[s] # << >> \/ s = t
    BY <1>7, Zenon DEF IsOver
  <2>2. {s \in Tasks : Formatter!Answered(s)}' = {s \in Tasks : Formatter!Answered(s)} \cup {t}
    BY <2>1 DEF Formatter!Answered
  <2> QED
    BY <1>1, <1>2, <2>1, <2>2, Zenon DEF Formatter!Pool!Finish
<1>8. CASE UNCHANGED PoolVars
  <2>1. taskQueue' = taskQueue /\ workerTasks' = workerTasks /\ answers' = answers
    BY <1>8 DEF PoolVars
  <2> QED
    BY <2>1 DEF Formatter!Pool!poolVars, Formatter!Answered
<1> QED
  BY <1>6, <1>7, <1>8, Zenon DEF Moved, Formatter!Pool!PoolNext

(* All of it together with the other two parts, which leave the pool as it *)
(* is while they run.                                                      *)
LEMMA CommonStep ==
  CommonNext => [Formatter!Next]_Formatter!vars
<1> SUFFICES ASSUME CommonNext PROVE [Formatter!Next]_Formatter!vars
  OBVIOUS
<1>1. Formatter!Next \/ UNCHANGED formatterVars
  BY Zenon DEF CommonNext
<1> QED
  BY <1>1 DEF formatterVars, Formatter!vars

LEMMA CommonStutter ==
  UNCHANGED <<part, vars, eventVars, formatterVars>> => UNCHANGED Formatter!vars
BY DEF formatterVars, Formatter!vars

(* The formatter pool is a pool of workers as TaskPool says: what its type *)
(* says, at most MAX_WORKERS workers, none twice and none terminated, and  *)
(* no callback with the answer of another task; every task handed in waits *)
(* in turn, runs and is over, once; and after that its callback is not     *)
(* called again (FormatterWorkerPool.ts:36, 60 and 91).                    *)
THEOREM FormatterPoolWorks == CommonSpec => FormatterIsTaskPool
<1>1. CommonInit => PoolInv /\ Formatter!Pool!PoolInit
  BY InitPool, InitTaskPool, Zenon DEF CommonInit
<1>2. [CommonNext]_<<part, vars, eventVars, formatterVars>> => [Formatter!Next]_Formatter!vars
  BY CommonStep, CommonStutter, Zenon
<1>3. PoolInv /\ [Formatter!Next]_Formatter!vars =>
        PoolInv' /\ [Formatter!Pool!PoolNext]_Formatter!Pool!poolVars
  BY NextPool, NextTaskPool, Zenon
<1>4. PoolInv /\ [Formatter!Next]_Formatter!vars =>
        [\A t \in Tasks :
           Formatter!Answered(t) => UNCHANGED <<answers[t], parts[t]>>]_Formatter!vars
  BY NextPool, OverStays, Zenon
<1>5. PoolInv => Formatter!TypeOK /\ Formatter!PoolIsBounded /\ Formatter!AnswersAreOwn
  BY PoolIsRight
<1>6. CommonSpec => /\ []PoolInv /\ [][Formatter!Next]_Formatter!vars
                    /\ Formatter!Pool!PoolInit
  BY <1>1, <1>2, <1>3, PTL DEF CommonSpec
<1>7. CommonSpec => [](Formatter!TypeOK /\ Formatter!PoolIsBounded /\ Formatter!AnswersAreOwn)
  BY <1>5, <1>6, PTL
<1>8. CommonSpec => Formatter!ImplementsTaskPool
  BY <1>3, <1>6, PTL DEF Formatter!ImplementsTaskPool, Formatter!Pool!PoolSpec
<1>9. CommonSpec => Formatter!OverIsOver
  BY <1>4, <1>6, PTL DEF Formatter!OverIsOver
<1> QED
  BY <1>7, <1>8, <1>9 DEF FormatterIsTaskPool

(***************************************************************************)
(* The listeners of one type of event.                                     *)
Registrations == 1..Len(listenerOf)

CalledBy(d) == Events!ToSet(called[d])

(* Every registration is there or marked as removed, the entry of the map  *)
(* goes with the last one, and a listener of once is registered once.      *)
Registered ==
  /\ listenerOf \in Seq(Listeners) /\ Len(listenerOf) <= MaxTuples
  /\ listeners \cup disposed = Registrations /\ listeners \cap disposed = {}
  /\ hasEntry \in BOOLEAN /\ (hasEntry <=> listeners # {})
  /\ \A i, j \in Registrations :
       listenerOf[i] = listenerOf[j] /\ listenerOf[i] \in OnceListeners => i = j

(* A promise of once is resolved when its registration is taken out.       *)
OnceResolved ==
  \A l \in onceResolved : l \in OnceListeners /\ \E i \in disposed : listenerOf[i] = l

(* What dispatches called was registered, and a listener of once that was  *)
(* called is taken out, so that no other dispatch will call it.            *)
CallsAreRight ==
  /\ called \in Seq(Seq(Events!Tuples)) /\ over \subseteq DOMAIN called
  /\ \A d \in DOMAIN called : CalledBy(d) \subseteq Registrations
  /\ \A d \in DOMAIN called : \A i \in CalledBy(d) :
       listenerOf[i] \in OnceListeners =>
         i \in disposed /\ \A e \in DOMAIN called : i \in CalledBy(e) => d = e

(* What a dispatch called it has passed, and what it passed it called, or  *)
(* the tuple is taken out.                                                 *)
FrameRight(f, c, known, gone) ==
  /\ f.dispatch \in DOMAIN c /\ f.snapshot \subseteq known
  /\ \A i \in Events!ToSet(c[f.dispatch]) : i <= f.reached
  /\ \A i \in f.snapshot : i <= f.reached => i \in gone \/ i \in Events!ToSet(c[f.dispatch])

FrameRecord ==
  [dispatch : Nat, snapshot : SUBSET Events!Tuples, reached : Nat, calling : BOOLEAN]

FramesAreRight ==
  /\ stack \in Seq(FrameRecord)
  /\ \A k \in DOMAIN stack : FrameRight(stack[k], called, Registrations, disposed)
  /\ \A j, k \in DOMAIN stack : stack[j].dispatch = stack[k].dispatch => j = k

EventsInv == Registered /\ OnceResolved /\ CallsAreRight /\ FramesAreRight

LEMMA InitEvents == Events!Init => EventsInv
<1> SUFFICES ASSUME Events!Init PROVE EventsInv
  OBVIOUS
<1>1. /\ listeners = {} /\ hasEntry = FALSE /\ listenerOf = << >> /\ disposed = {}
      /\ stack = << >> /\ called = << >> /\ over = {} /\ onceResolved = {}
  BY DEF Events!Init
<1>2. /\ Len(<< >>) = 0 /\ DOMAIN << >> = {} /\ << >> \in Seq(Listeners)
      /\ << >> \in Seq(Seq(Events!Tuples)) /\ << >> \in Seq(FrameRecord) /\ 1..0 = {}
  OBVIOUS
<1>3. MaxTuples \in Nat
  BY EventsAssumption DEF Events!ListenersAssumption
<1>4. Registered
  <2>1. Registrations = {} /\ hasEntry \in BOOLEAN /\ (hasEntry <=> listeners # {})
    BY <1>1, <1>2 DEF Registrations
  <2>2. listenerOf \in Seq(Listeners) /\ Len(listenerOf) <= MaxTuples
    BY <1>1, <1>2, <1>3
  <2> QED
    BY <1>1, <2>1, <2>2, Zenon DEF Registered
<1>5. OnceResolved /\ CallsAreRight /\ FramesAreRight
  BY <1>1, <1>2 DEF OnceResolved, CallsAreRight, FramesAreRight
<1> QED
  BY <1>4, <1>5 DEF EventsInv

(* The top of the stack.                                                   *)
LEMMA TopFrame ==
  ASSUME EventsInv, stack # << >>
  PROVE  /\ Len(stack) \in DOMAIN stack /\ Len(stack) \in Nat \ {0}
         /\ Events!Top = stack[Len(stack)] /\ Events!Top \in FrameRecord
         /\ FrameRight(Events!Top, called, Registrations, disposed)
<1>1. /\ stack \in Seq(FrameRecord)
      /\ \A k \in DOMAIN stack : FrameRight(stack[k], called, Registrations, disposed)
  BY DEF EventsInv, FramesAreRight
<1>2. Len(stack) \in DOMAIN stack /\ Len(stack) \in Nat \ {0}
  BY <1>1
<1>3. stack[Len(stack)] \in FrameRecord
  BY <1>1, <1>2
<1> QED
  BY <1>1, <1>2, <1>3 DEF Events!Top

(* A call is entered at the end of what its dispatch called.               *)
Calls(d, i) ==
  /\ called' \in Seq(Seq(Events!Tuples)) /\ DOMAIN called' = DOMAIN called
  /\ \A e \in DOMAIN called : e # d => called'[e] = called[e]
  /\ Events!Last(called'[d]) = i
  /\ Events!ToSet(called'[d]) = Events!ToSet(called[d]) \cup {i}

LEMMA CallIsEntered ==
  ASSUME EventsInv, NEW d \in DOMAIN called, NEW i \in Events!Tuples,
         called' = [called EXCEPT ![d] = Append(@, i)]
  PROVE  Calls(d, i)
<1> DEFINE x == called[d]
           y == Append(x, i)
           T == Events!Tuples
<1>1. called \in Seq(Seq(T))
  BY DEF EventsInv, CallsAreRight
<1> HIDE DEF T
<1>2. /\ x \in Seq(T) /\ Len(x) \in Nat /\ DOMAIN x = 1..Len(x)
  BY <1>1
<1>3. i \in T
  BY DEF T
<1>4. /\ y \in Seq(T) /\ Len(y) = Len(x) + 1 /\ DOMAIN y = 1..Len(x) + 1
      /\ y[Len(x) + 1] = i /\ \A k \in 1..Len(x) : y[k] = x[k]
  BY <1>2, <1>3
<1>5. /\ called' = [called EXCEPT ![d] = y]
  OBVIOUS
<1> HIDE DEF x, y
<1>6. /\ called' \in Seq(Seq(T)) /\ DOMAIN called' = DOMAIN called /\ called'[d] = y
      /\ \A e \in DOMAIN called : e # d => called'[e] = called[e]
  BY <1>1, <1>4, <1>5
<1>7. Events!Last(called'[d]) = i
  BY <1>4, <1>6 DEF Events!Last
<1>8. Events!ToSet(y) = Events!ToSet(x) \cup {i}
  <2>1. {y[k] : k \in 1..Len(x) + 1} = {x[k] : k \in 1..Len(x)} \cup {i}
    BY <1>2, <1>4
  <2> QED
    BY <1>2, <1>4, <2>1 DEF Events!ToSet
<1>9. Events!ToSet(called'[d]) = Events!ToSet(called[d]) \cup {i}
  BY <1>6, <1>8 DEF x
<1> QED
  BY <1>6, <1>7, <1>9 DEF Calls, T

LEMMA FrameStays ==
  ASSUME NEW f, NEW c, NEW known, NEW gone, NEW d, NEW seen, NEW lost,
         FrameRight(f, c, known, gone), f.dispatch \in DOMAIN d, d[f.dispatch] = c[f.dispatch],
         known \subseteq seen, gone \subseteq lost
  PROVE  FrameRight(f, d, seen, lost)
BY DEF FrameRight

(* What a step that calls nothing leaves.                                  *)
LEMMA CallsStay ==
  ASSUME EventsInv, called' = called, over' \subseteq DOMAIN called,
         Registrations \subseteq Registrations', disposed \subseteq disposed',
         \A i \in Registrations : listenerOf'[i] = listenerOf[i]
  PROVE  CallsAreRight'
<1>1. /\ called \in Seq(Seq(Events!Tuples))
      /\ \A d \in DOMAIN called : CalledBy(d) \subseteq Registrations
      /\ \A d \in DOMAIN called : \A i \in CalledBy(d) :
           listenerOf[i] \in OnceListeners =>
             i \in disposed /\ \A e \in DOMAIN called : i \in CalledBy(e) => d = e
  BY DEF EventsInv, CallsAreRight
<1>2. \A d : CalledBy(d)' = CalledBy(d)
  BY DEF CalledBy
<1>3. ASSUME NEW d \in DOMAIN called, NEW i \in CalledBy(d), listenerOf'[i] \in OnceListeners
      PROVE  i \in disposed' /\ \A e \in DOMAIN called : i \in CalledBy(e) => d = e
  <2>1. i \in Registrations
    BY <1>1, <1>3
  <2>2. listenerOf[i] \in OnceListeners
    BY <1>3, <2>1
  <2> QED
    BY <1>1, <1>3, <2>2
<1> QED
  BY <1>1, <1>2, <1>3, Zenon DEF CallsAreRight

LEMMA FramesStay ==
  ASSUME EventsInv, UNCHANGED <<stack, called>>,
         Registrations \subseteq Registrations', disposed \subseteq disposed'
  PROVE  FramesAreRight'
<1>1. /\ stack \in Seq(FrameRecord)
      /\ \A k \in DOMAIN stack : FrameRight(stack[k], called, Registrations, disposed)
      /\ \A j, k \in DOMAIN stack : stack[j].dispatch = stack[k].dispatch => j = k
  BY DEF EventsInv, FramesAreRight
<1>2. ASSUME NEW k \in DOMAIN stack
      PROVE  FrameRight(stack[k], called, Registrations', disposed')
  <2>1. stack[k].dispatch \in DOMAIN called
    BY <1>1 DEF FrameRight
  <2> QED
    BY <1>1, <2>1, FrameStays
<1> QED
  BY <1>1, <1>2 DEF FramesAreRight

LEMMA AddsListener ==
  ASSUME EventsInv, NEW l \in Listeners, Events!addEventListener(l)
  PROVE  EventsInv'
<1> DEFINE n == Len(listenerOf) + 1
<1>1. /\ Len(listenerOf) < MaxTuples /\ listenerOf' = Append(listenerOf, l)
      /\ listeners' = listeners \cup {n} /\ hasEntry' = TRUE
      /\ UNCHANGED <<disposed, stack, called, over, onceResolved>>
  BY DEF Events!addEventListener, Events!newTuple
<1>2. l \in OnceListeners => \A i \in DOMAIN listenerOf : listenerOf[i] # l
  BY DEF Events!addEventListener, Events!Contains
<1>3. /\ listenerOf \in Seq(Listeners)
      /\ listeners \cup disposed = Registrations /\ listeners \cap disposed = {}
      /\ \A i, j \in Registrations :
           listenerOf[i] = listenerOf[j] /\ listenerOf[i] \in OnceListeners => i = j
  BY DEF EventsInv, Registered
<1>4. /\ listenerOf' \in Seq(Listeners) /\ Len(listenerOf') = n /\ listenerOf'[n] = l
      /\ \A i \in 1..Len(listenerOf) : listenerOf'[i] = listenerOf[i]
      /\ Len(listenerOf) \in Nat /\ DOMAIN listenerOf = 1..Len(listenerOf)
  BY <1>1, <1>3
<1>5. /\ Registrations' = Registrations \cup {n} /\ n \notin Registrations /\ n \in Nat
      /\ \A i \in Registrations : listenerOf'[i] = listenerOf[i]
  BY <1>4 DEF Registrations
<1>6. Registered'
  <2>1. Len(listenerOf') <= MaxTuples
    BY <1>1, <1>4, EventsAssumption DEF Events!ListenersAssumption
  <2>2. /\ listeners' \cup disposed' = Registrations' /\ listeners' \cap disposed' = {}
        /\ listeners' # {}
    BY <1>1, <1>3, <1>5
  <2>3. ASSUME NEW i \in Registrations', NEW j \in Registrations',
               listenerOf'[i] = listenerOf'[j], listenerOf'[i] \in OnceListeners
        PROVE  i = j
    <3>1. \A k \in Registrations : listenerOf'[k] = l => l \notin OnceListeners
      BY <1>2, <1>4, <1>5 DEF Registrations
    <3>2. i \in Registrations /\ j \in Registrations => i = j
      BY <1>3, <1>5, <2>3
    <3> QED
      BY <1>4, <1>5, <2>3, <3>1, <3>2
  <2>4. hasEntry' \in BOOLEAN /\ (hasEntry' <=> listeners' # {})
    BY <1>1, <2>2
  <2> QED
    BY <1>4, <2>1, <2>2, <2>3, <2>4, Zenon DEF Registered
<1>7. OnceResolved'
  <2>1. \A i \in disposed : listenerOf'[i] = listenerOf[i]
    BY <1>3, <1>5
  <2> QED
    BY <1>1, <2>1 DEF EventsInv, OnceResolved
<1>8. CallsAreRight'
  BY <1>1, <1>5, CallsStay DEF EventsInv, CallsAreRight
<1>9. FramesAreRight'
  BY <1>1, <1>5, FramesStay
<1> QED
  BY <1>6, <1>7, <1>8, <1>9 DEF EventsInv

(* What a removal does to the registrations.                               *)
Removed(l) ==
  /\ Registered' /\ disposed \subseteq disposed'
  /\ \A i \in listeners : listenerOf[i] = l => i \in disposed'
  /\ \A i \in disposed' : i \in disposed \/ listenerOf[i] = l

LEMMA RemovesListener ==
  ASSUME EventsInv, NEW l, Events!remove(l), listenerOf' = listenerOf
  PROVE  Removed(l)
<1> DEFINE R == {i \in listeners : listenerOf[i] = l}
<1>1. /\ listeners' = listeners \ R /\ disposed' = disposed \cup R
      /\ hasEntry' = (hasEntry /\ listeners' # {})
  BY DEF Events!remove, Events!removes, Events!keepsEntry
<1>2. /\ listenerOf \in Seq(Listeners) /\ Len(listenerOf) <= MaxTuples
      /\ listeners \cup disposed = Registrations /\ listeners \cap disposed = {}
      /\ (hasEntry <=> listeners # {})
      /\ \A i, j \in Registrations :
           listenerOf[i] = listenerOf[j] /\ listenerOf[i] \in OnceListeners => i = j
  BY Zenon DEF EventsInv, Registered
<1>3. Registrations' = Registrations
  BY DEF Registrations
<1>4. R \subseteq listeners
  OBVIOUS
<1>5. hasEntry' \in BOOLEAN /\ (hasEntry' <=> listeners' # {})
  <2>1. listeners' # {} => listeners # {}
    BY <1>1
  <2> QED
    BY <1>1, <1>2, <2>1, Zenon
<1>6. listeners' \cup disposed' = Registrations' /\ listeners' \cap disposed' = {}
  BY <1>1, <1>2, <1>3, <1>4
<1>7. Registered'
  BY <1>2, <1>3, <1>5, <1>6, Zenon DEF Registered
<1> QED
  BY <1>1, <1>7 DEF Removed

LEMMA RemovesInv ==
  ASSUME EventsInv, NEW l \in Listeners, Events!removeEventListener(l)
  PROVE  EventsInv'
<1>1. /\ l \notin OnceListeners /\ Events!remove(l)
      /\ UNCHANGED <<listenerOf, stack, called, over, onceResolved>>
  BY DEF Events!removeEventListener
<1>2. Removed(l)
  BY <1>1, RemovesListener
<1>3. Registered' /\ disposed \subseteq disposed' /\ Registrations' = Registrations
  BY <1>1, <1>2 DEF Removed, Registrations
<1>4. OnceResolved'
  BY <1>1, <1>3 DEF EventsInv, OnceResolved
<1>5. CallsAreRight'
  BY <1>1, <1>3, CallsStay DEF EventsInv, CallsAreRight
<1>6. FramesAreRight'
  BY <1>1, <1>3, FramesStay
<1> QED
  BY <1>3, <1>4, <1>5, <1>6 DEF EventsInv

(* What a step leaves as it is.                                            *)
LEMMA RegisteredStays ==
  ASSUME EventsInv, UNCHANGED <<listeners, hasEntry, listenerOf, disposed, onceResolved>>
  PROVE  Registered' /\ OnceResolved' /\ Registrations' = Registrations
BY DEF EventsInv, Registered, OnceResolved, Registrations

LEMMA DispatchInv ==
  ASSUME EventsInv, Events!dispatchEventToListeners
  PROVE  EventsInv'
<1> DEFINE n == Len(called) + 1
           f == [dispatch |-> n, snapshot |-> listeners, reached |-> 0, calling |-> FALSE]
<1>1. /\ stack' = Append(stack, f) /\ called' = Append(called, << >>)
      /\ UNCHANGED <<listeners, hasEntry, listenerOf, disposed, over, onceResolved>>
  BY DEF Events!dispatchEventToListeners
<1>2. /\ called \in Seq(Seq(Events!Tuples)) /\ over \subseteq DOMAIN called
      /\ \A d \in DOMAIN called : CalledBy(d) \subseteq Registrations
      /\ \A d \in DOMAIN called : \A i \in CalledBy(d) :
           listenerOf[i] \in OnceListeners =>
             i \in disposed /\ \A e \in DOMAIN called : i \in CalledBy(e) => d = e
  BY DEF EventsInv, CallsAreRight
<1>3. /\ stack \in Seq(FrameRecord)
      /\ \A k \in DOMAIN stack : FrameRight(stack[k], called, Registrations, disposed)
      /\ \A j, k \in DOMAIN stack : stack[j].dispatch = stack[k].dispatch => j = k
  BY DEF EventsInv, FramesAreRight
<1>4. /\ listeners \subseteq Registrations /\ Registrations \subseteq Nat
      /\ Registrations \subseteq Events!Tuples
  BY EventsAssumption
  DEF EventsInv, Registered, Registrations, Events!Tuples, Events!ListenersAssumption
<1>5. Registered' /\ OnceResolved' /\ Registrations' = Registrations
  BY <1>1, RegisteredStays
<1>6. << >> \in Seq(Events!Tuples)
  OBVIOUS
<1> DEFINE S == Seq(Events!Tuples)
<1> HIDE DEF S
<1>7. called \in Seq(S) /\ << >> \in S
  BY <1>2, <1>6 DEF S
<1>8. /\ called' \in Seq(S) /\ Len(called) \in Nat
      /\ DOMAIN called' = DOMAIN called \cup {n} /\ n \notin DOMAIN called
      /\ called'[n] = << >> /\ \A d \in DOMAIN called : called'[d] = called[d]
  BY <1>1, <1>7
<1>9. Events!ToSet(called'[n]) = {} /\ \A d \in DOMAIN called : CalledBy(d)' = CalledBy(d)
  <2>1. Events!ToSet(<< >>) = {}
    BY DEF Events!ToSet
  <2> QED
    BY <1>8, <2>1 DEF CalledBy
<1>10. CallsAreRight'
  <2>0. ASSUME NEW d \in DOMAIN called', d \notin DOMAIN called
        PROVE  CalledBy(d)' = {}
    BY <1>8, <1>9, <2>0 DEF CalledBy
  <2>1. \A d \in DOMAIN called' : CalledBy(d)' \subseteq Registrations'
    BY <1>2, <1>5, <1>8, <1>9, <2>0
  <2>2. ASSUME NEW d \in DOMAIN called', NEW i \in CalledBy(d)', listenerOf'[i] \in OnceListeners
        PROVE  i \in disposed' /\ \A e \in DOMAIN called' : i \in CalledBy(e)' => d = e
    <3>1. d \in DOMAIN called /\ i \in CalledBy(d) /\ listenerOf[i] \in OnceListeners
      BY <1>1, <1>8, <1>9, <2>0, <2>2
    <3>2. \A e \in DOMAIN called' : i \in CalledBy(e)' => e \in DOMAIN called /\ i \in CalledBy(e)
      BY <1>8, <1>9, <2>0
    <3> QED
      BY <1>1, <1>2, <3>1, <3>2
  <2>3. called' \in Seq(Seq(Events!Tuples)) /\ over' \subseteq DOMAIN called'
    BY <1>1, <1>2, <1>8 DEF S
  <2> QED
    BY <2>1, <2>2, <2>3, Zenon DEF CallsAreRight
<1>11. /\ f \in FrameRecord /\ f.dispatch = n
       /\ FrameRight(f, called', Registrations', disposed')
  <2>1. f \in FrameRecord /\ f.dispatch = n /\ f.snapshot = listeners /\ f.reached = 0
    BY <1>4, <1>8 DEF FrameRecord
  <2>2. Events!ToSet(called'[n]) = {}
    BY <1>9
  <2>3. ~ \E i \in listeners : i <= 0
    BY <1>4 DEF EventsInv, Registered, Registrations
  <2> HIDE DEF f
  <2> QED
    BY <1>4, <1>5, <1>8, <2>1, <2>2, <2>3 DEF FrameRight
<1> HIDE DEF f
<1>12. /\ stack' \in Seq(FrameRecord) /\ DOMAIN stack' = DOMAIN stack \cup {Len(stack) + 1}
       /\ stack'[Len(stack) + 1] = f /\ \A k \in DOMAIN stack : stack'[k] = stack[k]
  BY <1>1, <1>3, <1>11
<1>13. ASSUME NEW k \in DOMAIN stack
       PROVE  /\ FrameRight(stack[k], called', Registrations', disposed')
              /\ stack[k].dispatch # n
  <2>1. stack[k].dispatch \in DOMAIN called
    BY <1>3 DEF FrameRight
  <2>2. disposed' = disposed
    BY <1>1
  <2> QED
    BY <1>3, <1>5, <1>8, <2>1, <2>2, FrameStays
<1>14. FramesAreRight'
  <2>1. \A k \in DOMAIN stack' : FrameRight(stack'[k], called', Registrations', disposed')
    BY <1>11, <1>12, <1>13, Zenon
  <2>2. \A j, k \in DOMAIN stack' : stack'[j].dispatch = stack'[k].dispatch => j = k
    BY <1>3, <1>11, <1>12, <1>13, Zenon
  <2> QED
    BY <1>12, <2>1, <2>2 DEF FramesAreRight
<1> QED
  BY <1>5, <1>10, <1>14 DEF EventsInv

(* The top frame changes, those below do not.                              *)
TopChanges(f) ==
  /\ stack' \in Seq(FrameRecord) /\ DOMAIN stack' = DOMAIN stack /\ stack'[Len(stack)] = f
  /\ \A k \in DOMAIN stack : k # Len(stack) => stack'[k] = stack[k]

LEMMA TopIsChanged ==
  ASSUME EventsInv, stack # << >>, NEW f \in FrameRecord,
         stack' = [stack EXCEPT ![Len(stack)] = f]
  PROVE  TopChanges(f)
<1>1. stack \in Seq(FrameRecord)
  BY DEF EventsInv, FramesAreRight
<1> QED
  BY <1>1 DEF TopChanges

LEMMA TopFramesRight ==
  ASSUME EventsInv, stack # << >>, NEW f, TopChanges(f),
         f.dispatch = Events!Top.dispatch,
         FrameRight(f, called', Registrations', disposed'),
         DOMAIN called' = DOMAIN called,
         \A d \in DOMAIN called : d # f.dispatch => called'[d] = called[d],
         Registrations \subseteq Registrations', disposed \subseteq disposed'
  PROVE  FramesAreRight'
<1> DEFINE top == Len(stack)
<1>1. /\ \A k \in DOMAIN stack : FrameRight(stack[k], called, Registrations, disposed)
      /\ \A j, k \in DOMAIN stack : stack[j].dispatch = stack[k].dispatch => j = k
  BY DEF EventsInv, FramesAreRight
<1>2. top \in DOMAIN stack /\ f.dispatch = stack[top].dispatch
  BY TopFrame
<1>3. /\ stack' \in Seq(FrameRecord) /\ DOMAIN stack' = DOMAIN stack /\ stack'[top] = f
      /\ \A k \in DOMAIN stack : k # top => stack'[k] = stack[k]
  BY DEF TopChanges
<1> HIDE DEF top
<1>4. ASSUME NEW k \in DOMAIN stack, k # top
      PROVE  FrameRight(stack[k], called', Registrations', disposed')
  <2>1. stack[k].dispatch \in DOMAIN called /\ stack[k].dispatch # f.dispatch
    BY <1>1, <1>2, <1>4 DEF FrameRight
  <2>2. stack[k].dispatch \in DOMAIN called' /\ called'[stack[k].dispatch] = called[stack[k].dispatch]
    BY <2>1
  <2>3. FrameRight(stack[k], called, Registrations, disposed)
    BY <1>1
  <2> QED
    BY <2>2, <2>3, FrameStays, Zenon
<1>5. \A k \in DOMAIN stack' : FrameRight(stack'[k], called', Registrations', disposed')
  BY <1>3, <1>4, Zenon
<1>6. \A k \in DOMAIN stack : stack'[k].dispatch = stack[k].dispatch
  BY <1>2, <1>3, Zenon
<1>7. \A j, k \in DOMAIN stack' : stack'[j].dispatch = stack'[k].dispatch => j = k
  BY <1>1, <1>3, <1>6, Zenon
<1> QED
  BY <1>3, <1>5, <1>7 DEF FramesAreRight

(* The tuple the loop comes to: the first one after those it has passed.   *)
Comes(f, i) ==
  /\ i \in f.snapshot /\ i > f.reached
  /\ \A j \in f.snapshot : j > f.reached => i <= j

LEMMA NextTuple ==
  ASSUME EventsInv, stack # << >>, Events!ahead(Events!Top) # {},
         NEW i, i = Events!Min(Events!ahead(Events!Top))
  PROVE  Comes(Events!Top, i) /\ i \in Events!Tuples /\ i \in Registrations /\ i \in Nat
<1> DEFINE f == Events!Top
           A == Events!ahead(f)
<1>1. A = {j \in f.snapshot : j > f.reached}
  BY DEF Events!ahead, Events!loopsOver
<1>2. f.snapshot \subseteq Registrations /\ f.snapshot \subseteq Events!Tuples
  BY TopFrame DEF FrameRight, FrameRecord
<1>3. Events!Tuples \subseteq Nat
  BY DEF Events!Tuples
<1>4. A \subseteq Nat /\ A # {} /\ i = Events!Min(A)
  BY <1>1, <1>2, <1>3
<1> HIDE DEF A, f
<1>5. i \in A /\ \A j \in A : i <= j
  BY <1>4, LeastNat, Zenon DEF Events!Min
<1> QED
  BY <1>1, <1>2, <1>3, <1>5 DEF Comes, f

(* The tuple is taken out: the loop passes it.                             *)
LEMMA SkipInv ==
  ASSUME EventsInv, stack # << >>, NEW i, Comes(Events!Top, i), i \in Nat, i \in disposed,
         stack' = [stack EXCEPT ![Len(stack)].reached = i],
         UNCHANGED <<listeners, hasEntry, listenerOf, disposed, called, over, onceResolved>>
  PROVE  EventsInv'
<1> DEFINE f == Events!Top
           g == [f EXCEPT !.reached = i]
<1>1. f = stack[Len(stack)] /\ f \in FrameRecord /\ FrameRight(f, called, Registrations, disposed)
  BY TopFrame
<1>2. stack \in Seq(FrameRecord) /\ Len(stack) \in DOMAIN stack
  BY TopFrame DEF EventsInv, FramesAreRight
<1>3. stack' = [stack EXCEPT ![Len(stack)] = g]
  BY <1>1, <1>2
<1>4. /\ g \in FrameRecord /\ g.dispatch = f.dispatch /\ g.snapshot = f.snapshot /\ g.reached = i
      /\ f.reached \in Nat
  BY <1>1 DEF FrameRecord
<1> HIDE DEF g
<1>5. TopChanges(g)
  BY <1>3, <1>4, TopIsChanged
<1>6. Registered' /\ OnceResolved' /\ Registrations' = Registrations
  BY RegisteredStays
<1>7. FrameRight(g, called', Registrations', disposed')
  <2>1. f.snapshot \subseteq Nat
    BY <1>1 DEF FrameRecord, Events!Tuples
  <2>2. ASSUME NEW j \in f.snapshot, j <= i
        PROVE  j \in disposed \/ j \in Events!ToSet(called[f.dispatch])
    <3>1. j \in Nat /\ (j > f.reached => i <= j) /\ i \in Nat
      BY <2>1, <2>2 DEF Comes
    <3>2. j <= f.reached \/ j = i
      BY <1>4, <2>2, <3>1
    <3> QED
      BY <1>1, <2>2, <3>2 DEF FrameRight
  <2>3. \A j \in Events!ToSet(called[f.dispatch]) : j <= i
    <3>1. ASSUME NEW j \in Events!ToSet(called[f.dispatch]) PROVE j <= i
      <4>1. j <= f.reached /\ f.dispatch \in DOMAIN called
        BY <1>1 DEF FrameRight
      <4>2. j \in Nat
        BY <4>1 DEF EventsInv, CallsAreRight, CalledBy, Registrations
      <4> QED
        BY <1>4, <4>1, <4>2 DEF Comes
    <3> QED
      BY <3>1
  <2> HIDE DEF f
  <2> QED
    BY <1>1, <1>4, <1>6, <2>2, <2>3 DEF FrameRight
<1>8. FramesAreRight'
  BY <1>4, <1>5, <1>6, <1>7, TopFramesRight
<1>9. CallsAreRight'
  BY <1>6, CallsStay DEF EventsInv, CallsAreRight
<1> QED
  BY <1>6, <1>8, <1>9 DEF EventsInv

(* The listener is called; that of a once takes itself out first.          *)
CallsTuple(i) ==
  /\ i \notin disposed
  /\ stack' = [stack EXCEPT ![Len(stack)] = [@ EXCEPT !.reached = i, !.calling = TRUE]]
  /\ called' = [called EXCEPT ![Events!Top.dispatch] = Append(@, i)]
  /\ IF listenerOf[i] \in OnceListeners
       THEN Events!remove(listenerOf[i]) /\ onceResolved' = onceResolved \cup {listenerOf[i]}
       ELSE UNCHANGED <<listeners, hasEntry, disposed, onceResolved>>
  /\ UNCHANGED <<listenerOf, over>>

LEMMA CallRegistered ==
  ASSUME EventsInv, NEW i \in Registrations, CallsTuple(i)
  PROVE  /\ Registered' /\ OnceResolved' /\ Registrations' = Registrations
         /\ disposed \subseteq disposed' /\ i \in listeners
         /\ listenerOf[i] \in OnceListeners => i \in disposed'
<1>1. i \in listeners /\ Registrations' = Registrations
  BY DEF EventsInv, Registered, CallsTuple, Registrations
<1>2. CASE listenerOf[i] \in OnceListeners
  <2> DEFINE l == listenerOf[i]
  <2>1. /\ Events!remove(l) /\ onceResolved' = onceResolved \cup {l} /\ listenerOf' = listenerOf
    BY <1>2 DEF CallsTuple
  <2>2. Removed(l)
    BY <2>1, RemovesListener
  <2>3. /\ Registered' /\ disposed \subseteq disposed' /\ i \in disposed'
    BY <1>1, <2>2 DEF Removed
  <2>4. OnceResolved'
    <3>1. ASSUME NEW k \in onceResolved'
          PROVE  k \in OnceListeners /\ \E j \in disposed' : listenerOf[j] = k
      <4>1. CASE k = l
        BY <1>2, <2>3, <4>1
      <4>2. CASE k \in onceResolved
        BY <2>3, <4>2 DEF EventsInv, OnceResolved
      <4> QED
        BY <2>1, <3>1, <4>1, <4>2
    <3> QED
      BY <2>1, <3>1 DEF OnceResolved
  <2> QED
    BY <1>1, <2>3, <2>4
<1>3. CASE listenerOf[i] \notin OnceListeners
  <2>1. UNCHANGED <<listeners, hasEntry, listenerOf, disposed, onceResolved>>
    BY <1>3 DEF CallsTuple
  <2> QED
    BY <1>1, <1>3, <2>1, RegisteredStays
<1> QED
  BY <1>2, <1>3

LEMMA CallInv ==
  ASSUME EventsInv, stack # << >>, NEW i, Comes(Events!Top, i), i \in Events!Tuples,
         i \in Registrations, CallsTuple(i)
  PROVE  EventsInv' /\ Calls(Events!Top.dispatch, i)
<1> DEFINE f == Events!Top
           d == f.dispatch
           g == [f EXCEPT !.reached = i, !.calling = TRUE]
<1>1. f = stack[Len(stack)] /\ f \in FrameRecord /\ FrameRight(f, called, Registrations, disposed)
  BY TopFrame
<1>2. stack \in Seq(FrameRecord) /\ Len(stack) \in DOMAIN stack
  BY TopFrame DEF EventsInv, FramesAreRight
<1>3. stack' = [stack EXCEPT ![Len(stack)] = g]
  BY <1>1, <1>2 DEF CallsTuple
<1>4. i \in Nat
  BY DEF Events!Tuples
<1>5. /\ g \in FrameRecord /\ g.dispatch = d /\ g.snapshot = f.snapshot /\ g.reached = i
      /\ f.reached \in Nat
  BY <1>1, <1>4 DEF FrameRecord
<1> HIDE DEF g
<1>6. TopChanges(g)
  BY <1>3, <1>5, TopIsChanged
<1>7. /\ Registered' /\ OnceResolved' /\ Registrations' = Registrations
      /\ disposed \subseteq disposed' /\ i \in listeners
      /\ listenerOf[i] \in OnceListeners => i \in disposed'
  BY CallRegistered
<1>8. d \in DOMAIN called
  BY <1>1 DEF FrameRight
<1> HIDE DEF f, d
<1>9. Calls(d, i)
  BY <1>8, CallIsEntered DEF CallsTuple, f, d
<1>10. /\ called' \in Seq(Seq(Events!Tuples)) /\ DOMAIN called' = DOMAIN called
       /\ \A e \in DOMAIN called : e # d => called'[e] = called[e]
       /\ Events!ToSet(called'[d]) = Events!ToSet(called[d]) \cup {i}
  BY <1>9 DEF Calls
<1>11. FrameRight(g, called', Registrations', disposed')
  <2>1. f.snapshot \subseteq Nat
    BY <1>1 DEF FrameRecord, Events!Tuples
  <2>2. ASSUME NEW j \in f.snapshot, j <= i
        PROVE  j \in disposed' \/ j \in Events!ToSet(called'[d])
    <3>1. j \in Nat /\ (j > f.reached => i <= j) /\ i \in Nat
      BY <1>4, <2>1, <2>2 DEF Comes, f
    <3>2. j <= f.reached \/ j = i
      BY <1>5, <2>2, <3>1
    <3> QED
      BY <1>1, <1>7, <1>10, <2>2, <3>2 DEF FrameRight, d
  <2>3. ASSUME NEW j \in Events!ToSet(called'[d]) PROVE j <= i
    <3>1. CASE j \in Events!ToSet(called[d])
      <4>1. j <= f.reached
        BY <1>1, <3>1 DEF FrameRight, d
      <4>2. j \in Nat
        BY <1>8, <3>1 DEF EventsInv, CallsAreRight, CalledBy, Registrations
      <4> QED
        BY <1>4, <1>5, <4>1, <4>2 DEF Comes, f
    <3> QED
      BY <1>4, <1>10, <2>3, <3>1
  <2> QED
    BY <1>1, <1>5, <1>7, <1>8, <1>10, <2>2, <2>3 DEF FrameRight
<1>12. FramesAreRight'
  <2>1. /\ g.dispatch = Events!Top.dispatch
        /\ \A e \in DOMAIN called : e # g.dispatch => called'[e] = called[e]
    BY <1>5, <1>10 DEF d, f
  <2> QED
    BY <1>6, <1>7, <1>10, <1>11, <2>1, TopFramesRight
<1>13. /\ over \subseteq DOMAIN called
       /\ \A e \in DOMAIN called : Events!ToSet(called[e]) \subseteq Registrations
       /\ \A e \in DOMAIN called : \A j \in Events!ToSet(called[e]) :
            listenerOf[j] \in OnceListeners =>
              j \in disposed /\ \A c \in DOMAIN called : j \in Events!ToSet(called[c]) => e = c
  BY DEF EventsInv, CallsAreRight, CalledBy
<1>14. \A e \in DOMAIN called : \A j \in Events!ToSet(called'[e]) :
         j \in Events!ToSet(called[e]) \/ (j = i /\ e = d)
  BY <1>10
<1>15. ASSUME NEW e \in DOMAIN called, NEW j \in Events!ToSet(called'[e]),
              listenerOf[j] \in OnceListeners
       PROVE  /\ j \in disposed'
              /\ \A c \in DOMAIN called : j \in Events!ToSet(called'[c]) => e = c
  <2>1. CASE j = i
    <3>1. i \notin disposed
      BY DEF CallsTuple
    <3>2. \A c \in DOMAIN called : i \notin Events!ToSet(called[c])
      BY <1>13, <1>15, <2>1, <3>1
    <3>3. \A c \in DOMAIN called : i \in Events!ToSet(called'[c]) => c = d
      BY <1>14, <3>2
    <3> QED
      BY <1>7, <1>15, <2>1, <3>3
  <2>2. CASE j # i
    <3>1. \A c \in DOMAIN called : j \in Events!ToSet(called'[c]) => j \in Events!ToSet(called[c])
      BY <1>14, <2>2
    <3> QED
      BY <1>7, <1>13, <1>15, <3>1
  <2> QED
    BY <2>1, <2>2
<1>16. \A e \in DOMAIN called : Events!ToSet(called'[e]) \subseteq Registrations
  BY <1>13, <1>14
<1>17. CallsAreRight'
  <2>1. listenerOf' = listenerOf /\ over' = over
    BY DEF CallsTuple
  <2> QED
    BY <1>7, <1>10, <1>13, <1>15, <1>16, <2>1, Zenon DEF CallsAreRight, CalledBy
<1> QED
  BY <1>7, <1>9, <1>12, <1>17 DEF EventsInv, f, d

LEMMA ReturnsInv ==
  ASSUME EventsInv, Events!listenerReturns
  PROVE  EventsInv'
<1> DEFINE f == Events!Top
           g == [f EXCEPT !.calling = FALSE]
<1>1. /\ stack # << >> /\ stack' = [stack EXCEPT ![Len(stack)].calling = FALSE]
      /\ UNCHANGED <<listeners, hasEntry, listenerOf, disposed, called, over, onceResolved>>
  BY DEF Events!listenerReturns, Events!Idle
<1>2. f = stack[Len(stack)] /\ f \in FrameRecord /\ FrameRight(f, called, Registrations, disposed)
  BY <1>1, TopFrame
<1>3. stack \in Seq(FrameRecord) /\ Len(stack) \in DOMAIN stack
  BY <1>1, TopFrame DEF EventsInv, FramesAreRight
<1>4. stack' = [stack EXCEPT ![Len(stack)] = g]
  BY <1>1, <1>2, <1>3
<1>5. /\ g \in FrameRecord /\ g.dispatch = f.dispatch /\ g.snapshot = f.snapshot
      /\ g.reached = f.reached
  BY <1>2 DEF FrameRecord
<1> HIDE DEF f, g
<1>6. TopChanges(g)
  BY <1>1, <1>4, <1>5, TopIsChanged
<1>7. Registered' /\ OnceResolved' /\ Registrations' = Registrations
  BY <1>1, RegisteredStays
<1>8. FrameRight(g, called', Registrations', disposed')
  BY <1>1, <1>2, <1>5, <1>7 DEF FrameRight
<1>9. FramesAreRight'
  <2>1. g.dispatch = Events!Top.dispatch
    BY <1>5 DEF f
  <2>2. DOMAIN called' = DOMAIN called /\ disposed \subseteq disposed'
    BY <1>1
  <2> QED
    BY <1>1, <1>6, <1>7, <1>8, <2>1, <2>2, TopFramesRight
<1>10. CallsAreRight'
  BY <1>1, <1>7, CallsStay DEF EventsInv, CallsAreRight
<1> QED
  BY <1>7, <1>9, <1>10 DEF EventsInv

(* Dispatches that end leave the others as they are.                       *)
LEMMA EndsInv ==
  ASSUME EventsInv, UNCHANGED <<listeners, hasEntry, listenerOf, disposed, called, onceResolved>>,
         over' \subseteq DOMAIN called,
         stack' \in Seq(FrameRecord), DOMAIN stack' \subseteq DOMAIN stack,
         \A k \in DOMAIN stack' : stack'[k] = stack[k]
  PROVE  EventsInv'
<1>1. Registered' /\ OnceResolved' /\ Registrations' = Registrations
  BY RegisteredStays
<1>2. CallsAreRight'
  BY <1>1, CallsStay DEF EventsInv, CallsAreRight
<1>3. FramesAreRight'
  <2>1. /\ \A k \in DOMAIN stack : FrameRight(stack[k], called, Registrations, disposed)
        /\ \A j, k \in DOMAIN stack : stack[j].dispatch = stack[k].dispatch => j = k
    BY DEF EventsInv, FramesAreRight
  <2> QED
    BY <1>1, <2>1 DEF FramesAreRight
<1> QED
  BY <1>1, <1>2, <1>3 DEF EventsInv

LEMMA ThrowsInv ==
  ASSUME EventsInv, Events!listenerThrows
  PROVE  EventsInv'
<1>1. /\ stack' = << >> /\ over' = over
      /\ UNCHANGED <<listeners, hasEntry, listenerOf, disposed, called, onceResolved>>
  BY DEF Events!listenerThrows
<1>2. << >> \in Seq(FrameRecord) /\ DOMAIN << >> = {}
  OBVIOUS
<1>3. over' \subseteq DOMAIN called
  BY <1>1 DEF EventsInv, CallsAreRight
<1> QED
  BY <1>1, <1>2, <1>3, EndsInv

LEMMA DispatchReturnsInv ==
  ASSUME EventsInv, Events!dispatchReturns
  PROVE  EventsInv'
<1>1. /\ stack # << >> /\ stack' = SubSeq(stack, 1, Len(stack) - 1)
      /\ over' = over \cup {Events!Top.dispatch}
      /\ UNCHANGED <<listeners, hasEntry, listenerOf, disposed, called, onceResolved>>
  BY DEF Events!dispatchReturns, Events!Idle
<1>2. over' \subseteq DOMAIN called
  <2>1. Events!Top.dispatch \in DOMAIN called
    BY <1>1, TopFrame DEF FrameRight
  <2> QED
    BY <1>1, <2>1 DEF EventsInv, CallsAreRight
<1>3. stack \in Seq(FrameRecord) /\ Len(stack) \in Nat \ {0}
  BY <1>1, TopFrame DEF EventsInv, FramesAreRight
<1>4. /\ stack' \in Seq(FrameRecord) /\ DOMAIN stack' = 1..Len(stack) - 1
      /\ \A k \in 1..Len(stack) - 1 : stack'[k] = stack[k]
  BY <1>1, <1>3
<1>5. DOMAIN stack' \subseteq DOMAIN stack
  BY <1>3, <1>4
<1> QED
  BY <1>1, <1>2, <1>4, <1>5, EndsInv

(* The loop comes to a tuple.                                              *)
LEMMA CallNextCases ==
  ASSUME EventsInv, Events!callNext
  PROVE  /\ stack # << >>
         /\ \E i : /\ Comes(Events!Top, i) /\ i \in Events!Tuples /\ i \in Registrations
                   /\ i \in Nat
                   /\ \/ /\ i \in disposed
                         /\ stack' = [stack EXCEPT ![Len(stack)].reached = i]
                         /\ UNCHANGED <<listeners, hasEntry, listenerOf, disposed, called,
                                        over, onceResolved>>
                      \/ CallsTuple(i)
<1> DEFINE i == Events!Min(Events!ahead(Events!Top))
<1>1. stack # << >> /\ Events!ahead(Events!Top) # {}
  BY DEF Events!callNext, Events!Idle
<1>2. Comes(Events!Top, i) /\ i \in Events!Tuples /\ i \in Registrations /\ i \in Nat
  BY <1>1, NextTuple
<1>3. IF i \in disposed
      THEN /\ stack' = [stack EXCEPT ![Len(stack)].reached = i]
           /\ UNCHANGED <<listeners, hasEntry, listenerOf, disposed, called, over, onceResolved>>
      ELSE CallsTuple(i)
  <2>1. CASE i \in disposed
    BY <2>1 DEF Events!callNext
  <2>2. CASE i \notin disposed
    <3>1. /\ stack' = [stack EXCEPT ![Len(stack)] = [@ EXCEPT !.reached = i, !.calling = TRUE]]
          /\ called' = [called EXCEPT ![Events!Top.dispatch] = Append(@, i)]
          /\ IF listenerOf[i] \in OnceListeners
               THEN Events!onceCalled(listenerOf[i])
               ELSE UNCHANGED <<listeners, hasEntry, disposed, onceResolved>>
          /\ UNCHANGED <<listenerOf, over>>
      BY <2>2, Zenon DEF Events!callNext
    <3> QED
      BY <2>2, <3>1, Zenon DEF CallsTuple, Events!onceCalled
  <2> QED
    BY <2>1, <2>2
<1> HIDE DEF i
<1> QED
  BY <1>1, <1>2, <1>3, Zenon

LEMMA EventsStep ==
  ASSUME EventsInv, [Events!Next]_Events!vars
  PROVE  EventsInv'
<1>1. CASE Events!callNext
  <2>1. stack # << >>
    BY <1>1, CallNextCases
  <2>2. PICK i : /\ Comes(Events!Top, i) /\ i \in Events!Tuples /\ i \in Registrations
                 /\ i \in Nat
                 /\ \/ /\ i \in disposed
                       /\ stack' = [stack EXCEPT ![Len(stack)].reached = i]
                       /\ UNCHANGED <<listeners, hasEntry, listenerOf, disposed, called,
                                      over, onceResolved>>
                    \/ CallsTuple(i)
    BY <1>1, CallNextCases, Zenon
  <2> QED
    BY <2>1, <2>2, SkipInv, CallInv
<1>2. CASE UNCHANGED Events!vars
  <2>1. UNCHANGED <<listeners, hasEntry, listenerOf, disposed, stack, called, over, onceResolved>>
    BY <1>2 DEF Events!vars
  <2>2. /\ over' \subseteq DOMAIN called /\ stack' \in Seq(FrameRecord)
        /\ DOMAIN stack' \subseteq DOMAIN stack /\ \A k \in DOMAIN stack' : stack'[k] = stack[k]
    BY <2>1 DEF EventsInv, CallsAreRight, FramesAreRight
  <2> QED
    BY <2>1, <2>2, EndsInv
<1> QED
  BY <1>1, <1>2, AddsListener, RemovesInv, DispatchInv, ReturnsInv, ThrowsInv,
     DispatchReturnsInv DEF Events!Next

(* What a step calls.                                                      *)
LEMMA StepCalls ==
  ASSUME EventsInv, [Events!Next]_Events!vars, NEW d \in DOMAIN called, called'[d] # called[d]
  PROVE  /\ stack # << >> /\ d = Events!Top.dispatch
         /\ \E i \in Registrations :
              /\ Comes(Events!Top, i) /\ i \notin disposed /\ i = Events!Last(called'[d])
<1>1. Events!callNext
  <2>1. \/ called' = called \/ called' = Append(called, << >>) \/ Events!callNext
    BY DEF Events!Next, Events!vars, Events!addEventListener, Events!removeEventListener,
           Events!dispatchEventToListeners, Events!listenerReturns, Events!listenerThrows,
           Events!dispatchReturns
  <2>2. called \in Seq(Seq(Events!Tuples))
    BY DEF EventsInv, CallsAreRight
  <2> DEFINE S == Seq(Events!Tuples)
  <2>3. << >> \in S
    OBVIOUS
  <2> HIDE DEF S
  <2>4. called \in Seq(S)
    BY <2>2 DEF S
  <2>5. Append(called, << >>)[d] = called[d]
    BY <2>3, <2>4
  <2> QED
    BY <2>1, <2>5
<1>2. stack # << >>
  BY <1>1, CallNextCases
<1>3. PICK i : /\ Comes(Events!Top, i) /\ i \in Events!Tuples /\ i \in Registrations
               /\ (called' = called \/ CallsTuple(i))
  BY <1>1, CallNextCases, Zenon
<1>4. CallsTuple(i) /\ i \notin disposed
  BY <1>3 DEF CallsTuple
<1>5. Calls(Events!Top.dispatch, i)
  BY <1>2, <1>3, <1>4, CallInv
<1>6. d = Events!Top.dispatch
  BY <1>5 DEF Calls
<1> QED
  BY <1>2, <1>3, <1>4, <1>5, <1>6 DEF Calls

NotRemoved ==
  \A l \in Listeners : (\A i \in listeners : listenerOf[i] # l) =>
    \A d \in DOMAIN called : called'[d] # called[d] =>
      listenerOf[Events!Last(called'[d])] # l

FromSnapshot ==
  \A d \in DOMAIN called : called'[d] # called[d] =>
    /\ \A i \in Events!ToSet(called[d]) : i < Events!Last(called'[d])
    /\ Events!Last(called'[d]) \in Events!Top.snapshot

Stayers ==
  \A d \in over' \ over : Events!Top.snapshot \ disposed \subseteq Events!ToSet(called[d])

LEMMA CallsOfStep ==
  ASSUME EventsInv, [Events!Next]_Events!vars
  PROVE  NotRemoved /\ FromSnapshot
<1>1. ASSUME NEW d \in DOMAIN called, called'[d] # called[d]
      PROVE  \E i \in listeners :
               /\ i = Events!Last(called'[d]) /\ i \in Events!Top.snapshot
               /\ \A j \in Events!ToSet(called[d]) : j < i
  <2>1. /\ stack # << >> /\ d = Events!Top.dispatch
        /\ \E i \in Registrations :
             /\ Comes(Events!Top, i) /\ i \notin disposed /\ i = Events!Last(called'[d])
    BY <1>1, StepCalls
  <2>2. PICK i \in Registrations :
             /\ Comes(Events!Top, i) /\ i \notin disposed /\ i = Events!Last(called'[d])
    BY <2>1
  <2>3. i \in listeners /\ i \in Nat
    BY <2>2 DEF EventsInv, Registered, Registrations
  <2>4. Events!Top \in FrameRecord /\ FrameRight(Events!Top, called, Registrations, disposed)
    BY <2>1, TopFrame
  <2>5. ASSUME NEW j \in Events!ToSet(called[d]) PROVE j < i
    <3>1. j <= Events!Top.reached /\ Events!Top.reached \in Nat
      BY <2>1, <2>4 DEF FrameRight, FrameRecord
    <3>2. j \in Nat
      BY DEF EventsInv, CallsAreRight, CalledBy, Registrations
    <3> QED
      BY <2>2, <2>3, <3>1, <3>2 DEF Comes
  <2> QED
    BY <2>2, <2>3, <2>5 DEF Comes
<1> QED
  BY <1>1 DEF NotRemoved, FromSnapshot

LEMMA ReturnsOfStep ==
  ASSUME EventsInv, [Events!Next]_Events!vars
  PROVE  Stayers
<1>1. over' = over \/ Events!dispatchReturns
  BY DEF Events!Next, Events!vars, Events!addEventListener, Events!removeEventListener,
         Events!dispatchEventToListeners, Events!callNext, Events!listenerReturns,
         Events!listenerThrows
<1>2. CASE Events!dispatchReturns
  <2> DEFINE f == Events!Top
  <2>1. stack # << >> /\ over' = over \cup {f.dispatch} /\ Events!ahead(f) = {}
    BY <1>2 DEF Events!dispatchReturns, Events!Idle
  <2>2. f \in FrameRecord /\ FrameRight(f, called, Registrations, disposed)
    BY <2>1, TopFrame
  <2> HIDE DEF f
  <2>3. \A i \in f.snapshot : ~(i > f.reached)
    BY <2>1 DEF Events!ahead, Events!loopsOver
  <2>4. f.snapshot \subseteq Nat /\ f.reached \in Nat
    BY <2>2 DEF FrameRecord, Events!Tuples
  <2>5. f.snapshot \ disposed \subseteq Events!ToSet(called[f.dispatch])
    BY <2>2, <2>3, <2>4 DEF FrameRight
  <2> QED
    BY <2>1, <2>5 DEF Stayers, f
<1> QED
  BY <1>1, <1>2 DEF Stayers

LEMMA EventsAreRight ==
  ASSUME EventsInv
  PROVE  Events!TypeOK /\ Events!EntryMeansListeners /\ Events!OnceIsOnce
<1>1. /\ Registrations \subseteq Events!Tuples
      /\ listenerOf \in Seq(Listeners) /\ Len(listenerOf) <= MaxTuples
      /\ listeners \cup disposed = Registrations
  BY EventsAssumption
  DEF EventsInv, Registered, Registrations, Events!Tuples, Events!ListenersAssumption
<1>2. listeners \subseteq Events!Tuples /\ disposed \subseteq Events!Tuples
  BY <1>1
<1>3. hasEntry \in BOOLEAN /\ (hasEntry <=> listeners # {})
  BY Zenon DEF EventsInv, Registered
<1>4. Events!TypeOK
  BY <1>1, <1>2, <1>3, Zenon
  DEF Events!TypeOK, EventsInv, OnceResolved, CallsAreRight, FramesAreRight, FrameRecord
<1>5. Events!OnceIsOnce
  <2>1. ASSUME NEW l \in onceResolved, NEW i \in listeners PROVE listenerOf[i] # l
    <3>1. PICK j \in disposed : l \in OnceListeners /\ listenerOf[j] = l
      BY DEF EventsInv, OnceResolved
    <3> QED
      BY <3>1 DEF EventsInv, Registered
  <2>2. ASSUME NEW d \in DOMAIN called, NEW e \in DOMAIN called,
               NEW i \in Events!ToSet(called[d]) \cap Events!ToSet(called[e]),
               listenerOf[i] \in OnceListeners
        PROVE  d = e
    BY <2>2 DEF EventsInv, CallsAreRight, CalledBy
  <2> QED
    BY <2>1, <2>2 DEF Events!OnceIsOnce
<1> QED
  BY <1>3, <1>4, <1>5 DEF Events!EntryMeansListeners

LEMMA CommonStepEvents ==
  [CommonNext]_<<part, vars, eventVars, formatterVars>> => [Events!Next]_Events!vars
<1>1. CommonNext => Events!Next \/ UNCHANGED eventVars
  BY Zenon DEF CommonNext
<1> QED
  BY <1>1 DEF eventVars, Events!vars

(* The listeners of an event, for any listeners and however often they     *)
(* add, remove, dispatch and throw while they are called: a dispatch calls *)
(* in order of registration those of its snapshot that are still there,    *)
(* none that was removed, and the listener of a once for one event only    *)
(* (Object.ts:64, 73 and 110).                                             *)
THEOREM ListenersAlwaysCalled == CommonSpec => ListenersAreCalled
<1>1. CommonInit => EventsInv
  BY InitEvents DEF CommonInit
<1>2. EventsInv /\ [CommonNext]_<<part, vars, eventVars, formatterVars>> =>
        /\ EventsInv'
        /\ [NotRemoved]_Events!vars /\ [FromSnapshot]_Events!vars /\ [Stayers]_Events!vars
  BY CommonStepEvents, EventsStep, CallsOfStep, ReturnsOfStep, Zenon
<1>3. CommonSpec => [](Events!TypeOK /\ Events!EntryMeansListeners /\ Events!OnceIsOnce)
  BY <1>1, <1>2, EventsAreRight, PTL DEF CommonSpec
<1>4. CommonSpec =>
        [][NotRemoved]_Events!vars /\ [][FromSnapshot]_Events!vars /\ [][Stayers]_Events!vars
  BY <1>1, <1>2, PTL DEF CommonSpec
<1>5. CommonSpec =>
        Events!RemovedNotCalled /\ Events!CallsSnapshotOnce /\ Events!StayersAreCalled
  BY <1>4, Zenon
  DEF NotRemoved, FromSnapshot, Stayers, Events!RemovedNotCalled, Events!CallsSnapshotOnce,
      Events!StayersAreCalled
<1> QED
  BY <1>3, <1>5 DEF ListenersAreCalled
=============================================================================
