----------------------------- MODULE Throttler -----------------------------
(***************************************************************************)
(* The throttler of core/common/Throttler.ts: it keeps the last process    *)
(* scheduled, runs one at a time, and leaves the timeout between the end   *)
(* of one and the start of the next unless a caller is in a hurry.  The    *)
(* n-th call of schedule brings process n; the promise it returns is the   *)
(* schedulePromise of the moment, named by the number of timers that have  *)
(* fired before.  Of the clock only differences are kept.                  *)
(***************************************************************************)
EXTENDS Integers

CONSTANTS timeout,
          MaxCalls    \* bound on the calls of schedule

ASSUME ThrottlerAssumption == timeout \in Nat \ {0} /\ MaxCalls \in Nat

Processes == 1..MaxCalls
None == 0       \* no process
NoTimer == -1   \* processTimeout is undefined

VARIABLES
  process,           \* the process to run next, or None
  running,           \* the process that runs, or None (isRunningProcess)
  asSoonAsPossible,
  sinceComplete,     \* getTime() - lastCompleteTime, up to timeout + 1
  processTimeout,    \* the time left to the timer, or NoTimer
  calls,             \* how often schedule was called
  round,             \* the current schedulePromise
  promiseOf,         \* the promise returned to each call
  ranInRound,        \* ranInRound[r]: the process whose end resolves promise r
  resolved,          \* the promises that are resolved
  hurried            \* history: has a caller been in a hurry since the last start

vars == <<process, running, asSoonAsPossible, sinceComplete, processTimeout,
          calls, round, promiseOf, ranInRound, resolved, hurried>>

Rounds == 0..MaxCalls

Init ==
  /\ sinceComplete \in 0..timeout + 1   \* lastCompleteTime is 0, the time of the page load
  /\ process = None /\ running = None
  /\ asSoonAsPossible = FALSE
  /\ processTimeout = NoTimer
  /\ calls = 0 /\ round = 0
  /\ promiseOf = [n \in Processes |-> 0]
  /\ ranInRound = [r \in Rounds |-> None]
  /\ resolved = {}
  /\ hurried = FALSE

(* The timer that innerSchedule leaves, isRunning and asap being the       *)
(* fields at its call.                                                     *)
innerSchedule(forceTimerUpdate, isRunning, asap) ==
  IF isRunning \/ (processTimeout # NoTimer /\ ~forceTimerUpdate)
    THEN processTimeout
    ELSE IF asap THEN 0 ELSE timeout

(* The mutant takes no note of a process that runs.                        *)
hasScheduledTasksWaiting == processTimeout # NoTimer
hasScheduledTasks == processTimeout # NoTimer \/ running # None

schedule(hurry) ==
  LET okToFire == sinceComplete > timeout
      asap == hurry \/ (~hasScheduledTasks /\ okToFire)
  IN
  /\ calls < MaxCalls                                       \* bound
  /\ calls' = calls + 1
  /\ process' = calls + 1
  /\ asSoonAsPossible' = (asSoonAsPossible \/ asap)
  /\ processTimeout' =
       innerSchedule(asap /\ ~asSoonAsPossible, running # None, asSoonAsPossible')
  /\ promiseOf' = [promiseOf EXCEPT ![calls + 1] = round]
  /\ hurried' = (hurried \/ hurry)
  /\ UNCHANGED <<running, sinceComplete, round, ranInRound, resolved>>

onTimeout ==
  /\ processTimeout = 0
  /\ processTimeout' = NoTimer
  /\ asSoonAsPossible' = FALSE
  /\ running' = process
  /\ process' = None
  /\ ranInRound' = [ranInRound EXCEPT ![round] = process]
  /\ round' = round + 1
  /\ hurried' = FALSE
  /\ UNCHANGED <<sinceComplete, calls, promiseOf, resolved>>

(* The timer once a process is complete; the mutant forgets the process    *)
(* that waits.                                                             *)
nextTimerForgetting == processTimeout
nextTimer ==
  IF process = None THEN processTimeout ELSE innerSchedule(FALSE, FALSE, asSoonAsPossible)

(* The promises it resolves; the mutant resolves the one new callers get.  *)
completedPromisesNew == {round}
completedPromises == {r \in Rounds : ranInRound[r] = running}

(* The process is fulfilled or rejected: processCompleted, and the promise *)
(* of the round it was started in is resolved.                             *)
processCompleted ==
  /\ running # None
  /\ sinceComplete' = 0
  /\ running' = None
  /\ processTimeout' = nextTimer
  /\ resolved' = resolved \cup completedPromises
  /\ UNCHANGED <<process, asSoonAsPossible, calls, round, promiseOf, ranInRound, hurried>>

(* Time passes; a timer may be late.                                       *)
Tick ==
  /\ sinceComplete' = IF sinceComplete > timeout THEN sinceComplete ELSE sinceComplete + 1
  /\ processTimeout' = IF processTimeout > 0 THEN processTimeout - 1 ELSE processTimeout
  /\ UNCHANGED <<process, running, asSoonAsPossible, calls, round, promiseOf,
                 ranInRound, resolved, hurried>>

Next == (\E hurry \in BOOLEAN : schedule(hurry)) \/ onTimeout \/ processCompleted \/ Tick

Spec == Init /\ [][Next]_vars

(* Timers fire, processes settle, time passes.                             *)
Fairness == WF_vars(onTimeout) /\ WF_vars(processCompleted) /\ WF_vars(Tick)

FairSpec == Spec /\ Fairness

----------------------------------------------------------------------------
TypeOK ==
  /\ process \in 0..MaxCalls /\ running \in 0..MaxCalls
  /\ asSoonAsPossible \in BOOLEAN /\ hurried \in BOOLEAN
  /\ sinceComplete \in 0..timeout + 1
  /\ processTimeout \in NoTimer..timeout
  /\ calls \in 0..MaxCalls /\ round \in 0..calls
  /\ promiseOf \in [Processes -> Rounds]
  /\ ranInRound \in [Rounds -> 0..MaxCalls]
  /\ resolved \subseteq Rounds

(* A process waits exactly while a timer is set or, the timer being set by *)
(* its end, another process runs; and it is the last one scheduled.  So no *)
(* last call is forgotten, and no timer fires for nothing.                 *)
WaitingIsScheduled ==
  /\ processTimeout # NoTimer => process # None /\ running = None
  /\ process # None => process = calls /\ (processTimeout # NoTimer \/ running # None)

(* The promise of a call is resolved only after a process at least as      *)
(* recent as the one it scheduled has run to its end.                      *)
ResolvedAfterRun ==
  \A n \in 1..calls : promiseOf[n] \in resolved =>
    ranInRound[promiseOf[n]] >= n /\ running # ranInRound[promiseOf[n]]

(* Between the end of a process and the start of the next one lies the     *)
(* timeout, unless a caller asked for haste in between.                    *)
Spaced ==
  [][running' # running /\ running' # None /\ ~hurried => sinceComplete >= timeout]_vars

(* Processes start in the order of their calls, and one at a time.         *)
StartsInOrder ==
  [][running' # running /\ running' # None =>
       running = None /\ \A r \in Rounds : ranInRound[r] < running']_vars

(* The promise of every call is resolved in the end, though the call may   *)
(* have been overtaken by later ones or made while a process ran.          *)
PromisesResolve ==
  \A n \in Processes : calls >= n ~> promiseOf[n] \in resolved
============================================================================
