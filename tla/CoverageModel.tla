--------------------------- MODULE CoverageModel ---------------------------
(***************************************************************************)
(* The polling loop of panels/coverage/CoverageModel.ts with the view that *)
(* starts and stops it and the suspension of its target.  A poll asks the  *)
(* CSS and the JavaScript agent for what was covered since the last one;   *)
(* what arrives while the model is not active waits in a backlog.  Loops   *)
(* and the two uses of stopPolling, by the view and by preSuspendModel,    *)
(* are the processes that poll.  Bound: the user does not click the button *)
(* of the view again before what the last click asked for is done.         *)
(***************************************************************************)
EXTENDS Integers

CONSTANTS Loops,      \* bounds the calls of pollLoop alive at once
          None

Stoppers == {"view", "suspension"}

LoopsAssumption ==
  None \notin Loops /\ Loops \cap Stoppers = {}

Polls == Loops \cup Stoppers

VARIABLES
  view,             \* "off", "starting", "reloading", "on", "stopping" or "closing"
  suspension,       \* "none", "pre", "preDone" or "suspended"
  suspensionState,
  performanceTraceRecording,
  shouldResumePollingOnResume,
  loop,             \* loop[l]: "none", "polling" or "timer"
  pollTimer,        \* the loop whose timer is in the field, or None
  currentPoll,      \* the loop whose last poll is currentPollPromise, or None
  asked,            \* asked[p]: the agents that have not answered poll p
  awaiting,         \* awaiting[s]: the loop whose poll stopPolling awaits
  backlog,          \* the agents with unprocessed data
  crossed           \* history, of no use to the code: see Crosses

vars == <<view, suspension, suspensionState, performanceTraceRecording,
          shouldResumePollingOnResume, loop, pollTimer, currentPoll, asked,
          awaiting, backlog, crossed>>

Init ==
  /\ view = "off" /\ suspension = "none" /\ suspensionState = "Active"
  /\ performanceTraceRecording = FALSE /\ shouldResumePollingOnResume = FALSE
  /\ loop = [l \in Loops |-> "none"]
  /\ pollTimer = None /\ currentPoll = None
  /\ asked = [p \in Polls |-> {}]
  /\ awaiting = [s \in Stoppers |-> None]
  /\ backlog = {} /\ crossed = FALSE

----------------------------------------------------------------------------
(* The agents a poll asks, when the state is st: none once the model is    *)
(* suspended, unless a performance trace is recorded.                      *)
Asks(st, perf) ==
  IF st = "Suspended" /\ ~perf THEN {}
  ELSE IF st = "Active" THEN {"css", "js"} ELSE {"js"}

(* clearTimer cancels the timer in the field and no other.                 *)
Cleared(lp) == [l \in Loops |-> IF l = pollTimer /\ lp[l] = "timer" THEN "none" ELSE lp[l]]

(* pollLoop, called for the first time or by the timer of l.               *)
pollLoop(l, st, perf) ==
  /\ loop' = [Cleared(loop) EXCEPT ![l] = "polling"]
  /\ pollTimer' = None
  /\ currentPoll' = l
  /\ asked' = [asked EXCEPT ![l] = Asks(st, perf)]

(* startPolling.                                                           *)
mayStart(st) == currentPoll = None /\ st = "Active"
startPolling(st) ==
  IF mayStart(st)
    THEN \E l \in Loops : loop[l] = "none" /\ pollLoop(l, st, FALSE)
    ELSE UNCHANGED <<loop, pollTimer, currentPoll, asked>>

(* What goes wrong is recorded until polling begins anew: a stop meets a   *)
(* poll or a suspension, or the suspension a stop, or the first poll of a  *)
(* recording is refused, as the target is suspended.  Polling cannot begin *)
(* anew with a currentPollPromise that is over.                            *)
Crosses(c) == crossed' = (crossed \/ c)
Blocked == currentPoll # None /\ loop[currentPoll] = "none"
BeginsAnew ==
  IF suspensionState = "Active" THEN crossed' = (crossed /\ Blocked) ELSE Crosses(view # "on")

start ==
  /\ view = "off"
  /\ view' = "starting"
  /\ UNCHANGED <<suspension, suspensionState, performanceTraceRecording,
                 shouldResumePollingOnResume, loop, pollTimer, currentPoll,
                 asked, awaiting, backlog, crossed>>

(* A recording that reloads the page polls only after the navigation.      *)
started(reload) ==
  /\ view = "starting"
  /\ view' = IF reload THEN "reloading" ELSE "on"
  /\ IF reload THEN UNCHANGED <<loop, pollTimer, currentPoll, asked, crossed>>
               ELSE startPolling(suspensionState) /\ BeginsAnew
  /\ UNCHANGED <<suspension, suspensionState, performanceTraceRecording,
                 shouldResumePollingOnResume, awaiting, backlog>>

(* The view calls startPolling again after a navigation.                   *)
navigated ==
  /\ view \in {"on", "reloading"} /\ view' = "on"
  /\ startPolling(suspensionState) /\ BeginsAnew
  /\ UNCHANGED <<suspension, suspensionState, performanceTraceRecording,
                 shouldResumePollingOnResume, awaiting, backlog>>

----------------------------------------------------------------------------
(* What follows once stopPolling of each s in S is over.                   *)
StopOver(S) ==
  /\ view' = IF "view" \in S THEN "closing" ELSE view
  /\ suspension' = IF "suspension" \in S THEN "preDone" ELSE suspension
  /\ shouldResumePollingOnResume' = (shouldResumePollingOnResume \/ "suspension" \in S)

(* The stoppers S go on after the poll they awaited: each does a last one. *)
LastPolls(S, st, perf) == [p \in Polls |-> IF p \in S THEN Asks(st, perf) ELSE asked[p]]

(* stopPolling, called by s when the state is st.                          *)
stopPolling(s, st) ==
  LET inFlight == currentPoll # None /\ loop[currentPoll] = "polling" IN
  /\ loop' = Cleared(loop) /\ pollTimer' = None
  /\ awaiting' = [awaiting EXCEPT ![s] = IF inFlight THEN currentPoll ELSE None]
  /\ currentPoll' = IF inFlight THEN currentPoll ELSE None
  /\ asked' = IF inFlight THEN asked ELSE LastPolls({s}, st, performanceTraceRecording)

(* stop; while the model is suspended there is no last poll.               *)
stop ==
  LET over == asked'["view"] = {} /\ awaiting'["view"] = None IN
  /\ view \in {"on", "reloading"}
  /\ stopPolling("view", suspensionState)
  /\ view' = IF over THEN "closing" ELSE "stopping"
  /\ Crosses(suspension # "none" \/ \E l \in Loops : loop[l] = "polling")
  /\ UNCHANGED <<suspension, suspensionState, performanceTraceRecording,
                 shouldResumePollingOnResume, backlog>>

(* Coverage is stopped in the back end.                                    *)
stopped ==
  /\ view = "closing" /\ view' = "off"
  /\ UNCHANGED <<suspension, suspensionState, performanceTraceRecording,
                 shouldResumePollingOnResume, loop, pollTimer, currentPoll,
                 asked, awaiting, backlog, crossed>>

----------------------------------------------------------------------------
(* Does a loop go on after its poll.                                       *)
goesOn(st, perf) == st = "Active" \/ perf

(* Loop l has its answers: it sets its timer, or ends.  Then those go on   *)
(* that awaited its poll in stopPolling.                                   *)
loopPolled(l) ==
  LET again == goesOn(suspensionState, performanceTraceRecording)
      S == {s \in Stoppers : awaiting[s] = l}
      last == Asks(suspensionState, performanceTraceRecording)
  IN
  /\ loop' = [loop EXCEPT ![l] = IF again THEN "timer" ELSE "none"]
  /\ pollTimer' = IF again THEN l ELSE pollTimer
  /\ currentPoll' = IF S # {} THEN None ELSE currentPoll
  /\ awaiting' = [s \in Stoppers |-> IF s \in S THEN None ELSE awaiting[s]]
  /\ asked' = [LastPolls(S, suspensionState, performanceTraceRecording) EXCEPT ![l] = {}]
  /\ StopOver(IF last = {} THEN S ELSE {})

(* Agent a answers poll p, with data or without.                           *)
answered(p, a, data) ==
  LET rest == asked[p] \ {a} IN
  /\ a \in asked[p]
  /\ backlog' = IF suspensionState = "Active" THEN backlog \ {a}
                ELSE IF data THEN backlog \cup {a} ELSE backlog
  /\ IF rest = {} /\ p \in Loops
       THEN loopPolled(p)
       ELSE /\ asked' = [asked EXCEPT ![p] = rest]
            /\ StopOver(IF rest = {} THEN {p} ELSE {})
            /\ UNCHANGED <<loop, pollTimer, currentPoll, awaiting>>
  /\ UNCHANGED <<suspensionState, performanceTraceRecording, crossed>>

(* The timer of l fires; a loop that finds the model suspended ends at     *)
(* once.                                                                   *)
timerFires(l) ==
  /\ loop[l] = "timer"
  /\ IF Asks(suspensionState, performanceTraceRecording) # {}
       THEN pollLoop(l, suspensionState, performanceTraceRecording)
       ELSE /\ loop' = [Cleared(loop) EXCEPT ![l] = "none"]
            /\ pollTimer' = None /\ currentPoll' = l
            /\ UNCHANGED asked
  /\ UNCHANGED <<view, suspension, suspensionState, performanceTraceRecording,
                 shouldResumePollingOnResume, awaiting, backlog, crossed>>

----------------------------------------------------------------------------
(* Mutant: polling stops, but nobody waits for the poll in flight.         *)
preSuspendModelUnawaited(perf) ==
  /\ suspension = "none"
  /\ Crosses(view = "stopping")
  /\ suspensionState' = "Suspending" /\ suspension' = "preDone"
  /\ performanceTraceRecording' = perf
  /\ shouldResumePollingOnResume' = (currentPoll # None /\ ~perf)
  /\ UNCHANGED <<view, loop, pollTimer, currentPoll, asked, awaiting, backlog>>

preSuspendModel(perf) ==
  LET stops == ~perf /\ currentPoll # None
      over == asked'["suspension"] = {} /\ awaiting'["suspension"] = None
  IN
  /\ suspension = "none"
  /\ Crosses(view = "stopping")
  /\ suspensionState' = "Suspending"
  /\ performanceTraceRecording' = perf
  /\ IF stops
       THEN stopPolling("suspension", "Suspending")
       ELSE UNCHANGED <<loop, pollTimer, currentPoll, asked, awaiting>>
  /\ suspension' = IF over THEN "preDone" ELSE "pre"
  /\ shouldResumePollingOnResume' = (shouldResumePollingOnResume \/ (stops /\ over))
  /\ UNCHANGED <<view, backlog>>

suspendModel ==
  /\ suspension = "preDone"
  /\ suspension' = "suspended" /\ suspensionState' = "Suspended"
  /\ UNCHANGED <<view, performanceTraceRecording, shouldResumePollingOnResume,
                 loop, pollTimer, currentPoll, asked, awaiting, backlog, crossed>>

resumesPollingNever == FALSE     \* mutant
resumesPolling == shouldResumePollingOnResume

postResumeModel ==
  /\ suspension = "suspended"
  /\ suspension' = "none" /\ suspensionState' = "Active"
  /\ performanceTraceRecording' = FALSE
  /\ shouldResumePollingOnResume' = FALSE
  /\ IF resumesPolling
       THEN startPolling("Active")
       ELSE UNCHANGED <<loop, pollTimer, currentPoll, asked>>
  /\ UNCHANGED <<view, awaiting, backlog, crossed>>

Next ==
  \/ start \/ (\E reload \in BOOLEAN : started(reload)) \/ navigated \/ stop \/ stopped
  \/ \E p \in Polls, a \in {"css", "js"}, data \in BOOLEAN : answered(p, a, data)
  \/ \E l \in Loops : timerFires(l)
  \/ \E perf \in BOOLEAN : preSuspendModel(perf)
  \/ suspendModel \/ postResumeModel

(* Agents answer and timers fire; users do nothing by themselves.          *)
Fairness ==
  /\ WF_vars(\E reload \in BOOLEAN : started(reload)) /\ WF_vars(stopped) /\ WF_vars(suspendModel)
  /\ \A p \in Polls, a \in {"css", "js"} : WF_vars(\E data \in BOOLEAN : answered(p, a, data))
  /\ \A l \in Loops : WF_vars(timerFires(l))

Spec == Init /\ [][Next]_vars /\ Fairness

----------------------------------------------------------------------------
TypeOK ==
  /\ view \in {"off", "starting", "reloading", "on", "stopping", "closing"}
  /\ suspension \in {"none", "pre", "preDone", "suspended"}
  /\ suspensionState \in {"Active", "Suspending", "Suspended"}
  /\ performanceTraceRecording \in BOOLEAN
  /\ shouldResumePollingOnResume \in BOOLEAN
  /\ loop \in [Loops -> {"none", "polling", "timer"}]
  /\ pollTimer \in Loops \cup {None} /\ currentPoll \in Loops \cup {None}
  /\ asked \in [Polls -> SUBSET {"css", "js"}]
  /\ awaiting \in [Stoppers -> Loops \cup {None}]
  /\ backlog \subseteq {"css", "js"} /\ crossed \in BOOLEAN
  /\ \A l \in Loops : (loop[l] = "polling") = (asked[l] # {})
  /\ view = "stopping" <=> asked["view"] # {} \/ awaiting["view"] # None

Alive == {l \in Loops : loop[l] # "none"}

(* "This conditional should never trigger, as all intended ways to stop    *)
(* polling are awaiting the `_currentPollPromise` before suspending."      *)
(* (CoverageModel.ts:158): no poll ends in a suspended target.  Stopping   *)
(* does a last poll which that promise does not name.                      *)
PollsEndUnsuspended ==
  [][\A p \in Polls : asked[p] # {} /\ asked'[p] = {} =>
       suspensionState # "Suspended" \/ performanceTraceRecording]_vars

(* The same, unless a stop and a poll or a suspension met.                 *)
PollsEndUnlessCrossed ==
  [][\A p \in Polls : ~crossed /\ asked[p] # {} /\ asked'[p] = {} =>
       suspensionState # "Suspended" \/ performanceTraceRecording]_vars

(* Whatever stops, suspensions and navigations meet, no two loops poll.    *)
AtMostOneLoop == \A l, m \in Alive : l = m

(* While coverage is recorded and the target is active exactly one loop    *)
(* polls, whatever suspensions and navigations came before.                *)
OneLoopWhileRecording ==
  view = "on" /\ suspension = "none" /\ ~crossed => \E l \in Loops : Alive = {l}

(* "Do one last poll to get the final data." (CoverageModel.ts:149): once  *)
(* coverage is stopped no loop is alive to poll again.                     *)
LastPollIsLast == view = "off" /\ ~crossed => Alive = {}

(* Data that arrived during a suspension is processed, if the recording    *)
(* goes on afterwards.                                                     *)
BacklogIsProcessed ==
  <>[](view = "on" /\ suspensionState = "Active" /\ ~crossed) => []<>(backlog = {})
=============================================================================
