-------------------------- MODULE ModelBreakpoint --------------------------
(***************************************************************************)
(* One breakpoint in one target: ModelBreakpoint and the parts of          *)
(* Breakpoint that drive it (models/breakpoints/BreakpointManager.ts), the *)
(* suspension of the debugger (core/sdk/DebuggerModel.ts), and the backend *)
(* as they see it.  An update computes the positions the breakpoint should *)
(* have and brings the backend in line; updates queue on a mutex and await *)
(* the mapping of locations and the answers of the backend, while the user *)
(* changes the breakpoint, scripts are edited, the debugger is suspended   *)
(* and resumed, and the target goes away.                                  *)
(*                                                                         *)
(* A position is a location with a condition.  An update is a process; its *)
(* phase says what it awaits.  The commands that set, or remove, all the   *)
(* positions of a state are sent and awaited together: they are one here.  *)
(* Commands are answered in order, so the backend is taken to act when its *)
(* answer arrives.                                                         *)
(***************************************************************************)
EXTENDS Integers, Sequences, FiniteSets

CONSTANTS Locs,         \* the locations the breakpoint may map to
          Conditions,
          NoCondition,  \* an update found that the breakpoint is not wanted
          Updates,      \* bound: how many updates may be under way at once
          Switches      \* bound: how many commands that switch the debugger on or
                        \* off may be unanswered at once

ASSUME UpdatesAssumption ==
  /\ Updates \in Nat \ {0}
  /\ NoCondition \notin Conditions
  /\ Switches \in Nat \ {0}

Procs == 1..Updates

VARIABLES
  enabled, condition, isRemoved, diverged,    \* Breakpoint
  debuggerEnabled, isReadyToPause,            \* DebuggerModel
  disposed,         \* the target is disposed of
  updateMutex,      \* the processes that hold or wait for it, in order
  phase, read,      \* read[u]: the condition u has read, while it maps the location
  breakpointIds,    \* the locations of the ids the back-end gave
  currentState,     \* positions; {} for null
  cancelCallback,
  resolved,         \* #resolvedScriptIds is not empty
  wire,             \* the commands not answered yet
  backendOn, backend,  \* is the agent on, and the positions it holds
  lastRead,         \* history: what the last update has read
  cutShort,         \* history: has cancelCallback ended an update of a live agent
  overtaken         \* history: was the debugger enabled again before it was disabled
                    \* for good, or while an update of a breakpoint removed in the
                    \* meantime was still mapping its location

breakpointVars == <<enabled, condition, isRemoved, diverged>>
debuggerVars == <<debuggerEnabled, isReadyToPause, disposed>>
modelVars == <<breakpointIds, currentState, cancelCallback, resolved>>
backendVars == <<backendOn, backend>>
history == <<lastRead, cutShort, overtaken>>
vars == <<breakpointVars, debuggerVars, updateMutex, phase, read, modelVars, wire,
          backendVars, history>>

Phases == {"idle", "waiting", "resolving", "resetting", "setting", "locating", "refreshing"}
Positions == Locs \X Conditions
At(state) == {p[1] : p \in state}
Command(op, u, state) == [op |-> op, by |-> u, state |-> state]
Send(command) == wire' = Append(wire, command)

(* The target was made with its debugger suspended or not.                 *)
Init ==
  /\ enabled \in BOOLEAN /\ condition \in Conditions
  /\ isRemoved = FALSE /\ diverged = FALSE
  /\ debuggerEnabled \in BOOLEAN /\ isReadyToPause = FALSE /\ disposed = FALSE
  /\ updateMutex = IF debuggerEnabled THEN <<1>> ELSE <<>>
  /\ phase = [u \in Procs |-> IF u = 1 /\ debuggerEnabled THEN "waiting" ELSE "idle"]
  /\ read = [u \in Procs |-> NoCondition]
  /\ breakpointIds = {} /\ currentState = {} /\ cancelCallback = FALSE /\ resolved = FALSE
  /\ wire = IF debuggerEnabled THEN <<Command("enable", 0, {})>> ELSE <<>>
  /\ backendOn = FALSE /\ backend = {}
  /\ lastRead = NoCondition /\ cutShort = FALSE /\ overtaken = FALSE

----------------------------------------------------------------------------
(* scheduleUpdateInDebugger up to the mutex, by the first idle process.    *)
Idle(u) == phase[u] = "idle" /\ \A v \in 1..u - 1 : phase[v] # "idle"

Enqueue(u, queue) ==
  /\ updateMutex' = Append(queue, u)
  /\ phase' = [phase EXCEPT ![u] = "waiting"]

updateModels ==
  IF debuggerEnabled' /\ ~disposed
    THEN \E u \in Procs : Idle(u) /\ Enqueue(u, updateMutex)
    ELSE UNCHANGED <<updateMutex, phase>>

(* Does u hold the mutex?  The mutant does not wait.                       *)
HoldsNow(u) == phase[u] = "waiting"
Holds(u) == updateMutex # <<>> /\ Head(updateMutex) = u

(* Mutant of Release: the next in line is not let in.                      *)
ReleaseNobody(u) ==
  /\ phase' = [phase EXCEPT ![u] = "idle"]
  /\ UNCHANGED updateMutex

Release(u) ==
  /\ updateMutex' = Tail(updateMutex)
  /\ phase' = [phase EXCEPT ![u] = "idle"]

(* The update ends with an error: the breakpoint is removed, which         *)
(* schedules one more update.                                              *)
ReleaseAndRemove(u) ==
  /\ isRemoved' = TRUE
  /\ IF ~isRemoved /\ debuggerEnabled /\ ~disposed
       THEN Enqueue(u, Tail(updateMutex)) ELSE Release(u)
  /\ UNCHANGED <<enabled, condition, diverged>>

Await(u, what) ==
  /\ phase' = [phase EXCEPT ![u] = what]
  /\ UNCHANGED updateMutex

(* cleanUpAfterDebuggerIsGone: where there are ids, didRemoveFromDebugger  *)
(* takes the flag back, and keeps them.                                    *)
cleanUpAfterDebuggerIsGone ==
  /\ cancelCallback' = (breakpointIds = {})
  /\ resolved' = FALSE
  /\ currentState' = {}
  /\ UNCHANGED breakpointIds

(* resetBreakpoint up to its await, with ids.                              *)
startReset(u) ==
  /\ resolved' = FALSE
  /\ Send(Command("remove", u, breakpointIds \X Conditions))
  /\ UNCHANGED <<breakpointIds, currentState, cancelCallback>>

----------------------------------------------------------------------------
(* updateInDebugger.                                                       *)

(* The mutant compares positions by their locations only.                  *)
upToDateByLocation(newState) == At(newState) = At(currentState)
upToDate(newState) == newState = currentState

(* The rest of it once the new state is known, by the cases of the code.   *)
Decide(u, newState) ==
  \/ /\ breakpointIds # {} /\ upToDate(newState)                \* case 1
     /\ Release(u)
     /\ UNCHANGED <<modelVars, wire>>
  \/ /\ breakpointIds # {} /\ ~upToDate(newState)               \* case 2
     /\ startReset(u)
     /\ Await(u, "resetting")
  \/ /\ breakpointIds = {} /\ newState = {}                     \* case 3
     /\ Release(u)
     /\ UNCHANGED <<modelVars, wire>>
  \/ /\ breakpointIds = {} /\ newState # {}                     \* case 4
     /\ Send(Command("set", u, newState))
     /\ Await(u, "setting")
     /\ UNCHANGED modelVars

Wanted == ~isRemoved /\ enabled /\ ~diverged

updateInDebugger(u) ==
  /\ Holds(u) /\ phase[u] = "waiting"
  /\ IF disposed
       THEN /\ cleanUpAfterDebuggerIsGone
            /\ Release(u)
            /\ UNCHANGED <<read, wire, lastRead>>
       ELSE IF Wanted
       THEN /\ read' = [read EXCEPT ![u] = condition] /\ lastRead' = condition
            /\ Await(u, "resolving")
            /\ UNCHANGED <<modelVars, wire>>
       ELSE /\ lastRead' = NoCondition
            /\ Decide(u, {})
            /\ UNCHANGED read
  /\ UNCHANGED <<breakpointVars, debuggerVars, backendVars, cutShort, overtaken>>

(* uiLocationToRawLocations is answered; without locations the last        *)
(* resolved state or the url of the breakpoint serve.                      *)
locationsResolved(u) ==
  /\ phase[u] = "resolving"
  /\ \E L \in (SUBSET Locs) \ {{}} : Decide(u, L \X {read[u]})
  /\ read' = [read EXCEPT ![u] = NoCondition]
  /\ UNCHANGED <<breakpointVars, debuggerVars, backendVars, history>>

(* setBreakpointOnBackend is answered: ids for the positions in done.      *)
breakpointsSet(u, newState, done) ==
  LET rejected == done # newState IN
  \/ /\ done = {} /\ rejected /\ debuggerEnabled /\ ~isReadyToPause
     /\ Await(u, "waiting")                                     \* PENDING
     /\ UNCHANGED <<breakpointVars, modelVars, cutShort>>
  \/ /\ ~(done = {} /\ rejected /\ debuggerEnabled /\ ~isReadyToPause)
     /\ currentState' = newState
     /\ IF cancelCallback
          THEN /\ cancelCallback' = FALSE
               /\ Release(u)
               /\ cutShort' = (cutShort \/ backendOn)
               /\ UNCHANGED <<breakpointVars, breakpointIds, resolved>>
          ELSE IF done = {}
          THEN /\ ReleaseAndRemove(u)                           \* ERROR_BACKEND
               /\ UNCHANGED <<breakpointIds, cancelCallback, resolved, cutShort>>
          ELSE /\ breakpointIds' = At(done)
               /\ \/ resolved' = TRUE /\ Await(u, "locating")
                  \/ UNCHANGED resolved /\ Release(u)           \* no location yet
               /\ UNCHANGED <<breakpointVars, cancelCallback, cutShort>>

(* The resolved locations are mapped back, and may clash.                  *)
locationsAdded(u) ==
  /\ phase[u] = "locating"
  /\ \/ Release(u) /\ UNCHANGED breakpointVars
     \/ ReleaseAndRemove(u)                                     \* ERROR_BREAKPOINT_CLASH
  /\ UNCHANGED <<debuggerVars, read, modelVars, wire, backendVars, history>>

(* resetBreakpoint is answered.  It was called in an update, or by         *)
(* onScriptWasEdited, which then schedules one.                            *)
breakpointsRemoved(u) ==
  /\ currentState' = {}
  /\ cancelCallback' = FALSE
  /\ IF cancelCallback THEN UNCHANGED <<breakpointIds, resolved>>
     ELSE breakpointIds' = {} /\ resolved' = FALSE
  /\ \/ phase[u] = "resetting" /\ Await(u, "waiting")           \* PENDING
     \/ phase[u] = "refreshing" /\ debuggerEnabled /\ Enqueue(u, updateMutex)
     \/ phase[u] = "refreshing" /\ ~debuggerEnabled /\ Await(u, "idle")

----------------------------------------------------------------------------
(* The answers of the back-end, or the errors of a disposed session.       *)

answerSet(m) ==
  /\ m.op = "set"
  /\ \E refused \in SUBSET m.state :
       LET done == IF backendOn THEN {p \in m.state : p[1] \notin At(backend)} \ refused
                   ELSE {} IN
       /\ backend' = backend \cup done
       /\ breakpointsSet(m.by, m.state, done)
  /\ UNCHANGED <<debuggerVars, backendOn>>

answerRemove(m) ==
  /\ m.op = "remove"
  /\ backend' = backend \ m.state
  /\ breakpointsRemoved(m.by)
  /\ UNCHANGED <<breakpointVars, debuggerVars, backendOn, cutShort>>

(* registerDebugger; an error is passed over.                              *)
answerEnable(m) ==
  /\ m.op = "enable"
  /\ \/ /\ ~disposed
        /\ backendOn' = TRUE /\ isReadyToPause' = TRUE
     \/ UNCHANGED <<backendOn, isReadyToPause>>
  /\ UNCHANGED <<breakpointVars, debuggerEnabled, disposed, updateMutex, phase,
                 modelVars, backend, cutShort>>

(* disableDebugger ends with the event DebuggerWasDisabled, and the flags  *)
(* are not looked at again.                                                *)
answerDisable(m) ==
  /\ m.op = "disable"
  /\ backendOn' = FALSE /\ backend' = {}
  /\ isReadyToPause' = FALSE
  /\ IF isRemoved \/ disposed THEN UNCHANGED modelVars ELSE cleanUpAfterDebuggerIsGone
  /\ UNCHANGED <<breakpointVars, debuggerEnabled, disposed, updateMutex, phase, cutShort>>

Receive ==
  /\ wire # <<>>
  /\ LET m == Head(wire) IN
     IF m.op = "depth"   \* asyncStackTracesStateChanged
       THEN /\ wire' = Append(Tail(wire), Command("disable", 0, {}))
            /\ UNCHANGED <<breakpointVars, debuggerEnabled, isReadyToPause, disposed,
                           updateMutex, phase, modelVars, backendVars, cutShort>>
       ELSE /\ wire' = Tail(wire)
            /\ answerSet(m) \/ answerRemove(m) \/ answerEnable(m) \/ answerDisable(m)
  /\ UNCHANGED <<read, lastRead, overtaken>>

----------------------------------------------------------------------------
(* What happens to the breakpoint.                                         *)

updateState(e, c) ==
  /\ ~isRemoved /\ <<e, c>> # <<enabled, condition>>
  /\ enabled' = e /\ condition' = c
  /\ UNCHANGED debuggerVars
  /\ updateModels
  /\ UNCHANGED <<isRemoved, diverged, read, modelVars, wire, backendVars, history>>

remove ==
  /\ ~isRemoved /\ isRemoved' = TRUE
  /\ UNCHANGED debuggerVars
  /\ updateModels
  /\ UNCHANGED <<enabled, condition, diverged, read, modelVars, wire, backendVars, history>>

(* The script is edited in the workspace, or is the same again.            *)
diverge ==
  /\ diverged' = ~diverged
  /\ UNCHANGED <<enabled, condition, isRemoved, debuggerVars, updateMutex, phase, read,
                 modelVars, wire, backendVars, history>>

(* The script was edited live: the reset is not under the mutex.           *)
onScriptWasEdited ==
  /\ ~isRemoved /\ ~disposed /\ debuggerEnabled /\ resolved
  /\ \E u \in Procs :
       /\ Idle(u)
       /\ IF breakpointIds = {}
            THEN Enqueue(u, updateMutex) /\ UNCHANGED <<modelVars, wire>>
            ELSE startReset(u) /\ Await(u, "refreshing")
  /\ UNCHANGED <<breakpointVars, debuggerVars, read, backendVars, history>>

(* The backend resolves a breakpoint in a script that was parsed since.  A *)
(* clash of the location is a remove.                                      *)
breakpointResolved ==
  /\ breakpointIds # {} /\ backend # {} /\ ~resolved
  /\ resolved' = TRUE
  /\ UNCHANGED <<breakpointVars, debuggerVars, updateMutex, phase, read, breakpointIds,
                 currentState, cancelCallback, wire, backendVars, history>>

(* Suspending and resuming the target: DebuggerModel asks for its flag and *)
(* nothing else, so that a resume may overtake a suspension under way.     *)
Sent(ops) == {i \in DOMAIN wire : wire[i].op \in ops}
Switching == Cardinality(Sent({"enable", "depth", "disable"}))

disableDebugger ==
  /\ debuggerEnabled /\ ~disposed
  /\ Switching < Switches                                       \* bound
  /\ debuggerEnabled' = FALSE
  /\ Send(Command("depth", 0, {}))
  /\ UNCHANGED <<breakpointVars, isReadyToPause, disposed, updateMutex, phase, read, modelVars,
                 backendVars, history>>

Overtakes == Sent({"depth", "disable"}) # {} \/ (isRemoved /\ \E u \in Procs : phase[u] = "resolving")

enableDebugger ==
  /\ ~debuggerEnabled /\ ~disposed
  /\ Switching < Switches                                       \* bound
  /\ debuggerEnabled' = TRUE
  /\ Send(Command("enable", 0, {}))
  /\ IF isRemoved THEN UNCHANGED <<updateMutex, phase>> ELSE updateModels
  /\ overtaken' = (overtaken \/ Overtakes)
  /\ UNCHANGED <<breakpointVars, isReadyToPause, disposed, read, modelVars, backendVars,
                 lastRead, cutShort>>

(* The target is disposed of, and with it the session; modelRemoved.       *)
modelRemoved ==
  /\ ~disposed /\ disposed' = TRUE
  /\ backendOn' = FALSE /\ backend' = {}
  /\ cleanUpAfterDebuggerIsGone
  /\ UNCHANGED <<breakpointVars, debuggerEnabled, isReadyToPause, updateMutex,
                 phase, read, wire, history>>

Next ==
  \/ \E u \in Procs : updateInDebugger(u) \/ locationsResolved(u) \/ locationsAdded(u)
  \/ Receive
  \/ \E e \in BOOLEAN, c \in Conditions : updateState(e, c)
  \/ remove \/ diverge \/ onScriptWasEdited \/ breakpointResolved
  \/ disableDebugger \/ enableDebugger \/ modelRemoved

Spec == Init /\ [][Next]_vars

(* Promises run their continuations, and every command is answered.        *)
Fairness ==
  /\ \A u \in Procs :
       WF_vars(updateInDebugger(u)) /\ WF_vars(locationsResolved(u)) /\ WF_vars(locationsAdded(u))
  /\ WF_vars(Receive)
FairSpec == Spec /\ Fairness

----------------------------------------------------------------------------
Queued == {updateMutex[i] : i \in 1..Len(updateMutex)}

TypeOK ==
  /\ enabled \in BOOLEAN /\ condition \in Conditions
  /\ isRemoved \in BOOLEAN /\ diverged \in BOOLEAN
  /\ debuggerEnabled \in BOOLEAN /\ isReadyToPause \in BOOLEAN
  /\ disposed \in BOOLEAN
  /\ updateMutex \in Seq(Procs)
  /\ \A u \in Procs : phase[u] \in {"idle", "refreshing"} <=> u \notin Queued
  /\ phase \in [Procs -> Phases] /\ read \in [Procs -> Conditions \cup {NoCondition}]
  /\ breakpointIds \subseteq Locs /\ currentState \subseteq Positions
  /\ cancelCallback \in BOOLEAN /\ resolved \in BOOLEAN
  /\ wire \in Seq([op : {"set", "remove", "enable", "depth", "disable"},
                   by : Procs \cup {0}, state : SUBSET Positions])
  /\ backendOn \in BOOLEAN /\ backend \subseteq Positions
  /\ lastRead \in Conditions \cup {NoCondition} /\ cutShort \in BOOLEAN
  /\ overtaken \in BOOLEAN

Quiescent == (\A u \in Procs : phase[u] = "idle") /\ wire = <<>>

(* Once every update is through, the back-end that is on has no position   *)
(* of a breakpoint that is disabled or removed, and otherwise exactly      *)
(* those whose ids are known here, with the latest condition; none only if *)
(* the last update found the script diverged.  No change made while        *)
(* updates, resets and suspensions were under way is missed.  It does not  *)
(* hold once a leftover cancelCallback has cut an update short or a        *)
(* suspension was overtaken: a state found up to date is then lost with    *)
(* the late command of the suspension, and a position set after a removal. *)
InStep ==
  /\ TypeOK
  /\ Quiescent /\ debuggerEnabled /\ backendOn /\ ~cutShort /\ ~overtaken =>
      IF enabled /\ ~isRemoved
        THEN /\ backend \subseteq Locs \X {condition}
             /\ backend # {} => At(backend) = breakpointIds
             /\ backend = {} => lastRead = NoCondition
        ELSE backend = {}

(* The back-end is never asked for a position it already has; it would     *)
(* refuse, and the breakpoint be removed for it.  Only a leftover          *)
(* cancelCallback leaves positions behind that the ids do not name.        *)
NeverSetTwice ==
  wire # <<>> /\ Head(wire).op = "set" /\ ~cutShort => At(Head(wire).state) \cap At(backend) = {}

(* Every update comes to its end, and the mutex with it, though it may     *)
(* have to be repeated until the debugger is ready; unless it never is:    *)
(* the debugger counts as enabled, the back-end is off and no command is   *)
(* under way that turns it on.  The update is then repeated for ever.      *)
NeverReady == debuggerEnabled /\ ~isReadyToPause /\ ~disposed /\ Sent({"enable"}) = {}
UpdatesFinish ==
  <>[]~NeverReady => \A u \in Procs : phase[u] # "idle" ~> phase[u] = "idle"

(* "Case 3: State is null (no breakpoints to set), and back-end is up to   *)
(* date (no info on breakpoints)." (BreakpointManager.ts:1058)             *)
CaseThree ==
  \A u \in Procs :
    Holds(u) /\ phase[u] = "waiting"
      /\ ~Wanted /\ breakpointIds = {} => backend = {}
============================================================================
