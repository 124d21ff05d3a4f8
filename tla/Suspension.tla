----------------------------- MODULE Suspension -----------------------------
(***************************************************************************)
(* Suspending and resuming all targets (core/sdk/TargetManager.ts,         *)
(* core/sdk/Target.ts) with two kinds of models: agents, which disable and *)
(* enable their domain in the back end and keep a flag as CSSModel does,   *)
(* and pollers, which finish a poll before they are suspended as           *)
(* CoverageModel does.  A call of suspendAllTargets or resumeAllTargets    *)
(* runs one Target.suspend or resume per target; each awaits its models    *)
(* twice, so that calls can overlap when their callers do not await them.  *)
(***************************************************************************)
EXTENDS Integers, Sequences, SequencesExt

CONSTANTS Targets, Agents, Pollers,
          MaxCalls      \* bound on the calls of suspend and resumeAllTargets

ASSUME ModelsAssumption == Agents \cap Pollers = {}
ASSUME BoundAssumption == MaxCalls \in Nat

Models == Agents \cup Pollers
Calls == 1..MaxCalls
Nobody == 0     \* the constructor of a model, as the sender of a command

VARIABLES
  isSuspended,      \* TargetManager.#isSuspended
  live,             \* TargetManager.#targetsInternal
  born,             \* the targets that were ever created
  suspended,        \* the targets whose #isSuspended is set
  models,           \* models[t]: the models of t, created with it or on demand
  isEnabled,        \* isEnabled[t]: the agents that believe to be enabled
  ordered,          \* ordered[t]: the agents last told to enable their domain
  suspensionState,  \* suspensionState[t][m] of each poller
  commands,         \* commands[t]: sent to the back end, unanswered
  calls,            \* the number of calls so far
  phase,            \* phase[c][t]: where the suspend or resume of t by c is
  awaited,          \* awaited[c][t]: the models it is waiting for
  overlapped        \* history: did a call start before the last one had settled

vars == <<isSuspended, live, born, suspended, models, isEnabled, ordered,
          suspensionState, commands, calls, phase, awaited, overlapped>>

Phases == {"none", "preSuspend", "suspend", "resume", "done"}
Commands == [call : Calls \cup {Nobody}, model : Agents, enable : BOOLEAN]

Init ==
  /\ isSuspended = FALSE
  /\ live = {} /\ born = {} /\ suspended = {}
  /\ models = [t \in Targets |-> {}]
  /\ isEnabled = [t \in Targets |-> {}]
  /\ ordered = [t \in Targets |-> {}]
  /\ suspensionState = [t \in Targets |-> [m \in Pollers |-> "Active"]]
  /\ commands = [t \in Targets |-> <<>>]
  /\ calls = 0
  /\ phase = [c \in Calls |-> [t \in Targets |-> "none"]]
  /\ awaited = [c \in Calls |-> [t \in Targets |-> {}]]
  /\ overlapped = FALSE

Settled(c) == \A t \in Targets : phase[c][t] \in {"none", "done"}
Quiet == \A c \in Calls : Settled(c)

(* The commands that c sends for the agents of t.                          *)
Send(c, t, enable) ==
  SetToSeq({[call |-> c, model |-> m, enable |-> enable] : m \in models[t] \cap Agents})

(* A phase that has nobody to await is over at once.                       *)
BeginAwaited(p, waitFor) == p                     \* mutant
Begin(p, waitFor) == IF waitFor = {} THEN "done" ELSE p

----------------------------------------------------------------------------
(* suspendModel of all models of each t in T, after preSuspendModel of all *)
(* of them has settled.                                                    *)
SuspendModels(c, T) ==
  /\ isEnabled' = [t \in Targets |-> IF t \in T THEN isEnabled[t] \ models[t] ELSE isEnabled[t]]
  /\ ordered' = [t \in Targets |-> IF t \in T THEN ordered[t] \ models[t] ELSE ordered[t]]
  /\ commands' = [t \in Targets |->
       IF t \in T THEN commands[t] \o Send(c, t, FALSE) ELSE commands[t]]

(* suspendAllTargets; slow[t] are the pollers of t that have a poll to     *)
(* finish.  Without any, preSuspendModel takes no time.                    *)
suspendAllTargets(slow) ==
  LET c == calls + 1
      T == {t \in live : ~isSuspended /\ t \notin suspended}
      atOnce == {t \in T : slow[t] = {}}
      active(t) == {m \in models[t] \cap Pollers : suspensionState[t][m] = "Active"}
  IN
  /\ calls < MaxCalls
  /\ overlapped' = (overlapped \/ ~Quiet)
  /\ \A t \in Targets : slow[t] \subseteq active(t) /\ (t \notin T => slow[t] = {})
  /\ isSuspended' = TRUE
  /\ suspended' = suspended \cup T
  /\ calls' = c
  /\ suspensionState' = [t \in Targets |-> [m \in Pollers |->
       IF t \in atOnce /\ m \in models[t] THEN "Suspended"
       ELSE IF t \in T /\ m \in active(t) THEN "Suspending"
       ELSE suspensionState[t][m]]]
  /\ phase' = [phase EXCEPT ![c] = [t \in Targets |->
       IF t \in atOnce THEN Begin("suspend", models[t] \cap Agents)
       ELSE IF t \in T THEN "preSuspend" ELSE "none"]]
  /\ awaited' = [awaited EXCEPT ![c] = [t \in Targets |->
       IF t \in atOnce THEN models[t] \cap Agents ELSE slow[t]]]
  /\ SuspendModels(c, atOnce)
  /\ UNCHANGED <<live, born, models>>

(* A poller has finished its poll; after the last one the models of t are  *)
(* suspended, those that were created meanwhile too.                       *)
preSuspended(c, t, m) ==
  LET rest == awaited[c][t] \ {m} IN
  /\ phase[c][t] = "preSuspend" /\ m \in awaited[c][t]
  /\ IF rest # {}
       THEN /\ awaited' = [awaited EXCEPT ![c][t] = rest]
            /\ UNCHANGED <<phase, suspensionState, isEnabled, ordered, commands>>
       ELSE /\ awaited' = [awaited EXCEPT ![c][t] = models[t] \cap Agents]
            /\ phase' = [phase EXCEPT ![c][t] = Begin("suspend", models[t] \cap Agents)]
            /\ suspensionState' = [suspensionState EXCEPT ![t] =
                 [p \in Pollers |-> IF p \in models[t] THEN "Suspended" ELSE @[p]]]
            /\ SuspendModels(c, {t})
  /\ UNCHANGED <<isSuspended, live, born, suspended, models, calls, overlapped>>

(* postResumeModel of the models of t.                                     *)
PostResumed(t) ==
  [m \in Pollers |-> IF m \in models[t] THEN "Active" ELSE suspensionState[t][m]]

resumeAllTargets ==
  LET c == calls + 1
      T == {t \in live : isSuspended /\ t \in suspended}
      atOnce == {t \in T : models[t] \cap Agents = {}}
  IN
  /\ calls < MaxCalls
  /\ overlapped' = (overlapped \/ ~Quiet)
  /\ isSuspended' = FALSE
  /\ suspended' = suspended \ T
  /\ calls' = c
  /\ ordered' = [t \in Targets |->
       IF t \in T THEN ordered[t] \cup (models[t] \cap Agents) ELSE ordered[t]]
  /\ commands' = [t \in Targets |->
       IF t \in T THEN commands[t] \o Send(c, t, TRUE) ELSE commands[t]]
  /\ phase' = [phase EXCEPT ![c] = [t \in Targets |->
       IF t \in atOnce THEN "done" ELSE IF t \in T THEN "resume" ELSE "none"]]
  /\ awaited' = [awaited EXCEPT ![c] = [t \in Targets |->
       IF t \in T THEN models[t] \cap Agents ELSE {}]]
  /\ suspensionState' = [t \in Targets |->
       IF t \in atOnce THEN PostResumed(t) ELSE suspensionState[t]]
  /\ UNCHANGED <<live, born, models, isEnabled>>

(* The flag of an agent follows the answer to enable; suspendModel has     *)
(* taken it back already when it sent disable.                             *)
flagAfter(t, command) ==
  IF command.enable THEN isEnabled[t] \cup {command.model} ELSE isEnabled[t]

(* The back end answers the first command of t.  The answer goes to the    *)
(* suspend or resume that awaits the model, and the last one ends it.      *)
answered(t) ==
  LET command == Head(commands[t])
      c == command.call
      rest == awaited[c][t] \ {command.model}
  IN
  /\ commands[t] # <<>>
  /\ commands' = [commands EXCEPT ![t] = Tail(@)]
  /\ isEnabled' = [isEnabled EXCEPT ![t] = flagAfter(t, command)]
  /\ IF c = Nobody
       THEN UNCHANGED <<awaited, phase, suspensionState>>
       ELSE /\ awaited' = [awaited EXCEPT ![c][t] = rest]
            /\ phase' = [phase EXCEPT ![c][t] = Begin(@, rest)]
            /\ suspensionState' = [suspensionState EXCEPT ![t] =
                 IF rest = {} /\ phase[c][t] = "resume" THEN PostResumed(t) ELSE @]
  /\ UNCHANGED <<isSuspended, live, born, suspended, models, ordered, calls, overlapped>>

----------------------------------------------------------------------------
(* The models M of t are constructed.  An agent enables its domain unless  *)
(* the target is suspended (isOff); a poller is active.                    *)
ConstructEnabled(t, M, isOff) ==   \* mutant
  LET on == M \cap Agents IN
  /\ models' = [models EXCEPT ![t] = @ \cup M]
  /\ ordered' = [ordered EXCEPT ![t] = @ \cup on]
  /\ commands' = [commands EXCEPT ![t] =
       @ \o SetToSeq({[call |-> Nobody, model |-> m, enable |-> TRUE] : m \in on})]

Construct(t, M, isOff) ==
  LET on == IF isOff THEN {} ELSE M \cap Agents IN
  /\ models' = [models EXCEPT ![t] = @ \cup M]
  /\ ordered' = [ordered EXCEPT ![t] = @ \cup on]
  /\ commands' = [commands EXCEPT ![t] =
       @ \o SetToSeq({[call |-> Nobody, model |-> m, enable |-> TRUE] : m \in on})]

(* createTarget: a new target is suspended if all the others are.          *)
createTarget(t, M) ==
  /\ t \notin born
  /\ live' = live \cup {t} /\ born' = born \cup {t}
  /\ suspended' = IF isSuspended THEN suspended \cup {t} ELSE suspended
  /\ Construct(t, M, isSuspended)
  /\ UNCHANGED <<isSuspended, isEnabled, suspensionState, calls, phase, awaited, overlapped>>

(* Target.model, for a model that is not created with the target.          *)
model(t, m) ==
  /\ t \in live /\ m \notin models[t]
  /\ Construct(t, {m}, t \in suspended)
  /\ UNCHANGED <<isSuspended, live, born, suspended, isEnabled, suspensionState,
                 calls, phase, awaited, overlapped>>

(* The target goes; its commands are answered with errors.                 *)
removeTarget(t) ==
  /\ t \in live
  /\ live' = live \ {t}
  /\ UNCHANGED <<isSuspended, born, suspended, models, isEnabled, ordered,
                 suspensionState, commands, calls, phase, awaited, overlapped>>

Next ==
  \/ \E slow \in [Targets -> SUBSET Pollers] : suspendAllTargets(slow)
  \/ resumeAllTargets
  \/ \E c \in Calls, t \in Targets, m \in Pollers : preSuspended(c, t, m)
  \/ \E t \in Targets : answered(t) \/ removeTarget(t)
  \/ \E t \in Targets, M \in SUBSET Models : createTarget(t, M)
  \/ \E t \in Targets, m \in Models : model(t, m)

Spec == Init /\ [][Next]_vars

(* Polls end, and the back end answers.                                    *)
Fairness ==
  /\ \A t \in Targets : WF_vars(answered(t))
  /\ \A c \in Calls, t \in Targets, m \in Pollers : WF_vars(preSuspended(c, t, m))

----------------------------------------------------------------------------
TypeOK ==
  /\ isSuspended \in BOOLEAN /\ overlapped \in BOOLEAN
  /\ live \subseteq born /\ born \subseteq Targets /\ suspended \subseteq born
  /\ models \in [Targets -> SUBSET Models]
  /\ isEnabled \in [Targets -> SUBSET Agents]
  /\ ordered \in [Targets -> SUBSET Agents]
  /\ suspensionState \in [Targets -> [Pollers -> {"Active", "Suspending", "Suspended"}]]
  /\ commands \in [Targets -> Seq(Commands)]
  /\ calls \in 0..MaxCalls
  /\ phase \in [Calls -> [Targets -> Phases]]
  /\ awaited \in [Calls -> [Targets -> SUBSET Models]]
  /\ \A c \in Calls, t \in Targets :
       (phase[c][t] \in {"none", "done"}) = (awaited[c][t] = {})

(* The flags of the target manager and of its targets never differ,        *)
(* whatever is under way and whenever a target was created: the early      *)
(* returns of Target.suspend and Target.resume leave out no target.        *)
FlagsAgree == \A t \in live : (t \in suspended) = isSuspended

(* When every command of a live target is answered, its agents are enabled *)
(* exactly if nothing is suspended, and an agent that is enabled knows it. *)
(* (The converse fails: the answer to the enable of a constructor may come *)
(* after suspendModel took the flag back.)                                 *)
AgentsFollow ==
  \A t \in live :
    commands[t] = <<>> =>
      LET on == IF isSuspended THEN {} ELSE models[t] \cap Agents IN
      ordered[t] = on /\ on \subseteq isEnabled[t]

(* After resumeAllTargets no poller is left suspended, so that a recording *)
(* can start again.                                                        *)
PollersResume ==
  ~isSuspended =>
    \A t \in live : \A m \in models[t] \cap Pollers : suspensionState[t][m] = "Active"

(* What suspending and resuming bring about (Target.ts:215 to 233): the    *)
(* flags agree at all times, and when all calls have settled, none of them *)
(* having been made before the last one settled, the models follow.        *)
ModelsFollow ==
  /\ TypeOK /\ FlagsAgree
  /\ Quiet /\ ~overlapped => AgentsFollow /\ PollersResume

(* Every call settles, and so do its callers' awaits, though calls overlap *)
(* and targets go meanwhile.                                               *)
CallsSettle == \A c \in Calls : []<>Settled(c)
=============================================================================
