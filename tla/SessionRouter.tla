--------------------------- MODULE SessionRouter ---------------------------
(***************************************************************************)
(* The CDP session router of core/protocol_client/InspectorBackend.ts: one *)
(* router per connection multiplexes the protocol sessions of a tree of    *)
(* targets.  A command gets a message id, its callback waits in the map of *)
(* its session, and is run by the response, or by a timer once the session *)
(* is unregistered.  The counter of pending responses and the set of long  *)
(* polling ids decide when the scripts parked by                           *)
(* deprecatedRunAfterPendingDispatches may run.                            *)
(*                                                                         *)
(* A call is one use of a callback.  The JavaScript task is the grain of   *)
(* atomicity: a handler, and all it calls synchronously, is one action.    *)
(***************************************************************************)
EXTENDS Integers, FiniteSets

CONSTANTS Targets,      \* targets; a target's session id is the target itself
          Root,         \* the target of the session ''
          Below,        \* Below[t]: t and the targets under it
          Proxies,      \* ids of the sessions of parallel connections
          Calls,        \* the uses of a callback
          NoCall,       \* no callback is stored under an id
          Scripts,      \* functions given to deprecatedRunAfterPendingDispatches
          MaxId         \* bound on the message ids

ASSUME TargetsAssumption ==
  /\ Root \in Targets
  /\ Below \in [Targets -> SUBSET Targets]
  /\ \A t \in Targets : t \in Below[t] /\ t \in Below[Root]
  /\ Targets \cap Proxies = {}
ASSUME CallsAssumption == NoCall \notin Calls /\ MaxId \in Nat

Sessions == Targets \cup Proxies
Ids == 1..MaxId

VARIABLES
  router,         \* does the owner of session s hold the router (routerInternal)
  registered,     \* the keys of #sessions
  callbacks,      \* callbacks[s][id]: the call stored in the session's map
  lastMessageId,
  pendingResponsesCount,
  pendingLongPollingMessageIds,
  pendingScripts,
  scriptTimers,   \* timers of deprecatedRunAfterPendingDispatches
  errorTimers,    \* errorTimers[c]: timers that will run c with an error
  connected,      \* the connection still delivers messages
  sent,           \* <<session, id>> of every command put on the wire
  unanswered,     \* those the backend has not answered yet
  kind,           \* history: how the call was made
  issuer,         \* history: the session the call was made on
  settled,        \* history: how often the callback of the call has run
  outcome,        \* history: with what it ran last
  ranScripts,     \* history: the scripts that have run
  answeredIds     \* history: the ids whose callback a response ran

routerVars  == <<lastMessageId, pendingResponsesCount, pendingLongPollingMessageIds>>
sessionVars == <<router, registered, callbacks>>
scriptVars  == <<pendingScripts, scriptTimers, ranScripts>>
wireVars    == <<connected, sent, unanswered>>
callVars    == <<kind, issuer>>
doneVars    == <<settled, outcome, answeredIds>>
vars == <<routerVars, sessionVars, scriptVars, errorTimers, wireVars, callVars,
          doneVars>>

Kinds    == {"unused", "command", "longPoll", "raw"}
Outcomes == {"none", "answered", "closed"}
NoCallbacks == [id \in Ids |-> NoCall]

(* The root target made the router and registered its session.             *)
Init ==
  /\ router = [s \in Sessions |-> IF s = Root THEN "held" ELSE "none"]
  /\ registered = {Root}
  /\ callbacks = [s \in Sessions |-> NoCallbacks]
  /\ lastMessageId = 1
  /\ pendingResponsesCount = 0
  /\ pendingLongPollingMessageIds = {}
  /\ pendingScripts = {} /\ scriptTimers = 0 /\ ranScripts = {}
  /\ errorTimers = [c \in Calls |-> 0]
  /\ connected = TRUE /\ sent = {} /\ unanswered = {}
  /\ kind = [c \in Calls |-> "unused"]
  /\ issuer = [c \in Calls |-> Root]
  /\ settled = [c \in Calls |-> 0]
  /\ outcome = [c \in Calls |-> "none"]
  /\ answeredIds = {}

----------------------------------------------------------------------------
(* Sessions.                                                               *)

Stored(s) == {callbacks[s][id] : id \in Ids} \ {NoCall}

(* The backend never gives the same session id twice.                     *)
RegisterSession(s) ==
  /\ connected
  /\ router[s] = "none"
  /\ router' = [router EXCEPT ![s] = "held"]
  /\ registered' = registered \cup {s}
  /\ callbacks' = [callbacks EXCEPT ![s] = NoCallbacks]
  /\ UNCHANGED <<routerVars, scriptVars, errorTimers, wireVars, callVars,
                 doneVars>>

(* A child target's constructor takes the router of its live parent.       *)
CreateTarget(t) ==
  /\ router[Root] = "held"
  /\ RegisterSession(t)

(* createParallelConnectionAndSessionForTarget registers a proxied session *)
(* whose target is the parent target.                                      *)
RegisterProxy(p) == RegisterSession(p)

(* The calls whose callbacks are lost with the sessions S; as mutants, no  *)
(* call, and those of the other sessions too.                              *)
LostNone(S) == {}
LostAll(S) == {c \in Calls : \E s \in registered : c \in Stored(s)}
Lost(S) == {c \in Calls : \E s \in S \cap registered : c \in Stored(s)}

(* Mutant of UnregisterSessions: the callbacks are kept.                   *)
UnregisterSessionsKeeping(S) ==
  /\ errorTimers' = [c \in Calls |-> errorTimers[c] + (IF c \in Lost(S) THEN 1 ELSE 0)]
  /\ registered' = registered \ S
  /\ UNCHANGED <<callbacks, routerVars, scriptVars, callVars, doneVars>>

(* unregisterSession of every session of S: a timer for each callback, and *)
(* the session is deleted.  pendingResponsesCount is left alone.           *)
UnregisterSessions(S) ==
  /\ errorTimers' = [c \in Calls |-> errorTimers[c] + (IF c \in Lost(S) THEN 1 ELSE 0)]
  /\ registered' = registered \ S
  /\ callbacks' = [s \in Sessions |-> IF s \in S THEN NoCallbacks ELSE callbacks[s]]
  /\ UNCHANGED <<routerVars, scriptVars, callVars, doneVars>>

(* The owners of the sessions S give up the router.                        *)
Release(S) ==
  /\ router' = [s \in Sessions |-> IF s \in S THEN "disposed" ELSE router[s]]
  /\ UnregisterSessions(S)

(* Target.dispose: the target and those under it.                          *)
Held(t) == {u \in Below[t] : router[u] = "held"}

Dispose(t) ==
  /\ router[t] = "held"
  /\ Release(Held(t))
  /\ UNCHANGED wireVars

(* setOnDisconnect: the root session's target is disposed of.              *)
Disconnect ==
  /\ connected
  /\ connected' = FALSE /\ unanswered' = {} /\ UNCHANGED sent
  /\ Release(IF Root \in registered THEN Held(Root) ELSE {})

UnregisterProxy(p) ==
  /\ router[p] = "held"
  /\ Release({p})
  /\ UNCHANGED wireVars

----------------------------------------------------------------------------
(* Commands.                                                               *)

(* The ids to remember as long polling; as a mutant, none.                 *)
LongPollingNone(id, long) == {}
LongPolling(id, long) == IF long THEN {id} ELSE {}

SendMessage(c, s, long) ==
  LET id == lastMessageId IN
  /\ id \in Ids                                             \* bound
  /\ lastMessageId' = id + 1
  /\ pendingResponsesCount' = pendingResponsesCount + 1
  /\ pendingLongPollingMessageIds' =
       pendingLongPollingMessageIds \cup LongPolling(id, long)
  /\ IF s \in registered
       THEN /\ callbacks' = [callbacks EXCEPT ![s][id] = c]
            /\ sent' = sent \cup {<<s, id>>}
            /\ unanswered' = unanswered \cup {<<s, id>>}
       ELSE UNCHANGED <<callbacks, sent, unanswered>>
  /\ UNCHANGED <<router, registered, connected>>

Issue(c, s, k) ==
  /\ kind[c] = "unused"
  /\ kind' = [kind EXCEPT ![c] = k]
  /\ issuer' = [issuer EXCEPT ![c] = s]
  /\ UNCHANGED <<doneVars, scriptVars>>

(* An agent's invoke_* on a target with a router, and on a disposed one.   *)
Invoke(c, t, k) ==
  /\ Issue(c, t, k)
  /\ router[t] = "held"
  /\ SendMessage(c, t, k = "longPoll")
  /\ UNCHANGED errorTimers

InvokeDisposed(c, t, k) ==
  /\ Issue(c, t, k)
  /\ router[t] = "disposed"
  /\ errorTimers' = [errorTimers EXCEPT ![c] = @ + 1]
  /\ UNCHANGED <<routerVars, sessionVars, wireVars>>

(* sendRawMessageForTesting takes any session id, registered or not.       *)
SendRaw(c, s) ==
  /\ Issue(c, s, "raw")
  /\ SendMessage(c, s, FALSE)
  /\ UNCHANGED errorTimers

(* A parallel connection numbers its own commands and bypasses the router. *)
ProxySend(p, id) ==
  /\ connected /\ p \in registered
  /\ id = 1                        \* bound: one command, with an id of the router's
  /\ <<p, id>> \notin sent
  /\ sent' = sent \cup {<<p, id>>}
  /\ unanswered' = unanswered \cup {<<p, id>>}
  /\ UNCHANGED <<connected, routerVars, sessionVars, scriptVars, errorTimers,
                 callVars, doneVars>>

----------------------------------------------------------------------------
(* Messages of the backend.  An answer goes out once; error responses may  *)
(* repeat it after the session closed.                                     *)

hasOutstandingNonLongPollingRequests ==
  pendingResponsesCount > Cardinality(pendingLongPollingMessageIds)

Receive(s, id) ==
  /\ connected /\ <<s, id>> \in sent
  /\ unanswered' = unanswered \ {<<s, id>>}
  /\ UNCHANGED <<connected, sent>>

Settle(c, o) ==
  /\ settled' = [settled EXCEPT ![c] = @ + 1]
  /\ outcome' = [outcome EXCEPT ![c] = o]

(* Mutants: an ignored response is counted; a response does not delete its *)
(* callback.                                                               *)
OnIgnoredResponseCounting(s, id) ==
  /\ Receive(s, id)
  /\ s \notin registered \ Proxies \/ callbacks[s][id] = NoCall
  /\ pendingResponsesCount' = pendingResponsesCount - 1
  /\ UNCHANGED <<lastMessageId, pendingLongPollingMessageIds, sessionVars, scriptVars,
                 errorTimers, callVars, doneVars>>

(* A response on a session that is gone or proxied, or with an id no       *)
(* callback waits for, changes nothing here.                               *)
OnIgnoredResponse(s, id) ==
  /\ Receive(s, id)
  /\ \/ s \notin registered
     \/ s \in Proxies
     \/ callbacks[s][id] = NoCall
  /\ UNCHANGED <<routerVars, sessionVars, scriptVars, errorTimers, callVars,
                 doneVars>>

OnResponse(s, id) ==
  /\ Receive(s, id)
  /\ s \in registered \ Proxies
  /\ callbacks[s][id] # NoCall
  /\ callbacks' = [callbacks EXCEPT ![s][id] = NoCall]
  /\ Settle(callbacks[s][id], "answered")
  /\ answeredIds' = answeredIds \cup {id}
  /\ pendingResponsesCount' = pendingResponsesCount - 1
  /\ pendingLongPollingMessageIds' = pendingLongPollingMessageIds \ {id}
  /\ scriptTimers' = IF pendingScripts # {} /\ ~hasOutstandingNonLongPollingRequests'
                       THEN scriptTimers + 1 ELSE scriptTimers
  /\ UNCHANGED <<router, registered, lastMessageId, pendingScripts, ranScripts,
                 errorTimers, callVars>>

----------------------------------------------------------------------------
(* Timers.                                                                 *)

RunErrorTimer(c) ==
  /\ errorTimers[c] > 0
  /\ errorTimers' = [errorTimers EXCEPT ![c] = @ - 1]
  /\ Settle(c, "closed") /\ UNCHANGED answeredIds
  /\ UNCHANGED <<routerVars, sessionVars, scriptVars, wireVars, callVars>>

deprecatedRunAfterPendingDispatches(x) ==
  /\ x \notin pendingScripts \cup ranScripts
  /\ pendingScripts' = pendingScripts \cup {x}
  /\ scriptTimers' = scriptTimers + 1
  /\ UNCHANGED <<ranScripts, routerVars, sessionVars, errorTimers, wireVars,
                 callVars, doneVars>>

(* The timer runs the scripts, or parks itself again.                      *)
RunScriptTimer ==
  /\ scriptTimers > 0
  /\ IF hasOutstandingNonLongPollingRequests
       THEN UNCHANGED scriptVars
       ELSE /\ scriptTimers' = scriptTimers - 1
            /\ ranScripts' = ranScripts \cup pendingScripts
            /\ pendingScripts' = {}
  /\ UNCHANGED <<routerVars, sessionVars, errorTimers, wireVars, callVars,
                 doneVars>>

----------------------------------------------------------------------------
Next ==
  \/ \E t \in Targets : CreateTarget(t) \/ Dispose(t)
  \/ \E p \in Proxies : RegisterProxy(p) \/ UnregisterProxy(p)
  \/ Disconnect
  \/ \E c \in Calls, t \in Targets, k \in {"command", "longPoll"} :
       Invoke(c, t, k) \/ InvokeDisposed(c, t, k)
  \/ \E c \in Calls, s \in Sessions : SendRaw(c, s)
  \/ \E p \in Proxies, id \in Ids : ProxySend(p, id)
  \/ \E s \in Sessions, id \in Ids : OnResponse(s, id) \/ OnIgnoredResponse(s, id)
  \/ \E c \in Calls : RunErrorTimer(c)
  \/ \E x \in Scripts : deprecatedRunAfterPendingDispatches(x)
  \/ RunScriptTimer

Spec == Init /\ [][Next]_vars

(* The event loop runs every timer, and the backend answers each command   *)
(* it was sent, long polls excepted, for as long as the connection lasts.  *)
AnswerCommand(s, id) ==
  /\ <<s, id>> \in unanswered
  /\ \A c \in Calls : callbacks[s][id] = c => kind[c] # "longPoll"
  /\ OnResponse(s, id) \/ OnIgnoredResponse(s, id)

Fairness ==
  /\ \A s \in Targets, id \in Ids : WF_vars(AnswerCommand(s, id))
  /\ \A c \in Calls : WF_vars(RunErrorTimer(c))
  /\ WF_vars(RunScriptTimer)

FairSpec == Spec /\ Fairness
----------------------------------------------------------------------------
(* Properties.                                                             *)

TypeOK ==
  /\ router \in [Sessions -> {"none", "held", "disposed"}]
  /\ registered \subseteq Sessions
  /\ callbacks \in [Sessions -> [Ids -> Calls \cup {NoCall}]]
  /\ lastMessageId \in 1..MaxId + 1
  /\ pendingResponsesCount \in Int
  /\ pendingLongPollingMessageIds \subseteq Ids
  /\ pendingScripts \subseteq Scripts /\ ranScripts \subseteq Scripts
  /\ scriptTimers \in Nat
  /\ errorTimers \in [Calls -> Nat]
  /\ connected \in BOOLEAN
  /\ sent \subseteq Sessions \X Ids /\ unanswered \subseteq sent
  /\ kind \in [Calls -> Kinds] /\ issuer \in [Calls -> Sessions]
  /\ settled \in [Calls -> Nat] /\ outcome \in [Calls -> Outcomes]
  /\ answeredIds \subseteq Ids

(* A callback runs at most once, however responses, late error responses,  *)
(* the unregistration of its session and the timers interleave             *)
(* (InspectorBackend.ts: onMessage deletes it, unregisterSession drops it).*)
SettledAtMostOnce == \A c \in Calls : settled[c] <= 1

(* What lies behind it.  A callback in a map belongs to a registered       *)
(* session, has not run and has no timer; it lies under one id, and an id  *)
(* is used by one session.                                                 *)
StoredOnce ==
  \A s \in Sessions, id \in Ids : LET c == callbacks[s][id] IN
    c # NoCall =>
      /\ s \in registered /\ id < lastMessageId /\ id \notin answeredIds
      /\ kind[c] # "unused" /\ issuer[c] = s
      /\ settled[c] = 0 /\ errorTimers[c] = 0
      /\ id \in pendingLongPollingMessageIds => kind[c] = "longPoll"
      /\ \A s2 \in Sessions, id2 \in Ids :
           (id2 = id \/ s2 = s) /\ callbacks[s2][id2] # NoCall =>
             (s2 = s /\ (callbacks[s2][id2] = c => id2 = id))

(* A timer runs a callback that has not run, of a session that is gone.    *)
TimedOnce ==
  \A c \in Calls :
    /\ errorTimers[c] > 0 =>
         /\ errorTimers[c] = 1 /\ settled[c] = 0
         /\ kind[c] # "unused" /\ router[issuer[c]] = "disposed"
    /\ kind[c] = "unused" => settled[c] = 0

RegisteredIffHeld == \A s \in Sessions : s \in registered <=> router[s] = "held"

(* The callbacks waiting in the maps and in the timers are never run twice *)
(* nor forgotten in two places: the inductive invariant of                 *)
(* SettledAtMostOnce.                                                      *)
CallbacksInOnePlace ==
  /\ RegisteredIffHeld /\ StoredOnce /\ TimedOnce /\ SettledAtMostOnce

(* The counter is exact about responses: it is the number of ids handed    *)
(* out less those a response has answered, and the long polling ids are    *)
(* among the difference.                                                   *)
CountsResponses ==
  /\ pendingResponsesCount = lastMessageId - 1 - Cardinality(answeredIds)
  /\ answeredIds \subseteq 1..lastMessageId - 1
  /\ pendingLongPollingMessageIds \subseteq (1..lastMessageId - 1) \ answeredIds

(* The scripts of deprecatedRunAfterPendingDispatches never run while a    *)
(* command other than a long poll still waits for its response: the count  *)
(* of pending responses never falls below the callbacks that are stored.   *)
Quiet == \A s \in Sessions : \A c \in Stored(s) : kind[c] = "longPoll"
ScriptsRunWhenQuiet == [][ranScripts' # ranScripts => Quiet]_vars

(* A command issued through an agent runs its callback in the end: by a    *)
(* response, or by an error once its session is gone.  A long poll is only *)
(* promised the error.                                                     *)
CommandsSettle ==
  \A c \in Calls :
    \/ kind[c] = "command"
    \/ kind[c] = "longPoll" /\ router[issuer[c]] = "disposed"
    ~> settled[c] > 0

(* Every response that is still counted has a callback waiting for it, and *)
(* in no session whose responses go to a parallel connection.              *)
Accounted ==
  pendingResponsesCount =
    Cardinality({m \in Targets \X Ids : callbacks[m[1]][m[2]] # NoCall})

(* As long as no session is lost with callbacks in its map, a script runs  *)
(* in the end, however its timers and the responses interleave.            *)
ScriptsRunWhileAccounted ==
  \A x \in Scripts :
    []Accounted => (x \in pendingScripts ~> x \in ranScripts)

(* "Runs a function when no protocol activity is present."                 *)
(* (InspectorBackend.ts:209, on deprecatedRunAfterPendingDispatches), for  *)
(* calls made through agents only.                                         *)
NoRawCall == \A c \in Calls : kind[c] # "raw"
ScriptsRunOnceQuiet ==
  \A x \in Scripts :
    []NoRawCall /\ <>[]Quiet => (x \in pendingScripts ~> x \in ranScripts)

(* The router implements the life of a protocol call (ProtocolCalls): one  *)
(* settlement, a response only while the session is open, an error only    *)
(* once it is closed.                                                      *)
callState == [c \in Calls |->
  IF kind[c] = "unused" THEN "unused"
  ELSE IF settled[c] = 0 THEN "pending" ELSE outcome[c]]
Abstract == INSTANCE ProtocolCalls WITH
  state <- callState, on <- issuer,
  open <- registered, closed <- {s \in Sessions : router[s] = "disposed"}
ImplementsProtocolCalls == Abstract!Spec
============================================================================
