------------------------ MODULE SessionRouterProofs ------------------------
(***************************************************************************)
(* Proofs about SessionRouter: type correctness, at most one settlement    *)
(* per call, the exactness of the response counter with what it means for  *)
(* the scripts, and the implementation of ProtocolCalls.                   *)
(***************************************************************************)
EXTENDS SessionRouter, FiniteSetTheorems, TLAPS

(* The bodies shared by the actions are typed once.                        *)
LEMMA ReleaseType ==
  ASSUME TypeOK, NEW S \in SUBSET Sessions, Release(S)
  PROVE  /\ router' \in [Sessions -> {"none", "held", "disposed"}]
         /\ registered' \subseteq Sessions
         /\ callbacks' \in [Sessions -> [Ids -> Calls \cup {NoCall}]]
         /\ errorTimers' \in [Calls -> Nat]
         /\ UNCHANGED <<routerVars, scriptVars, callVars, doneVars>>
  BY DEF TypeOK, Release, UnregisterSessions, NoCallbacks

LEMMA SendMessageType ==
  ASSUME TypeOK, NEW c \in Calls, NEW s \in Sessions, NEW long \in BOOLEAN,
         SendMessage(c, s, long)
  PROVE  /\ callbacks' \in [Sessions -> [Ids -> Calls \cup {NoCall}]]
         /\ lastMessageId' \in 1..MaxId + 1
         /\ pendingResponsesCount' \in Int
         /\ pendingLongPollingMessageIds' \subseteq Ids
         /\ sent' \subseteq Sessions \X Ids /\ unanswered' \subseteq sent'
         /\ UNCHANGED <<router, registered, connected>>
  <1> USE CallsAssumption DEF TypeOK, SendMessage, LongPolling, Ids
  <1>1. lastMessageId \in Ids
    OBVIOUS
  <1>2. callbacks' \in [Sessions -> [Ids -> Calls \cup {NoCall}]]
    <2>1. CASE s \in registered
      <3>1. callbacks' = [callbacks EXCEPT ![s][lastMessageId] = c]
        BY <2>1
      <3> QED BY <3>1, <1>1
    <2>2. CASE s \notin registered
      BY <2>2
    <2> QED BY <2>1, <2>2
  <1>3. sent' \subseteq Sessions \X Ids /\ unanswered' \subseteq sent'
    BY <1>1
  <1>4. /\ lastMessageId' \in 1..MaxId + 1 /\ pendingResponsesCount' \in Int
        /\ pendingLongPollingMessageIds' \subseteq Ids
    BY <1>1
  <1> QED BY <1>2, <1>3, <1>4

LEMMA TypeStep == TypeOK /\ [Next]_vars => TypeOK'
<1> SUFFICES ASSUME TypeOK, [Next]_vars PROVE TypeOK'
  OBVIOUS
<1> USE TargetsAssumption
<1>1. ASSUME NEW t \in Targets, CreateTarget(t) PROVE TypeOK'
  BY <1>1 DEF CreateTarget, RegisterSession, TypeOK, NoCallbacks, Sessions,
     routerVars, scriptVars, wireVars, callVars, doneVars
<1>2. ASSUME NEW t \in Targets, Dispose(t) PROVE TypeOK'
  <2>1. Held(t) \in SUBSET Sessions
    BY DEF Held, Sessions
  <2> QED BY <1>2, <2>1, ReleaseType
          DEF Dispose, TypeOK, routerVars, scriptVars, wireVars, callVars, doneVars
<1>3. ASSUME NEW p \in Proxies, RegisterProxy(p) PROVE TypeOK'
  BY <1>3 DEF RegisterProxy, RegisterSession, TypeOK, NoCallbacks, Sessions,
     routerVars, scriptVars, wireVars, callVars, doneVars
<1>4. ASSUME NEW p \in Proxies, UnregisterProxy(p) PROVE TypeOK'
  <2>1. {p} \in SUBSET Sessions
    BY DEF Sessions
  <2> QED BY <1>4, <2>1, ReleaseType
          DEF UnregisterProxy, TypeOK, routerVars, scriptVars, wireVars, callVars, doneVars
<1>5. CASE Disconnect
  <2>1. (IF Root \in registered THEN Held(Root) ELSE {}) \in SUBSET Sessions
    BY DEF Held, Sessions
  <2> QED BY <1>5, <2>1, ReleaseType
          DEF Disconnect, TypeOK, routerVars, scriptVars, callVars, doneVars
<1>6. ASSUME NEW c \in Calls, NEW t \in Targets, NEW k \in {"command", "longPoll"},
             Invoke(c, t, k)
      PROVE  TypeOK'
  BY <1>6, SendMessageType
     DEF Invoke, Issue, TypeOK, Kinds, Sessions, doneVars, scriptVars
<1>7. ASSUME NEW c \in Calls, NEW t \in Targets, NEW k \in {"command", "longPoll"},
             InvokeDisposed(c, t, k)
      PROVE  TypeOK'
  BY <1>7 DEF InvokeDisposed, Issue, TypeOK, Kinds, Sessions, doneVars, scriptVars,
     routerVars, sessionVars, wireVars
<1>8. ASSUME NEW c \in Calls, NEW s \in Sessions, SendRaw(c, s) PROVE TypeOK'
  BY <1>8, SendMessageType
     DEF SendRaw, Issue, TypeOK, Kinds, doneVars, scriptVars
<1>9. ASSUME NEW p \in Proxies, NEW id \in Ids, ProxySend(p, id) PROVE TypeOK'
  BY <1>9 DEF ProxySend, TypeOK, Sessions, routerVars, sessionVars, scriptVars,
     callVars, doneVars
<1>10. ASSUME NEW s \in Sessions, NEW id \in Ids, OnResponse(s, id) PROVE TypeOK'
  <2>1. callbacks[s][id] \in Calls
    BY <1>10 DEF OnResponse, TypeOK
  <2>2. /\ callbacks' \in [Sessions -> [Ids -> Calls \cup {NoCall}]]
        /\ settled' \in [Calls -> Nat] /\ outcome' \in [Calls -> Outcomes]
    BY <1>10, <2>1 DEF OnResponse, Settle, TypeOK, Outcomes
  <2>3. /\ sent' = sent /\ unanswered' \subseteq sent /\ connected' \in BOOLEAN
        /\ scriptTimers' \in Nat
    BY <1>10 DEF OnResponse, Receive, TypeOK
  <2> QED BY <1>10, <2>2, <2>3 DEF OnResponse, TypeOK, callVars
<1>11. ASSUME NEW s \in Sessions, NEW id \in Ids, OnIgnoredResponse(s, id) PROVE TypeOK'
  BY <1>11 DEF OnIgnoredResponse, Receive, TypeOK, routerVars, sessionVars, scriptVars,
     callVars, doneVars
<1>12. ASSUME NEW c \in Calls, RunErrorTimer(c) PROVE TypeOK'
  BY <1>12 DEF RunErrorTimer, Settle, TypeOK, Outcomes, routerVars, sessionVars,
     scriptVars, wireVars, callVars
<1>13. ASSUME NEW x \in Scripts, deprecatedRunAfterPendingDispatches(x) PROVE TypeOK'
  BY <1>13 DEF deprecatedRunAfterPendingDispatches, TypeOK, routerVars, sessionVars,
     wireVars, callVars, doneVars
<1>14. CASE RunScriptTimer
  BY <1>14 DEF RunScriptTimer, TypeOK, routerVars, sessionVars, scriptVars,
     wireVars, callVars, doneVars
<1>15. CASE UNCHANGED vars
  BY <1>15 DEF vars, TypeOK, routerVars, sessionVars, scriptVars, wireVars,
     callVars, doneVars
<1> QED
  BY <1>1, <1>2, <1>3, <1>4, <1>5, <1>6, <1>7, <1>8, <1>9, <1>10, <1>11, <1>12,
     <1>13, <1>14, <1>15 DEF Next

(* Every variable of the router keeps its type.                            *)
THEOREM TypeCorrect == Spec => []TypeOK
<1>1. Init => TypeOK
  BY TargetsAssumption, CallsAssumption
     DEF Init, TypeOK, Sessions, Ids, NoCallbacks, Kinds, Outcomes
<1> QED BY <1>1, TypeStep, PTL DEF Spec

----------------------------------------------------------------------------
(* The inductive invariant.  Only an id that was handed out may be stored, *)
(* polled or answered, which CountsResponses says, and that keeps a new id *)
(* apart from all of them.                                                 *)
IInv == TypeOK /\ CallbacksInOnePlace /\ CountsResponses

LEMMA ReleaseInv ==
  ASSUME IInv, NEW S \in SUBSET Sessions, Release(S),
         \A s \in S : router[s] = "held"
  PROVE  CallbacksInOnePlace' /\ CountsResponses'
<1> USE DEF IInv, CallbacksInOnePlace, Release, UnregisterSessions
<1>0. TypeOK /\ UNCHANGED <<routerVars, scriptVars, callVars, doneVars>>
  BY ReleaseType
<1>1. RegisteredIffHeld'
  BY <1>0 DEF RegisteredIffHeld, TypeOK
<1>2. StoredOnce'
  <2> SUFFICES ASSUME NEW s \in Sessions, NEW id \in Ids, callbacks'[s][id] # NoCall
               PROVE  LET c == callbacks'[s][id] IN
                 /\ s \in registered' /\ id < lastMessageId' /\ id \notin answeredIds'
                 /\ kind'[c] # "unused" /\ issuer'[c] = s
                 /\ settled'[c] = 0 /\ errorTimers'[c] = 0
                 /\ id \in pendingLongPollingMessageIds' => kind'[c] = "longPoll"
                 /\ \A s2 \in Sessions, id2 \in Ids :
                      (id2 = id \/ s2 = s) /\ callbacks'[s2][id2] # NoCall =>
                        (s2 = s /\ (callbacks'[s2][id2] = c => id2 = id))
    BY DEF StoredOnce
  <2> DEFINE c == callbacks[s][id]
  <2>1. s \notin S /\ callbacks'[s][id] = c /\ c # NoCall
    BY DEF NoCallbacks
  <2>2. c \in Calls
    BY <1>0, <2>1 DEF TypeOK
  <2>3. \A s2 \in Sessions, id2 \in Ids :
          callbacks'[s2][id2] # NoCall => callbacks'[s2][id2] = callbacks[s2][id2]
    BY DEF NoCallbacks
  <2>4. errorTimers'[c] = 0
    <3>1. \A s2 \in S : c \notin Stored(s2)
      <4> SUFFICES ASSUME NEW s2 \in S, NEW id2 \in Ids, callbacks[s2][id2] = c
                   PROVE  FALSE
        BY DEF Stored
      <4> QED BY <2>1 DEF StoredOnce
    <3> QED BY <2>1, <2>2, <3>1 DEF StoredOnce, Lost
  <2> QED BY <1>0, <2>1, <2>2, <2>3, <2>4
          DEF StoredOnce, routerVars, scriptVars, callVars, doneVars
<1>3. TimedOnce'
  <2> SUFFICES ASSUME NEW c \in Calls
               PROVE  /\ errorTimers'[c] > 0 =>
                           /\ errorTimers'[c] = 1 /\ settled[c] = 0
                           /\ kind[c] # "unused" /\ router'[issuer[c]] = "disposed"
                      /\ kind[c] = "unused" => settled[c] = 0
    BY <1>0 DEF TimedOnce, callVars, doneVars
  <2>0. issuer[c] \in Sessions /\ errorTimers[c] \in Nat
    BY <1>0 DEF TypeOK
  <2>1. CASE \E s \in S \cap registered : c \in Stored(s)
    <3>1. PICK s \in S \cap registered, id \in Ids : callbacks[s][id] = c /\ c # NoCall
      BY <2>1 DEF Stored
    <3>2. /\ kind[c] # "unused" /\ issuer[c] = s /\ settled[c] = 0 /\ errorTimers[c] = 0
      BY <3>1 DEF StoredOnce
    <3>3. errorTimers'[c] = 1 /\ router'[s] = "disposed"
      BY <2>1, <3>2 DEF Lost
    <3> QED BY <3>2, <3>3
  <2>2. CASE ~ \E s \in S \cap registered : c \in Stored(s)
    <3>1. errorTimers'[c] = errorTimers[c]
      BY <2>0, <2>2 DEF Lost
    <3> QED BY <2>0, <3>1 DEF TimedOnce
  <2> QED BY <2>1, <2>2
<1>4. SettledAtMostOnce' /\ CountsResponses'
  BY <1>0 DEF SettledAtMostOnce, CountsResponses, routerVars, doneVars
<1> QED BY <1>1, <1>2, <1>3, <1>4

LEMMA AnsweredIdsFinite ==
  ASSUME TypeOK, CountsResponses
  PROVE  IsFiniteSet(answeredIds) /\ Cardinality(answeredIds) \in Nat
<1>1. IsFiniteSet(1..lastMessageId - 1)
  BY FS_Interval, lastMessageId - 1 \in Int DEF TypeOK
<1>2. IsFiniteSet(answeredIds)
  BY <1>1, FS_Subset DEF CountsResponses
<1> QED BY <1>2, FS_CardinalityType

(* A command that is sent gets an id nothing else uses.                    *)
LEMMA SendInv ==
  ASSUME IInv, NEW c \in Calls, NEW s \in Sessions, NEW k \in Kinds \ {"unused"},
         Issue(c, s, k), SendMessage(c, s, k = "longPoll"), UNCHANGED errorTimers
  PROVE  CallbacksInOnePlace' /\ CountsResponses'
<1> USE DEF IInv, CallbacksInOnePlace
<1> DEFINE n == lastMessageId
<1>0. /\ TypeOK /\ n \in Ids /\ n \in Nat
      /\ UNCHANGED <<router, registered, settled, answeredIds>>
      /\ lastMessageId' = n + 1
      /\ pendingLongPollingMessageIds' =
           pendingLongPollingMessageIds \cup (IF k = "longPoll" THEN {n} ELSE {})
  BY DEF Issue, SendMessage, LongPolling, Ids, doneVars
<1>1. RegisteredIffHeld' /\ SettledAtMostOnce'
  BY <1>0 DEF RegisteredIffHeld, SettledAtMostOnce
<1>2. /\ kind[c] = "unused" /\ kind' = [kind EXCEPT ![c] = k]
      /\ issuer' = [issuer EXCEPT ![c] = s]
  BY DEF Issue
<1>3. settled[c] = 0 /\ errorTimers[c] = 0
  BY <1>0, <1>2 DEF TimedOnce, TypeOK
<1>4. \A s2 \in Sessions, id2 \in Ids : callbacks[s2][id2] # c /\
        (callbacks[s2][id2] # NoCall => id2 # n /\ callbacks[s2][id2] \in Calls)
  BY <1>0, <1>2, CallsAssumption DEF StoredOnce, TypeOK, Ids
<1>5. n \notin answeredIds /\ n \notin pendingLongPollingMessageIds
  BY <1>0 DEF CountsResponses
<1>6. StoredOnce'
  <2>1. CASE s \in registered
    <3>1. callbacks' = [callbacks EXCEPT ![s][n] = c]
      BY <2>1 DEF SendMessage
    <3>2. \A s2 \in Sessions, id2 \in Ids :
            callbacks'[s2][id2] = IF s2 = s /\ id2 = n THEN c ELSE callbacks[s2][id2]
      BY <1>0, <3>1 DEF TypeOK
    <3>3. \A s2 \in Sessions, id2 \in Ids : LET d == callbacks'[s2][id2] IN
            d # NoCall =>
              /\ s2 \in registered' /\ id2 < lastMessageId' /\ id2 \notin answeredIds'
              /\ kind'[d] # "unused" /\ issuer'[d] = s2
              /\ settled'[d] = 0 /\ errorTimers'[d] = 0
              /\ id2 \in pendingLongPollingMessageIds' => kind'[d] = "longPoll"
      BY <1>0, <1>2, <1>3, <1>4, <1>5, <2>1, <3>2 DEF StoredOnce, TypeOK, Ids, Kinds
    <3>4. \A s1, s2 \in Sessions, id1, id2 \in Ids :
            /\ (id2 = id1 \/ s2 = s1)
            /\ callbacks'[s1][id1] # NoCall /\ callbacks'[s2][id2] # NoCall
            => (s2 = s1 /\ (callbacks'[s2][id2] = callbacks'[s1][id1] => id2 = id1))
      <4> SUFFICES ASSUME NEW s1 \in Sessions, NEW s2 \in Sessions,
                          NEW id1 \in Ids, NEW id2 \in Ids,
                          id2 = id1 \/ s2 = s1,
                          callbacks'[s1][id1] # NoCall, callbacks'[s2][id2] # NoCall
                   PROVE  s2 = s1 /\ (callbacks'[s2][id2] = callbacks'[s1][id1] => id2 = id1)
        OBVIOUS
      <4> QED BY <1>4, <3>2 DEF StoredOnce
    <3> QED BY <3>3, <3>4 DEF StoredOnce
  <2>2. CASE s \notin registered
    <3>1. callbacks' = callbacks
      BY <2>2 DEF SendMessage
    <3> QED BY <1>0, <1>2, <1>4, <3>1 DEF StoredOnce, TypeOK, Ids, Kinds
  <2> QED BY <2>1, <2>2
<1>7. TimedOnce'
  BY <1>0, <1>2, <1>3 DEF TimedOnce, TypeOK, Kinds
<1>8. CountsResponses'
  <2>1. pendingResponsesCount' = pendingResponsesCount + 1
    BY DEF SendMessage
  <2>2. pendingResponsesCount' = lastMessageId' - 1 - Cardinality(answeredIds')
    <3>1. Cardinality(answeredIds) \in Nat
      BY AnsweredIdsFinite
    <3> QED BY <1>0, <2>1, <3>1 DEF CountsResponses
  <2>3. /\ answeredIds' \subseteq 1..lastMessageId' - 1
        /\ pendingLongPollingMessageIds' \subseteq (1..lastMessageId' - 1) \ answeredIds'
    <3>1. lastMessageId' - 1 = n /\ 1..n - 1 \subseteq 1..n /\ n \in 1..n
      BY <1>0 DEF Ids
    <3>2. /\ answeredIds \subseteq 1..n - 1
          /\ pendingLongPollingMessageIds \subseteq (1..n - 1) \ answeredIds
      BY DEF CountsResponses
    <3> QED BY <1>0, <1>5, <3>1, <3>2
  <2> QED BY <2>2, <2>3 DEF CountsResponses
<1> QED BY <1>1, <1>6, <1>7, <1>8

(* A response takes its callback out of the map before it runs it.         *)
LEMMA ResponseInv ==
  ASSUME IInv, NEW s \in Sessions, NEW id \in Ids, OnResponse(s, id)
  PROVE  CallbacksInOnePlace' /\ CountsResponses'
<1> USE DEF IInv, CallbacksInOnePlace
<1> DEFINE c == callbacks[s][id]
<1>0. /\ TypeOK /\ c \in Calls /\ c # NoCall
      /\ callbacks' = [callbacks EXCEPT ![s][id] = NoCall]
      /\ settled' = [settled EXCEPT ![c] = settled[c] + 1]
      /\ answeredIds' = answeredIds \cup {id}
      /\ pendingLongPollingMessageIds' = pendingLongPollingMessageIds \ {id}
      /\ pendingResponsesCount' = pendingResponsesCount - 1
      /\ UNCHANGED <<router, registered, lastMessageId, errorTimers, kind, issuer>>
  BY DEF OnResponse, Settle, TypeOK, callVars
<1>1. /\ settled[c] = 0 /\ errorTimers[c] = 0 /\ kind[c] # "unused"
      /\ id < lastMessageId /\ id \notin answeredIds
  BY <1>0 DEF StoredOnce
<1>2. RegisteredIffHeld' /\ SettledAtMostOnce'
  BY <1>0, <1>1 DEF RegisteredIffHeld, SettledAtMostOnce, TypeOK
<1>3. StoredOnce'
  <2>1. \A s2 \in Sessions, id2 \in Ids : callbacks'[s2][id2] # NoCall =>
          /\ callbacks'[s2][id2] = callbacks[s2][id2]
          /\ callbacks[s2][id2] # c /\ id2 # id
    BY <1>0 DEF TypeOK, StoredOnce
  <2> QED BY <1>0, <2>1 DEF StoredOnce, TypeOK
<1>4. TimedOnce'
  BY <1>0, <1>1 DEF TimedOnce, TypeOK
<1>5. CountsResponses'
  <2>1. IsFiniteSet(answeredIds) /\ Cardinality(answeredIds) \in Nat
    BY AnsweredIdsFinite
  <2>2. Cardinality(answeredIds') = Cardinality(answeredIds) + 1
    BY <1>0, <1>1, <2>1, FS_AddElement
  <2>3. pendingResponsesCount' = lastMessageId' - 1 - Cardinality(answeredIds')
    BY <1>0, <2>1, <2>2 DEF CountsResponses, TypeOK
  <2>4. id \in 1..lastMessageId - 1
    BY <1>0, <1>1 DEF TypeOK, Ids
  <2> QED BY <1>0, <2>3, <2>4 DEF CountsResponses
<1> QED BY <1>2, <1>3, <1>4, <1>5

LEMMA ErrorTimerInv ==
  ASSUME IInv, NEW c \in Calls, RunErrorTimer(c)
  PROVE  CallbacksInOnePlace' /\ CountsResponses'
<1> USE DEF IInv, CallbacksInOnePlace
<1>0. /\ TypeOK /\ errorTimers[c] > 0
      /\ errorTimers' = [errorTimers EXCEPT ![c] = errorTimers[c] - 1]
      /\ settled' = [settled EXCEPT ![c] = settled[c] + 1]
      /\ UNCHANGED <<routerVars, sessionVars, callVars, answeredIds>>
  BY DEF RunErrorTimer, Settle
<1>1. errorTimers[c] = 1 /\ settled[c] = 0 /\ kind[c] # "unused"
  BY <1>0 DEF TimedOnce
<1>2. \A s \in Sessions, id \in Ids : callbacks[s][id] # c
  BY <1>0, <1>1, CallsAssumption DEF StoredOnce
<1>3. StoredOnce'
  BY <1>0, <1>2 DEF StoredOnce, TypeOK, routerVars, sessionVars, callVars
<1>4. TimedOnce' /\ SettledAtMostOnce'
  BY <1>0, <1>1 DEF TimedOnce, SettledAtMostOnce, TypeOK, sessionVars, callVars
<1> QED BY <1>0, <1>3, <1>4 DEF RegisteredIffHeld, CountsResponses, sessionVars, routerVars

(* A new session starts with an empty map.                                 *)
LEMMA RegisterInv ==
  ASSUME IInv, NEW s \in Sessions, RegisterSession(s)
  PROVE  CallbacksInOnePlace' /\ CountsResponses'
<1> USE DEF IInv, CallbacksInOnePlace
<1>0. /\ TypeOK /\ router[s] = "none" /\ router' = [router EXCEPT ![s] = "held"]
      /\ registered' = registered \cup {s}
      /\ callbacks' = [callbacks EXCEPT ![s] = NoCallbacks]
      /\ UNCHANGED <<routerVars, errorTimers, callVars, doneVars>>
  BY DEF RegisterSession
<1>1. \A s2 \in Sessions, id \in Ids : callbacks'[s2][id] # NoCall =>
        s2 # s /\ callbacks'[s2][id] = callbacks[s2][id]
  BY <1>0 DEF TypeOK, NoCallbacks
<1>2. StoredOnce'
  BY <1>0, <1>1 DEF StoredOnce, routerVars, callVars, doneVars
<1>3. TimedOnce'
  BY <1>0 DEF TimedOnce, TypeOK, callVars, doneVars
<1> QED BY <1>0, <1>2, <1>3
        DEF RegisteredIffHeld, SettledAtMostOnce, CountsResponses, TypeOK, doneVars, routerVars

(* A call on a disposed target goes straight to a timer.                   *)
LEMMA InvokeDisposedInv ==
  ASSUME IInv, NEW c \in Calls, NEW t \in Sessions, NEW k \in Kinds \ {"unused"},
         InvokeDisposed(c, t, k)
  PROVE  CallbacksInOnePlace' /\ CountsResponses'
<1> USE DEF IInv, CallbacksInOnePlace
<1>0. /\ TypeOK /\ kind[c] = "unused" /\ kind' = [kind EXCEPT ![c] = k]
      /\ issuer' = [issuer EXCEPT ![c] = t] /\ router[t] = "disposed"
      /\ errorTimers' = [errorTimers EXCEPT ![c] = errorTimers[c] + 1]
      /\ UNCHANGED <<routerVars, sessionVars, doneVars>>
  BY DEF InvokeDisposed, Issue
<1>1. settled[c] = 0 /\ errorTimers[c] = 0
  BY <1>0 DEF TimedOnce, TypeOK
<1>2. \A s \in Sessions, id \in Ids : callbacks[s][id] # c
  BY <1>0, CallsAssumption DEF StoredOnce
<1>3. StoredOnce'
  BY <1>0, <1>2 DEF StoredOnce, TypeOK, routerVars, sessionVars, doneVars
<1>4. TimedOnce'
  BY <1>0, <1>1 DEF TimedOnce, TypeOK, Kinds, sessionVars, doneVars
<1> QED BY <1>0, <1>3, <1>4
        DEF RegisteredIffHeld, SettledAtMostOnce, CountsResponses, sessionVars,
            doneVars, routerVars

(* Steps that touch neither calls nor sessions.                            *)
LEMMA FrameInv ==
  ASSUME IInv, UNCHANGED <<routerVars, sessionVars, errorTimers, callVars, doneVars>>
  PROVE  CallbacksInOnePlace' /\ CountsResponses'
  BY DEF IInv, CallbacksInOnePlace, CountsResponses, RegisteredIffHeld, StoredOnce,
     TimedOnce, SettledAtMostOnce, routerVars, sessionVars, callVars, doneVars

LEMMA InvStep == IInv /\ [Next]_vars => IInv'
<1> SUFFICES ASSUME IInv, [Next]_vars PROVE CallbacksInOnePlace' /\ CountsResponses'
  BY TypeStep DEF IInv
<1>0. TypeOK /\ Targets \subseteq Sessions /\ Proxies \subseteq Sessions
  BY DEF IInv, Sessions
<1>1. ASSUME NEW t \in Targets, CreateTarget(t) PROVE CallbacksInOnePlace' /\ CountsResponses'
  BY <1>0, <1>1, RegisterInv DEF CreateTarget
<1>2. ASSUME NEW t \in Targets, Dispose(t) PROVE CallbacksInOnePlace' /\ CountsResponses'
  <2>1. Held(t) \in SUBSET Sessions /\ \A s \in Held(t) : router[s] = "held"
    BY <1>0, TargetsAssumption DEF Held
  <2> QED BY <1>2, <2>1, ReleaseInv DEF Dispose
<1>3. ASSUME NEW p \in Proxies, RegisterProxy(p) PROVE CallbacksInOnePlace' /\ CountsResponses'
  BY <1>0, <1>3, RegisterInv DEF RegisterProxy
<1>4. ASSUME NEW p \in Proxies, UnregisterProxy(p) PROVE CallbacksInOnePlace' /\ CountsResponses'
  <2>1. {p} \in SUBSET Sessions /\ \A s \in {p} : router[s] = "held"
    BY <1>0, <1>4 DEF UnregisterProxy
  <2> QED BY <1>4, <2>1, ReleaseInv DEF UnregisterProxy
<1>5. CASE Disconnect
  <2> DEFINE S == IF Root \in registered THEN Held(Root) ELSE {}
  <2>1. S \in SUBSET Sessions /\ \A s \in S : router[s] = "held"
    BY <1>0, TargetsAssumption DEF Held
  <2>2. Release(S)
    BY <1>5 DEF Disconnect
  <2> QED BY <2>1, <2>2, ReleaseInv
<1>6. ASSUME NEW c \in Calls, NEW t \in Targets, NEW k \in {"command", "longPoll"},
             Invoke(c, t, k)
      PROVE  CallbacksInOnePlace' /\ CountsResponses'
  BY <1>0, <1>6, SendInv DEF Invoke, Kinds
<1>7. ASSUME NEW c \in Calls, NEW t \in Targets, NEW k \in {"command", "longPoll"},
             InvokeDisposed(c, t, k)
      PROVE  CallbacksInOnePlace' /\ CountsResponses'
  BY <1>0, <1>7, InvokeDisposedInv DEF Kinds
<1>8. ASSUME NEW c \in Calls, NEW s \in Sessions, SendRaw(c, s)
      PROVE  CallbacksInOnePlace' /\ CountsResponses'
  <2>1. "raw" \in Kinds \ {"unused"} /\ ("raw" = "longPoll") = FALSE
    BY DEF Kinds
  <2> QED BY <1>8, <2>1, SendInv DEF SendRaw
<1>9. ASSUME NEW p \in Proxies, NEW id \in Ids, ProxySend(p, id)
      PROVE  CallbacksInOnePlace' /\ CountsResponses'
  BY <1>9, FrameInv DEF ProxySend
<1>10. ASSUME NEW s \in Sessions, NEW id \in Ids, OnResponse(s, id)
       PROVE  CallbacksInOnePlace' /\ CountsResponses'
  BY <1>10, ResponseInv
<1>11. ASSUME NEW s \in Sessions, NEW id \in Ids, OnIgnoredResponse(s, id)
       PROVE  CallbacksInOnePlace' /\ CountsResponses'
  BY <1>11, FrameInv DEF OnIgnoredResponse
<1>12. ASSUME NEW c \in Calls, RunErrorTimer(c) PROVE CallbacksInOnePlace' /\ CountsResponses'
  BY <1>12, ErrorTimerInv
<1>13. ASSUME NEW x \in Scripts, deprecatedRunAfterPendingDispatches(x)
       PROVE  CallbacksInOnePlace' /\ CountsResponses'
  BY <1>13, FrameInv DEF deprecatedRunAfterPendingDispatches
<1>14. CASE RunScriptTimer
  BY <1>14, FrameInv DEF RunScriptTimer
<1>15. CASE UNCHANGED vars
  BY <1>15, FrameInv DEF vars
<1> QED
  BY <1>1, <1>2, <1>3, <1>4, <1>5, <1>6, <1>7, <1>8, <1>9, <1>10, <1>11, <1>12,
     <1>13, <1>14, <1>15 DEF Next

LEMMA InvInit == Init => IInv
<1> SUFFICES ASSUME Init PROVE IInv
  OBVIOUS
<1>1. TypeOK
  BY TargetsAssumption, CallsAssumption
     DEF Init, TypeOK, Sessions, Ids, NoCallbacks, Kinds, Outcomes
<1>2. CallbacksInOnePlace
  BY DEF Init, CallbacksInOnePlace, RegisteredIffHeld, StoredOnce, TimedOnce,
     SettledAtMostOnce, NoCallbacks
<1>3. CountsResponses
  BY FS_EmptySet DEF Init, CountsResponses
<1> QED BY <1>1, <1>2, <1>3 DEF IInv

(* A waiting callback is in one place only, and runs at most once: each of *)
(* the maps, the timers and the history agree on it.                       *)
THEOREM CallbacksInOnePlaceAlways == Spec => [](CallbacksInOnePlace /\ CountsResponses)
<1>1. IInv => CallbacksInOnePlace /\ CountsResponses
  BY DEF IInv
<1> QED BY InvInit, InvStep, <1>1, PTL DEF Spec

(* No callback of a protocol call runs twice.                              *)
THEOREM AtMostOneSettlement == Spec => []SettledAtMostOnce
<1>1. IInv => SettledAtMostOnce
  BY DEF IInv, CallbacksInOnePlace
<1> QED BY InvInit, InvStep, <1>1, PTL DEF Spec

----------------------------------------------------------------------------
(* A command that waits keeps the counter above the long polls: its id is  *)
(* one more among the ids handed out and not answered.                     *)
LEMMA NothingOutstandingIsQuiet ==
  ASSUME IInv, ~hasOutstandingNonLongPollingRequests
  PROVE  Quiet
<1> SUFFICES ASSUME NEW s \in Sessions, NEW id \in Ids, callbacks[s][id] # NoCall,
                    kind[callbacks[s][id]] # "longPoll"
             PROVE  FALSE
  BY DEF Quiet, Stored
<1> DEFINE polls == pendingLongPollingMessageIds
           used == 1..lastMessageId - 1
<1>0. TypeOK /\ CountsResponses /\ lastMessageId \in Nat /\ lastMessageId >= 1
  BY DEF IInv, TypeOK
<1>1. id \in used /\ id \notin polls /\ id \notin answeredIds
  BY <1>0 DEF IInv, CallbacksInOnePlace, StoredOnce, TypeOK, Ids
<1>2. IsFiniteSet(used) /\ Cardinality(used) = lastMessageId - 1
  BY <1>0, FS_Interval, lastMessageId - 1 \in Int
<1>3. polls \subseteq used /\ answeredIds \subseteq used /\ polls \cap answeredIds = {}
  BY <1>0 DEF CountsResponses
<1>4. IsFiniteSet(polls) /\ IsFiniteSet(answeredIds)
  BY <1>2, <1>3, FS_Subset
<1>5. Cardinality(polls \cup answeredIds) = Cardinality(polls) + Cardinality(answeredIds)
  <2>1. Cardinality(polls) \in Nat /\ Cardinality(answeredIds) \in Nat
    BY <1>4, FS_CardinalityType
  <2>2. Cardinality(polls \cap answeredIds) = 0
    BY <1>3, FS_EmptySet
  <2> QED BY <1>4, <2>1, <2>2, FS_Union
<1>6. /\ IsFiniteSet(polls \cup answeredIds)
      /\ Cardinality((polls \cup answeredIds) \cup {id}) = Cardinality(polls \cup answeredIds) + 1
  BY <1>1, <1>4, FS_Union, FS_AddElement
<1>7. Cardinality((polls \cup answeredIds) \cup {id}) <= lastMessageId - 1
  BY <1>1, <1>2, <1>3, FS_Subset
<1>8. Cardinality(polls) \in Nat /\ Cardinality(answeredIds) \in Nat
  BY <1>4, FS_CardinalityType
<1> QED BY <1>0, <1>5, <1>6, <1>7, <1>8
        DEF hasOutstandingNonLongPollingRequests, CountsResponses

LEMMA ScriptStep == IInv /\ [Next]_vars => (ranScripts' # ranScripts => Quiet)
<1> SUFFICES ASSUME IInv, [Next]_vars, ranScripts' # ranScripts PROVE Quiet
  OBVIOUS
<1>1. CASE RunScriptTimer
  <2>1. ~hasOutstandingNonLongPollingRequests
    BY <1>1 DEF RunScriptTimer, scriptVars
  <2> QED BY <2>1, NothingOutstandingIsQuiet
<1>2. CASE ~RunScriptTimer
  BY <1>2 DEF Next, vars, CreateTarget, RegisterProxy, RegisterSession, Dispose,
     Disconnect, UnregisterProxy, Release, UnregisterSessions, Invoke, InvokeDisposed,
     SendRaw, Issue, ProxySend, OnResponse, OnIgnoredResponse, RunErrorTimer,
     deprecatedRunAfterPendingDispatches, scriptVars
<1> QED BY <1>1, <1>2

(* No script runs while a command other than a long poll waits.            *)
THEOREM ScriptsWaitForCommands == Spec => ScriptsRunWhenQuiet
<1> QED BY InvInit, InvStep, ScriptStep, PTL DEF Spec, ScriptsRunWhenQuiet

----------------------------------------------------------------------------
(* Refinement of ProtocolCalls.                                            *)

LEMMA RegisterRefines ==
  ASSUME IInv, NEW s \in Sessions, RegisterSession(s)
  PROVE  Abstract!Open(s)
<1>1. UNCHANGED <<callState, issuer>>
  BY DEF RegisterSession, callState, callVars, doneVars
<1>2. /\ s \notin registered /\ router[s] # "disposed"
      /\ registered' = registered \cup {s}
      /\ {u \in Sessions : router'[u] = "disposed"} = {u \in Sessions : router[u] = "disposed"}
  BY DEF RegisterSession, IInv, CallbacksInOnePlace, RegisteredIffHeld, TypeOK
<1> QED BY <1>1, <1>2 DEF Abstract!Open

LEMMA ReleaseRefines ==
  ASSUME IInv, NEW S \in SUBSET Sessions, \A s \in S : router[s] = "held", Release(S)
  PROVE  Abstract!Next \/ UNCHANGED Abstract!vars
<1> DEFINE gone == {u \in Sessions : router[u] = "disposed"}
<1>1. UNCHANGED <<callState, issuer>>
  BY DEF Release, UnregisterSessions, callState, callVars, doneVars
<1>2. /\ S \subseteq registered /\ registered' = registered \ S
      /\ gone' = gone \cup S
  BY DEF Release, UnregisterSessions, IInv, CallbacksInOnePlace, RegisteredIffHeld, TypeOK
<1>3. CASE S = {}
  BY <1>1, <1>2, <1>3 DEF Abstract!vars
<1>4. CASE S # {}
  <2>1. Abstract!Close(S)
    BY <1>1, <1>2, <1>4 DEF Abstract!Close
  <2> QED BY <2>1 DEF Abstract!Next
<1> QED BY <1>3, <1>4

LEMMA IssueRefines ==
  ASSUME IInv, NEW c \in Calls, NEW s \in Sessions, NEW k \in Kinds \ {"unused"},
         Issue(c, s, k), UNCHANGED <<router, registered>>
  PROVE  Abstract!Start(c, s)
<1>1. callState[c] = "unused" /\ callState' = [callState EXCEPT ![c] = "pending"]
  BY DEF Issue, callState, doneVars, IInv, TypeOK, CallbacksInOnePlace, TimedOnce, Kinds
<1> QED BY <1>1 DEF Issue, Abstract!Start

LEMMA SettleState ==
  ASSUME TypeOK, NEW c \in Calls, NEW o \in {"answered", "closed"}, Settle(c, o),
         kind[c] # "unused", settled[c] = 0, UNCHANGED kind
  PROVE  callState[c] = "pending" /\ callState' = [callState EXCEPT ![c] = o]
<1>1. settled'[c] # 0 /\ outcome'[c] = o
  BY DEF Settle, TypeOK
<1>2. \A d \in Calls \ {c} : settled'[d] = settled[d] /\ outcome'[d] = outcome[d]
  BY DEF Settle, TypeOK
<1>3. callState[c] = "pending"
  BY DEF callState
<1>4. \A d \in Calls : callState'[d] = IF d = c THEN o ELSE callState[d]
  BY <1>1, <1>2 DEF callState
<1>5. callState' = [d \in Calls |-> callState'[d]] /\ DOMAIN callState = Calls
  BY DEF callState
<1> QED BY <1>3, <1>4, <1>5

LEMMA RefinementStep == IInv /\ [Next]_vars => [Abstract!Next]_(Abstract!vars)
<1> SUFFICES ASSUME IInv, [Next]_vars PROVE Abstract!Next \/ UNCHANGED Abstract!vars
  OBVIOUS
<1>0. TypeOK /\ Targets \subseteq Sessions /\ Proxies \subseteq Sessions
  BY DEF IInv, Sessions
<1>1. ASSUME NEW s \in Sessions, RegisterSession(s) PROVE Abstract!Next
  BY <1>1, RegisterRefines DEF Abstract!Next
<1>2. ASSUME NEW t \in Targets, Dispose(t) PROVE Abstract!Next \/ UNCHANGED Abstract!vars
  <2>1. Held(t) \in SUBSET Sessions /\ \A s \in Held(t) : router[s] = "held"
    BY <1>0, TargetsAssumption DEF Held
  <2> QED BY <1>2, <2>1, ReleaseRefines DEF Dispose
<1>3. ASSUME NEW p \in Proxies, UnregisterProxy(p)
      PROVE  Abstract!Next \/ UNCHANGED Abstract!vars
  <2>1. {p} \in SUBSET Sessions /\ \A s \in {p} : router[s] = "held"
    BY <1>0, <1>3 DEF UnregisterProxy
  <2> QED BY <1>3, <2>1, ReleaseRefines DEF UnregisterProxy
<1>4. CASE Disconnect
  <2> DEFINE S == IF Root \in registered THEN Held(Root) ELSE {}
  <2>1. S \in SUBSET Sessions /\ \A s \in S : router[s] = "held"
    BY <1>0, TargetsAssumption DEF Held
  <2>2. Release(S)
    BY <1>4 DEF Disconnect
  <2> QED BY <2>1, <2>2, ReleaseRefines
<1>5. ASSUME NEW c \in Calls, NEW s \in Sessions, NEW k \in Kinds \ {"unused"},
             Issue(c, s, k), UNCHANGED <<router, registered>>
      PROVE  Abstract!Next
  BY <1>5, IssueRefines DEF Abstract!Next
<1>6. ASSUME NEW c \in Calls, NEW t \in Targets, NEW k \in {"command", "longPoll"},
             Invoke(c, t, k) \/ InvokeDisposed(c, t, k)
      PROVE  Abstract!Next
  BY <1>0, <1>5, <1>6 DEF Invoke, InvokeDisposed, SendMessage, sessionVars, Kinds
<1>7. ASSUME NEW c \in Calls, NEW s \in Sessions, SendRaw(c, s) PROVE Abstract!Next
  BY <1>5, <1>7 DEF SendRaw, SendMessage, Kinds
<1>8. ASSUME NEW s \in Sessions, NEW id \in Ids, OnResponse(s, id) PROVE Abstract!Next
  <2> DEFINE c == callbacks[s][id]
  <2>1. /\ c \in Calls /\ issuer[c] = s /\ s \in registered
        /\ kind[c] # "unused" /\ settled[c] = 0
    BY <1>0, <1>8 DEF OnResponse, IInv, CallbacksInOnePlace, StoredOnce, TypeOK
  <2>2. callState[c] = "pending" /\ callState' = [callState EXCEPT ![c] = "answered"]
    BY <1>0, <1>8, <2>1, SettleState DEF OnResponse, callVars
  <2>3. Abstract!Answer(c)
    BY <1>8, <2>1, <2>2 DEF OnResponse, callVars, Abstract!Answer
  <2> QED BY <2>1, <2>3 DEF Abstract!Next
<1>9. ASSUME NEW c \in Calls, RunErrorTimer(c) PROVE Abstract!Next
  <2>1. kind[c] # "unused" /\ settled[c] = 0 /\ router[issuer[c]] = "disposed"
        /\ issuer[c] \in Sessions
    BY <1>0, <1>9 DEF RunErrorTimer, IInv, CallbacksInOnePlace, TimedOnce, TypeOK
  <2>2. callState[c] = "pending" /\ callState' = [callState EXCEPT ![c] = "closed"]
    BY <1>0, <1>9, <2>1, SettleState DEF RunErrorTimer, callVars
  <2>3. Abstract!Fail(c)
    BY <1>9, <2>1, <2>2 DEF RunErrorTimer, sessionVars, callVars, Abstract!Fail
  <2> QED BY <2>3 DEF Abstract!Next
<1>10. ASSUME UNCHANGED <<sessionVars, callVars, doneVars>> \/ UNCHANGED <<router, registered, callVars, doneVars>>
       PROVE  UNCHANGED Abstract!vars
  BY <1>10 DEF sessionVars, callVars, doneVars, callState, Abstract!vars
<1>11. ASSUME NEW p \in Proxies, NEW id \in Ids, ProxySend(p, id) PROVE UNCHANGED Abstract!vars
  BY <1>10, <1>11 DEF ProxySend
<1>12. ASSUME NEW s \in Sessions, NEW id \in Ids, OnIgnoredResponse(s, id)
       PROVE  UNCHANGED Abstract!vars
  BY <1>10, <1>12 DEF OnIgnoredResponse
<1>13. ASSUME NEW x \in Scripts, deprecatedRunAfterPendingDispatches(x)
       PROVE  UNCHANGED Abstract!vars
  BY <1>10, <1>13 DEF deprecatedRunAfterPendingDispatches
<1>14. CASE RunScriptTimer
  BY <1>10, <1>14 DEF RunScriptTimer
<1>15. CASE UNCHANGED vars
  BY <1>10, <1>15 DEF vars
<1> QED
  BY <1>0, <1>1, <1>2, <1>3, <1>4, <1>6, <1>7, <1>8, <1>9, <1>11, <1>12, <1>13,
     <1>14, <1>15 DEF Next, CreateTarget, RegisterProxy

(* The router settles every protocol call as ProtocolCalls promises.       *)
THEOREM RouterRefinesCalls == Spec => ImplementsProtocolCalls
<1>1. Init => Abstract!Init
  BY TargetsAssumption DEF Init, callState, Abstract!Init, Sessions
<1> QED BY <1>1, InvInit, InvStep, RefinementStep, PTL
        DEF Spec, Abstract!Spec, ImplementsProtocolCalls
============================================================================
