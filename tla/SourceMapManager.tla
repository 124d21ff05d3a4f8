-------------------------- MODULE SourceMapManager --------------------------
(***************************************************************************)
(* The source map manager of core/sdk/SourceMapManager.ts.  A client (a    *)
(* script or a style sheet) is attached with a clientData that starts a    *)
(* load; the load may settle after its client was detached, attached       *)
(* again, or the manager disabled, and then must not be seen.  The n-th    *)
(* clientData of a client is named n; a SourceMap by its clientData.       *)
(***************************************************************************)
EXTENDS Naturals, Sequences, SequencesExt

CONSTANTS Clients, MaxData  \* bound on the clientData made for one client
MaxDataAssumption == MaxData \in Nat \ {0}

Data == 1..MaxData

VARIABLES
  isEnabled,
  listening,     \* the listener of InspectedURLChanged is installed
  clientData,    \* clientData[c]: the current clientData of c, 0 for none
  made,          \* made[c]: how many clientData c was given
  loading,       \* loading[c]: those whose load has not settled
  sourceMap,     \* sourceMap[c]: does the current clientData have its map
  rejected,      \* rejected[c]: has its sourceMapPromise been rejected
  sourceMaps,    \* #sourceMaps: <<client, data>> of the maps found by map
  events         \* events[c]: the events dispatched about c

vars == <<isEnabled, listening, clientData, made, loading, sourceMap, rejected, sourceMaps,
          events>>

Init ==
  /\ isEnabled = TRUE /\ listening = TRUE
  /\ clientData = [c \in Clients |-> 0]
  /\ made = [c \in Clients |-> 0]
  /\ loading = [c \in Clients |-> {}]
  /\ sourceMap = [c \in Clients |-> FALSE] /\ rejected = [c \in Clients |-> FALSE]
  /\ sourceMaps = {}
  /\ events = [c \in Clients |-> <<>>]

Attached == {c \in Clients : clientData[c] # 0}

(* What detachSourceMap dispatches, and nothing while disabled.            *)
detachEvents(c) ==
  IF clientData[c] = 0 \/ ~isEnabled THEN <<>>
  ELSE IF sourceMap[c] THEN <<"SourceMapDetached">> ELSE <<"SourceMapFailedToAttach">>

(* Does a detach find the manager enabled, when it is about to be set so?  *)
(* The mutant sets the flag first.                                         *)
detachesEnabledLate(enabled) == enabled
detachesEnabled(enabled) == isEnabled

(* The clients whose load starts; the mutant loads though disabled.        *)
startsLoadAlways(A, U, enabled) == A \cap U
startsLoad(A, U, enabled) == IF enabled THEN A \cap U ELSE {}

(* The clients D are detached, then the clients A attached with the        *)
(* manager enabled or not.  The url of the map resolves, and so a load     *)
(* starts, for the clients U.                                              *)
Reattach(D, A, enabled, U) ==
  LET loads == startsLoad(A, U, enabled) IN
  /\ \A c \in A : made[c] < MaxData                         \* bound
  /\ clientData' = [c \in Clients |->
       IF c \in A THEN made[c] + 1 ELSE IF c \in D THEN 0 ELSE clientData[c]]
  /\ made' = [c \in Clients |-> IF c \in A THEN made[c] + 1 ELSE made[c]]
  /\ loading' = [c \in Clients |->
       loading[c] \cup (IF c \in loads THEN {made[c] + 1} ELSE {})]
  /\ sourceMap' = [c \in Clients |-> sourceMap[c] /\ c \notin D \cup A]
  /\ rejected' = [c \in Clients |-> rejected[c] /\ c \notin D \cup A]
  /\ sourceMaps' = {m \in sourceMaps :
       ~(m[1] \in D /\ detachesEnabled(enabled) /\ m[2] = clientData[m[1]])}
  /\ events' = [c \in Clients |->
       events[c] \o (IF c \in D THEN detachEvents(c) ELSE <<>>)
                 \o (IF c \in loads THEN <<"SourceMapWillAttach">> ELSE <<>>)]
  /\ isEnabled' = enabled
  /\ UNCHANGED listening

(* Attaching an attached client throws.                                    *)
attachSourceMap(c, U) ==
  /\ c \notin Attached
  /\ Reattach({}, {c}, isEnabled, U)

detachSourceMap(c) ==
  /\ c \in Attached
  /\ Reattach({c}, {}, isEnabled, {})

setEnabled(enabled, U) ==
  /\ enabled # isEnabled
  /\ Reattach(Attached, Attached, enabled, U)

inspectedURLChanged(U) ==
  /\ listening
  /\ Reattach(Attached, Attached, isEnabled, U)

(* Is the settled load that of the current clientData?  The mutant does    *)
(* not ask.                                                                *)
isCurrentAlways(c, n) == TRUE
isCurrent(c, n) == clientData[c] = n

(* The event of a settled load; the mutant passes over a failure.          *)
settlesSilently(ok) == IF ok THEN <<"SourceMapAttached">> ELSE <<>>
settles(ok) == IF ok THEN <<"SourceMapAttached">> ELSE <<"SourceMapFailedToAttach">>

(* The load of the n-th clientData of c is fulfilled or fails.             *)
loadSettles(c, n, ok) ==
  /\ n \in loading[c]
  /\ loading' = [loading EXCEPT ![c] = @ \ {n}]
  /\ IF isCurrent(c, n)
       THEN /\ sourceMap' = [sourceMap EXCEPT ![c] = ok]
            /\ sourceMaps' = sourceMaps \cup (IF ok THEN {<<c, n>>} ELSE {})
            /\ events' = [events EXCEPT ![c] = @ \o settles(ok)]
       ELSE UNCHANGED <<sourceMap, sourceMaps, events>>
  /\ UNCHANGED <<isEnabled, listening, clientData, made, rejected>>

(* It is fulfilled with a payload that is no source map: the constructor   *)
(* throws before the handler does anything, and the handler of failed      *)
(* loads is not called for it, so that only the promise is rejected.       *)
constructorThrows(c, n) ==
  /\ n \in loading[c]
  /\ loading' = [loading EXCEPT ![c] = @ \ {n}]
  /\ rejected' = [rejected EXCEPT ![c] = @ \/ isCurrent(c, n)]
  /\ UNCHANGED <<isEnabled, listening, clientData, made, sourceMap, sourceMaps, events>>

dispose ==
  /\ listening
  /\ listening' = FALSE
  /\ UNCHANGED <<isEnabled, clientData, made, loading, sourceMap, rejected, sourceMaps, events>>

Next ==
  \/ \E c \in Clients, U \in SUBSET Clients : attachSourceMap(c, U)
  \/ \E c \in Clients : detachSourceMap(c)
  \/ \E enabled \in BOOLEAN, U \in SUBSET Clients : setEnabled(enabled, U)
  \/ \E U \in SUBSET Clients : inspectedURLChanged(U)
  \/ \E c \in Clients, n \in Data, ok \in BOOLEAN : loadSettles(c, n, ok)
  \/ \E c \in Clients, n \in Data : constructorThrows(c, n)
  \/ dispose

Spec == Init /\ [][Next]_vars

(* Loads settle.                                                           *)
Fairness ==
  \A c \in Clients, n \in Data :
    WF_vars(loadSettles(c, n, TRUE) \/ loadSettles(c, n, FALSE) \/ constructorThrows(c, n))

----------------------------------------------------------------------------
EventNames == {"SourceMapWillAttach", "SourceMapFailedToAttach",
               "SourceMapAttached", "SourceMapDetached"}
TypeOK ==
  /\ isEnabled \in BOOLEAN /\ listening \in BOOLEAN
  /\ clientData \in [Clients -> 0..MaxData]
  /\ made \in [Clients -> 0..MaxData]
  /\ loading \in [Clients -> SUBSET Data]
  /\ sourceMap \in [Clients -> BOOLEAN] /\ rejected \in [Clients -> BOOLEAN]
  /\ \A c \in Clients : sourceMap[c] => c \in Attached
  /\ sourceMaps \subseteq Clients \X Data
  /\ \A c \in Clients : events[c] \in Seq(EventNames)

(* sourceMapForClient and clientForSourceMap agree: a map is found from    *)
(* its client exactly when the client is found from the map, so no         *)
(* detached map is left behind and none is lost.                           *)
MapsAreInverse ==
  sourceMaps = {<<c, clientData[c]>> : c \in {d \in Attached : sourceMap[d]}}

(* What is loaded while the manager is disabled is never seen.             *)
DisabledHidesMaps == ~isEnabled => sourceMaps = {}

(* The listeners of the manager, which build and tear down the bindings of *)
(* a client, see its events in order: a map is attached only after it was  *)
(* announced, detached only after it was attached, and no map is announced *)
(* before the one before it is detached or has failed.                     *)
After(e) == CASE e = "SourceMapAttached" -> {"SourceMapWillAttach"}
              [] e = "SourceMapDetached" -> {"SourceMapAttached"}
              [] OTHER -> EventNames \ {"SourceMapAttached"}
EventsAlternate ==
  /\ TypeOK
  /\ \A c \in Clients : \A i \in 1..Len(events[c]) :
      IF i = 1 THEN events[c][i] \in {"SourceMapWillAttach", "SourceMapFailedToAttach"}
      ELSE /\ events[c][i - 1] \in After(events[c][i])
           /\ ~(events[c][i - 1] = "SourceMapWillAttach" /\ events[c][i] = "SourceMapWillAttach")

(* An announced map is concluded: attached, or failed.  The exception is a *)
(* client that keeps a clientData whose payload was no source map: of that *)
(* no event tells until it is detached.                                    *)
AnnouncedIsConcluded ==
  \A c \in Clients :
    events[c] # <<>> /\ Last(events[c]) = "SourceMapWillAttach"
      ~> events[c] # <<>> /\ (Last(events[c]) = "SourceMapWillAttach" => rejected[c])
============================================================================
