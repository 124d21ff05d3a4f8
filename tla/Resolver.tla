------------------------------ MODULE Resolver ------------------------------
(***************************************************************************)
(* A resolver of ids (core/common/ResolverBase.ts): a call waits for the   *)
(* object an id stands for, unless the source of objects has it already.   *)
(* While a call waits, the resolver listens to what the source adds.  The  *)
(* source is the module that extends this one: the issues manager          *)
(* (models/issues_manager/IssueResolver.ts) or the network log             *)
(* (models/logs/RequestResolver.ts).                                       *)
(***************************************************************************)
CONSTANTS Calls,     \* of waitFor or tryGet, each made at most once
          Ids, NoId, \* the id of a call that is not made yet
          NoObject

VARIABLES
  unresolvedIds,  \* the ids there is a promise for
  listening,      \* there is a listener at the source
  askedFor,       \* askedFor[c]: the id of call c, or NoId
  outcome         \* outcome[c]: "waits", "rejected" or the object

resolverVars == <<unresolvedIds, listening, askedFor, outcome>>

ResolverInit ==
  /\ unresolvedIds = {} /\ listening = FALSE
  /\ askedFor = [c \in Calls |-> NoId]
  /\ outcome = [c \in Calls |-> "waits"]

Waiting == {c \in Calls : askedFor[c] # NoId /\ outcome[c] = "waits"}

(* Is the answer at hand.                                                  *)
AtHand(obj) == obj # NoObject

(* A promise is made for an id once, and listening begins with it.         *)
getOrCreatePromise(id) ==
  /\ unresolvedIds' = unresolvedIds \cup {id}
  /\ listening' = TRUE

(* waitFor and tryGet, when getForId(id) is obj.                           *)
waitFor(c, id, obj) ==
  /\ askedFor[c] = NoId
  /\ askedFor' = [askedFor EXCEPT ![c] = id]
  /\ IF AtHand(obj)
       THEN /\ outcome' = [outcome EXCEPT ![c] = obj]
            /\ UNCHANGED <<unresolvedIds, listening>>
       ELSE getOrCreatePromise(id) /\ UNCHANGED outcome

(* The calls that wait for the promise of id get what it is settled with.  *)
Settled(id, what) ==
  [c \in Calls |-> IF c \in Waiting /\ askedFor[c] = id THEN what ELSE outcome[c]]

(* Does the resolver go on listening; the mutant stops with the first id.  *)
GoesOnNever(ids) == FALSE
GoesOn(ids) == ids # {}

onResolve(id, obj) ==
  /\ unresolvedIds' = unresolvedIds \ {id}
  /\ listening' = GoesOn(unresolvedIds')
  /\ outcome' = IF id \in unresolvedIds THEN Settled(id, obj) ELSE outcome
  /\ UNCHANGED askedFor

clear ==
  /\ unresolvedIds' = {} /\ listening' = FALSE
  /\ outcome' = [c \in Calls |-> IF c \in Waiting /\ askedFor[c] \in unresolvedIds
                                   THEN "rejected" ELSE outcome[c]]
  /\ UNCHANGED askedFor

(* The source added obj, whose id is id or NoId.                           *)
added(id, obj) ==
  IF listening /\ id # NoId THEN onResolve(id, obj) ELSE UNCHANGED resolverVars

----------------------------------------------------------------------------
ResolverTypeOK(Objects) ==
  /\ unresolvedIds \subseteq Ids
  /\ listening \in BOOLEAN
  /\ askedFor \in [Calls -> Ids \cup {NoId}]
  /\ outcome \in [Calls -> {"waits", "rejected"} \cup Objects]

(* Whoever waits can still be answered: there is a promise for its id, and *)
(* the resolver listens exactly while there is a promise.                  *)
WaitersAreHeard ==
  /\ \A c \in Waiting : askedFor[c] \in unresolvedIds
  /\ listening <=> unresolvedIds # {}
=============================================================================
