------------------------- MODULE PageResourceLoader -------------------------
(***************************************************************************)
(* The page resource loader of core/sdk/PageResourceLoader.ts: every load  *)
(* takes a slot, or queues for one, is dispatched through the target with  *)
(* a fallback to the host bindings, and gives its slot to the head of the  *)
(* queue when it settles.  A change of the primary page cancels the queue. *)
(*                                                                         *)
(* Resolving or rejecting a promise only schedules its continuation.  What *)
(* is between the two is a phase of the load: "resolved" for a load let    *)
(* out of the queue, "rejected" for one that was canceled there.           *)
(***************************************************************************)
EXTENDS Integers, Sequences, FiniteSets

CONSTANTS Loads,        \* calls of loadResource
          Keys,         \* url and initiator, as makeKey joins them
          keyOf,        \* keyOf[l]: the key of load l
          NoLoad,       \* no load under a key
          maxConcurrentLoads

LoadsAssumption == NoLoad \notin Loads /\ keyOf \in [Loads -> Keys]
MaxAssumption == maxConcurrentLoads \in Nat \ {0}

VARIABLES
  currentlyLoading,
  queuedLoads,      \* the loads that wait in acquireLoadSlot
  pageResources,    \* pageResources[k]: the load whose PageResource is shown
  phase,            \* where the call of loadResource is
  success           \* PageResource.success of the load

vars == <<currentlyLoading, queuedLoads, pageResources, phase, success>>

Fetching == {"viaTarget", "viaHost"}
Phases == {"idle", "queued", "resolved", "rejected", "done"} \cup Fetching
Active == {l \in Loads : phase[l] \notin {"idle", "done"}}

Init ==
  /\ currentlyLoading = 0
  /\ queuedLoads = <<>>
  /\ pageResources = [k \in Keys |-> NoLoad]
  /\ phase = [l \in Loads |-> "idle"]
  /\ success = [l \in Loads |-> "null"]

(* dispatchLoad starts at the target when the load is eligible for it, and *)
(* at the host bindings otherwise.                                         *)
dispatchLoad(l, via) == phase' = [phase EXCEPT ![l] = via]

(* Must a load wait, being the n-th to hold or want a slot?  The mutant    *)
(* gives one slot too many.                                                *)
mustWaitLate(n) == n > maxConcurrentLoads + 1
mustWait(n) == n > maxConcurrentLoads

(* loadResource up to its first suspension, acquireLoadSlot included.      *)
loadResource(l) ==
  /\ phase[l] = "idle"
  /\ pageResources' = [pageResources EXCEPT ![keyOf[l]] = l]
  /\ currentlyLoading' = currentlyLoading + 1
  /\ \/ /\ mustWait(currentlyLoading + 1)
        /\ queuedLoads' = Append(queuedLoads, l)
        /\ phase' = [phase EXCEPT ![l] = "queued"]
     \/ /\ ~mustWait(currentlyLoading + 1)
        /\ \E via \in Fetching : dispatchLoad(l, via)
        /\ UNCHANGED queuedLoads
  /\ UNCHANGED success

(* The continuation of a load that was let out of the queue.               *)
startQueuedLoad(l) ==
  /\ phase[l] = "resolved"
  /\ \E via \in Fetching : dispatchLoad(l, via)
  /\ UNCHANGED <<currentlyLoading, queuedLoads, pageResources, success>>

(* The fetch through the target throws: dispatchLoad falls back.           *)
fallback(l) ==
  /\ phase[l] = "viaTarget"
  /\ dispatchLoad(l, "viaHost")
  /\ UNCHANGED <<currentlyLoading, queuedLoads, pageResources, success>>

(* The end of load l, with its slot.                                       *)
releaseLoadSlot(l) ==
  /\ currentlyLoading' = currentlyLoading - 1
  /\ IF queuedLoads # <<>>
       THEN /\ queuedLoads' = Tail(queuedLoads)
            /\ phase' = [phase EXCEPT ![l] = "done", ![Head(queuedLoads)] = "resolved"]
       ELSE /\ phase' = [phase EXCEPT ![l] = "done"]
            /\ UNCHANGED queuedLoads

(* The finally clause of loadResource; the mutant does not show a failure. *)
finishHiding(l, ok) ==
  /\ success' = [success EXCEPT ![l] = IF ok = "true" THEN ok ELSE @]
  /\ releaseLoadSlot(l)
  /\ UNCHANGED pageResources

finish(l, ok) ==
  /\ success' = [success EXCEPT ![l] = ok]
  /\ releaseLoadSlot(l)
  /\ UNCHANGED pageResources

fetchSettles(l) ==
  /\ phase[l] \in Fetching
  /\ \E ok \in {"true", "false"} : finish(l, ok)

cancellationSettles(l) ==
  /\ phase[l] = "rejected"
  /\ finish(l, "false")

(* The loads in the queue are rejected; the mutant forgets to.             *)
rejectQueuedNot == UNCHANGED phase
rejectQueued ==
  phase' = [l \in Loads |-> IF phase[l] = "queued" THEN "rejected" ELSE phase[l]]

(* Mutant of onPrimaryPageChanged: the queue is kept.                      *)
onPrimaryPageChangedKeeping ==
  /\ rejectQueued
  /\ pageResources' = [k \in Keys |-> NoLoad]
  /\ UNCHANGED <<currentlyLoading, queuedLoads, success>>

(* The main frame navigated.  The message of the backend is a task: no     *)
(* continuation is left over from the task before it.                      *)
onPrimaryPageChanged ==
  /\ \A l \in Loads : phase[l] \notin {"resolved", "rejected"}
  /\ rejectQueued
  /\ queuedLoads' = <<>>
  /\ pageResources' = [k \in Keys |-> NoLoad]
  /\ UNCHANGED <<currentlyLoading, success>>

Next ==
  \/ \E l \in Loads :
       \/ loadResource(l) \/ startQueuedLoad(l) \/ fallback(l)
       \/ fetchSettles(l) \/ cancellationSettles(l)
  \/ onPrimaryPageChanged

Spec == Init /\ [][Next]_vars

(* Continuations run, and every fetch settles.                             *)
Fairness ==
  \A l \in Loads :
    /\ WF_vars(startQueuedLoad(l)) /\ WF_vars(fetchSettles(l))
    /\ WF_vars(cancellationSettles(l))
FairSpec == Spec /\ Fairness

----------------------------------------------------------------------------
TypeOK ==
  /\ currentlyLoading \in Nat
  /\ queuedLoads \in Seq(Loads)
  /\ pageResources \in [Keys -> Loads \cup {NoLoad}]
  /\ phase \in [Loads -> Phases]
  /\ success \in [Loads -> {"null", "true", "false"}]

(* The loads that hold a slot, and those whose continuation will give one  *)
(* up.                                                                     *)
InFlight == {l \in Loads : phase[l] \in Fetching \cup {"resolved"}}
Canceled == {l \in Loads : phase[l] = "rejected"}

(* The queue holds the queued loads, each once, and currentlyLoading       *)
(* counts every load that has not run its finally clause: no cancellation  *)
(* leaks a slot (acquireLoadSlot, releaseLoadSlot).                        *)
CountsActiveLoads ==
  /\ currentlyLoading = Cardinality(Active)
  /\ \A i \in 1..Len(queuedLoads) : phase[queuedLoads[i]] = "queued"
  /\ \A l \in Loads : phase[l] = "queued" =>
       \E i \in 1..Len(queuedLoads) : queuedLoads[i] = l
  /\ \A i, j \in 1..Len(queuedLoads) : queuedLoads[i] = queuedLoads[j] => i = j

(* A load waits only while all slots are taken or about to be released by  *)
(* a canceled load: nothing can be stuck in the queue.                     *)
QueueWaitsForSlots ==
  queuedLoads # <<>> => Cardinality(InFlight \cup Canceled) >= maxConcurrentLoads

(* Slots are accounted for (PageResourceLoader.ts:146 to 206): no          *)
(* cancellation, error or reload leaks one, and no load is stuck.          *)
SlotsAreAccounted == TypeOK /\ CountsActiveLoads /\ QueueWaitsForSlots

(* "Respects the max concurrent loads" (PageResourceLoader_test.ts:94).    *)
LimitHolds == Cardinality(InFlight) <= maxConcurrentLoads

(* The limit can be passed by the settling of a canceled load only, which  *)
(* gives up a slot it never had.                                           *)
OnlyCancellationsPassTheLimit ==
  [][LimitHolds /\ Canceled = {} => LimitHolds']_vars

(* A page resource that is shown as loading belongs to a load that runs.   *)
ShownAsLoading ==
  \A k \in Keys : pageResources[k] # NoLoad =>
    /\ keyOf[pageResources[k]] = k
    /\ success[pageResources[k]] = "null" <=> pageResources[k] \in Active

(* Every load settles, whatever reloads cancel.                            *)
LoadsSettle == \A l \in Loads : phase[l] # "idle" ~> phase[l] = "done"
============================================================================
