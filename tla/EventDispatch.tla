--------------------------- MODULE EventDispatch ---------------------------
(***************************************************************************)
(* Listeners of one type of event and their dispatch                       *)
(* (core/common/Object.ts).  A listener that is being called may add and   *)
(* remove listeners, dispatch the event again, or throw.  Nothing else     *)
(* runs meanwhile, so what is under way is a stack of dispatches.          *)
(***************************************************************************)
EXTENDS Integers, SequencesExt, FiniteSetsExt

CONSTANTS Listeners,       \* functions with their this object
          OnceListeners,   \* those made by once(), each for one promise
          MaxTuples,       \* bound: on the registrations
          MaxDispatches    \* bound: on the dispatches
Tuples == 1..MaxTuples
Dispatches == 1..MaxDispatches

ListenersAssumption ==
  OnceListeners \subseteq Listeners /\ MaxTuples \in Nat /\ MaxDispatches \in Nat

VARIABLES
  listeners,  \* the registrations (tuples) of the event type: a JavaScript Set, which
              \* keeps their order, and they are numbered in the order they were made
  hasEntry,   \* the map has an entry for the event type
  listenerOf, \* listenerOf[i]: of tuple i; a sequence
  disposed,   \* the tuples marked as removed
  stack,      \* of dispatches [dispatch, snapshot, reached, calling]; reached is the
              \* tuple that the loop has come to
  called,     \* called[d]: the tuples dispatch d called, in order
  over,       \* the dispatches that returned
  resolved    \* the once listeners whose promise was resolved

vars == <<listeners, hasEntry, listenerOf, disposed, stack, called, over, resolved>>

Init ==
  /\ listeners = {} /\ hasEntry = FALSE /\ listenerOf = <<>>
  /\ disposed = {} /\ stack = <<>>
  /\ called = <<>> /\ over = {} /\ resolved = {}

Idle == stack = <<>>
Top == stack[Len(stack)]
(* The program, or a listener that is called, may use the object.          *)
mayAct == IF Idle THEN TRUE ELSE Top.calling

(* The tuple of a new registration.                                        *)
newTuple(seq) == Len(seq) + 1

addEventListener(l) ==
  /\ mayAct /\ Len(listenerOf) < MaxTuples
  /\ l \in OnceListeners => ~Contains(listenerOf, l)
  /\ listenerOf' = Append(listenerOf, l)
  /\ listeners' = listeners \cup {newTuple(listenerOf)}
  /\ hasEntry' = TRUE
  /\ UNCHANGED <<disposed, stack, called, over, resolved>>

(* The tuples a removal takes out.                                         *)
removes(l) == {i \in listeners : listenerOf[i] = l}

(* Does the map keep its entry.                                            *)
keepsEntry(registered) == registered # {}

remove(l) ==
  /\ listeners' = listeners \ removes(l)
  /\ disposed' = disposed \cup removes(l)
  /\ hasEntry' = (hasEntry /\ keepsEntry(listeners'))

removeEventListener(l) ==
  /\ mayAct /\ Contains(listenerOf, l) /\ l \notin OnceListeners
  /\ remove(l)
  /\ UNCHANGED <<listenerOf, stack, called, over, resolved>>

dispatchEventToListeners ==
  /\ mayAct /\ hasEntry /\ Len(called) < MaxDispatches
  /\ stack' = Append(stack, [dispatch |-> Len(called) + 1, snapshot |-> listeners,
                             reached |-> 0, calling |-> FALSE])
  /\ called' = Append(called, <<>>)
  /\ UNCHANGED <<listeners, hasEntry, listenerOf, disposed, over, resolved>>

(* The tuples the loop goes over; the mutant iterates the live set.        *)
loopsOverLive(frame) == listeners
loopsOver(frame) == frame.snapshot

ahead(frame) == {i \in loopsOver(frame) : i > frame.reached}

(* A once listener takes itself out and resolves its promise.              *)
onceCalled(l) == remove(l) /\ resolved' = resolved \cup {l}

(* The loop comes to the next tuple, and skips it if it is disposed.       *)
callNext ==
  /\ ~Idle /\ ~Top.calling /\ ahead(Top) # {}
  /\ LET i == Min(ahead(Top)) IN
     IF i \in disposed
       THEN /\ stack' = [stack EXCEPT ![Len(stack)].reached = i]
            /\ UNCHANGED <<listeners, hasEntry, disposed, called, resolved>>
       ELSE /\ stack' = [stack EXCEPT ![Len(stack)] = [@ EXCEPT !.reached = i, !.calling = TRUE]]
            /\ called' = [called EXCEPT ![Top.dispatch] = Append(@, i)]
            /\ IF listenerOf[i] \in OnceListeners
                 THEN onceCalled(listenerOf[i])
                 ELSE UNCHANGED <<listeners, hasEntry, disposed, resolved>>
  /\ UNCHANGED <<listenerOf, over>>

listenerReturns ==
  /\ ~Idle /\ Top.calling
  /\ stack' = [stack EXCEPT ![Len(stack)].calling = FALSE]
  /\ UNCHANGED <<listeners, hasEntry, listenerOf, disposed, called, over, resolved>>

(* Nobody catches what a listener throws: all dispatches under way end.    *)
listenerThrows ==
  /\ ~Idle /\ Top.calling
  /\ stack' = <<>>
  /\ UNCHANGED <<listeners, hasEntry, listenerOf, disposed, called, over, resolved>>

dispatchReturns ==
  /\ ~Idle /\ ~Top.calling /\ ahead(Top) = {}
  /\ stack' = SubSeq(stack, 1, Len(stack) - 1)
  /\ over' = over \cup {Top.dispatch}
  /\ UNCHANGED <<listeners, hasEntry, listenerOf, disposed, called, resolved>>

Next ==
  \/ \E l \in Listeners : addEventListener(l) \/ removeEventListener(l)
  \/ dispatchEventToListeners \/ callNext
  \/ listenerReturns \/ listenerThrows \/ dispatchReturns

Spec == Init /\ [][Next]_vars

----------------------------------------------------------------------------
TypeOK ==
  /\ listenerOf \in Seq(Listeners) /\ Len(listenerOf) <= MaxTuples
  /\ listeners \subseteq Tuples /\ hasEntry \in BOOLEAN /\ disposed \subseteq Tuples
  /\ stack \in Seq([dispatch : Nat, snapshot : SUBSET Tuples, reached : Nat, calling : BOOLEAN])
  /\ called \in Seq(Seq(Tuples)) /\ over \subseteq DOMAIN called
  /\ resolved \subseteq OnceListeners

(* hasEventListeners is right: the entry of the map goes with the last     *)
(* listener, also if it removes itself while it is called.                 *)
EntryMeansListeners == hasEntry <=> listeners # {}

(* What a listener may rely on, the following four together.               *)
(* A listener that was removed is not called any more, not even by the     *)
(* dispatches that are under way and had it in their snapshot.             *)
RemovedNotCalled ==
  [][\A l \in Listeners : (\A i \in listeners : listenerOf[i] # l) =>
       \A d \in DOMAIN called : called'[d] # called[d] =>
         listenerOf[Last(called'[d])] # l]_vars

(* A dispatch calls in the order of registration, nothing twice, and       *)
(* nothing that was added after it began, although listeners add and       *)
(* remove listeners and dispatch again.                                    *)
CallsSnapshotOnce ==
  [][\A d \in DOMAIN called : called'[d] # called[d] =>
       /\ \A i \in ToSet(called[d]) : i < Last(called'[d])
       /\ Last(called'[d]) \in Top.snapshot]_vars

(* A dispatch that returns has called every listener that was there all    *)
(* the time.                                                               *)
StayersAreCalled ==
  [][\A d \in over' \ over : Top.snapshot \ disposed \subseteq ToSet(called[d])]_vars

(* The listener of a once() runs for one event only, although the events   *)
(* may be nested, and leaves no registration behind.                       *)
OnceIsOnce ==
  /\ \A l \in resolved : \A i \in listeners : listenerOf[i] # l
  /\ \A d, e \in DOMAIN called : \A i \in ToSet(called[d]) \cap ToSet(called[e]) :
       listenerOf[i] \in OnceListeners => d = e
============================================================================
