------------------------- MODULE RenderCoordinator -------------------------
(***************************************************************************)
(* ui/components/render_coordinator/RenderCoordinator.ts: components hand  *)
(* in callbacks that read or write the layout, and an animation frame runs *)
(* first the readers, then the writers of the frame that was collected     *)
(* before it.  A named callback replaces the one of the same name that     *)
(* still waits, and shares its promise.                                    *)
(*                                                                         *)
(* One action is one task or one microtask.  A callback is started in the  *)
(* microtask that its trigger queued and may go on for as long as it       *)
(* likes; while it runs, it may ask for more work.  Labels are used for    *)
(* finding named work only: recording is left out.                         *)
(***************************************************************************)
EXTENDS Naturals, SequencesExt, FiniteSetsExt

CONSTANTS Labels,       \* names of callbacks
          Unnamed,      \* the label of a callback without a name
          MaxRequests,  \* bound: calls of read, write and scroll
          MaxDones,     \* bound: calls of done
          Cancels       \* whether cancelPending is called, as only tests do

ASSUME BoundsAssumption ==
  /\ MaxRequests \in Nat \ {0} /\ MaxDones \in Nat
  /\ Unnamed \notin Labels /\ Cancels \in BOOLEAN

READ == "read"
WRITE == "write"

VARIABLES
  items,     \* every work item made: its action, label, latest handler (the
             \* number of the request that brought it) and state
  pending,   \* #pendingWorkFrames: the items of the one frame collected, in
             \* the order they were made, or << >> if there is none
  current,   \* the items of the frame under way
  phase,     \* what that frame waits for
  scheduled, \* #scheduledWorkId is not 0
  frames,    \* number of frames begun
  requests,  \* of each call of read or write, its item and the frame it was made in
  dones      \* of each call of done, whether it is resolved, and the requests before it

vars == <<items, pending, current, phase, scheduled, frames, requests, dones>>

ItemStates == {"pending", "cancelled", "triggered", "running", "done", "failed"}
Settled == {"cancelled", "done", "failed"}
Item == [action : {READ, WRITE}, label : Labels \cup {Unnamed}, handler : 1..MaxRequests,
         state : ItemStates, ranIn : 0..MaxRequests]

Init ==
  /\ items = << >>
  /\ pending = << >>
  /\ current = << >>
  /\ phase = "idle"
  /\ scheduled = FALSE
  /\ frames = 0
  /\ requests = << >>
  /\ dones = << >>

Of(frame, action) == {i \in ToSet(frame) : items[i].action = action}

(* The work item that a request joins: one of its name that waits in the   *)
(* same list of the frame.                                                 *)
SharedItem(action, label) ==
  {i \in Of(pending, action) : label # Unnamed /\ items[i].label = label}

replaceHandler(item, request) == [item EXCEPT !.handler = request]

(* read, scroll (which is a read) and write: the item is found or made, it *)
(* gets the latest handler, and a frame is asked for unless one is.        *)
enqueueHandler(action, label) ==
  /\ Len(requests) < MaxRequests
  /\ LET request == Len(requests) + 1
         shared == SharedItem(action, label)
         item == IF shared # {} THEN Min(shared) ELSE Len(items) + 1
     IN  /\ requests' = Append(requests, [item |-> item, madeIn |-> frames])
         /\ IF shared # {}
            THEN /\ items' = [items EXCEPT ![item] = replaceHandler(@, request)]
                 /\ UNCHANGED pending
            ELSE /\ items' = Append(items, [action |-> action, label |-> label,
                                            handler |-> request, state |-> "pending", ranIn |-> 0])
                 /\ pending' = Append(pending, item)
  /\ scheduled' = TRUE
  /\ UNCHANGED <<current, phase, frames, dones>>

(* Promises that are still open are resolved; of a cancelled item nothing  *)
(* comes any more.                                                         *)
Triggered(list) ==
  [i \in DOMAIN items |->
     IF i \in list /\ items[i].state = "pending"
     THEN [items[i] EXCEPT !.state = "triggered"] ELSE items[i]]

(* Callbacks run in the microtasks after their trigger, one by one, in the *)
(* order they were triggered: the positions that wait to.                  *)
Microtasks == {k \in DOMAIN current : items[current[k]].state = "triggered"}

resolvesWaiting == [d \in DOMAIN dones |-> [dones[d] EXCEPT !.resolved = TRUE]]

(* The animation frame that finds nothing to do: the queue is empty.       *)
queueEmpty ==
  /\ scheduled
  /\ phase = "idle"
  /\ pending = << >>
  /\ scheduled' = FALSE
  /\ dones' = resolvesWaiting
  /\ UNCHANGED <<items, pending, current, phase, frames, requests>>

(* The frame is shifted before anything of it runs.                        *)
keepsFrame == pending

leavesFrame == << >>

triggersFirst == Of(pending, READ)

(* The animation frame that takes the collected work, and triggers readers.*)
newFrame ==
  /\ scheduled
  /\ phase = "idle"
  /\ pending # << >>
  /\ current' = pending
  /\ pending' = leavesFrame
  /\ phase' = "readers"
  /\ frames' = frames + 1
  /\ items' = Triggered(triggersFirst)
  /\ UNCHANGED <<scheduled, requests, dones>>

startHandler ==
  /\ Microtasks # {}
  /\ LET first == current[Min(Microtasks)]
     IN  items' = [items EXCEPT ![first].state = "running", ![first].ranIn = frames]
  /\ UNCHANGED <<pending, current, phase, scheduled, frames, requests, dones>>

(* A callback returns, or throws or rejects.                               *)
handlerEnds(i) ==
  /\ items[i].state = "running"
  /\ \E outcome \in {"done", "failed"} : items' = [items EXCEPT ![i].state = outcome]
  /\ UNCHANGED <<pending, current, phase, scheduled, frames, requests, dones>>

(* Promise.race of Promise.all and a timer: all are done, or one failed.   *)
(* The callbacks were queued before it, so all have started.               *)
RaceOver(action) ==
  LET list == Of(current, action)
  IN  Microtasks = {} /\
      \/ \A i \in list : items[i].state = "done"
      \/ \E i \in list : items[i].state \in {"failed", "cancelled"}

(* What is left of #rejectAll for a list whose items were all triggered: a *)
(* promise that is resolved already cannot be rejected any more.           *)
rejectAll(states) == states

(* After the readers, or what they are waited for, the writers.            *)
readersOver ==
  /\ phase = "readers"
  /\ RaceOver(READ)
  /\ phase' = "writers"
  /\ items' = rejectAll(Triggered(Of(current, WRITE)))
  /\ UNCHANGED <<pending, current, scheduled, frames, requests, dones>>

readersTimeout ==
  /\ phase = "readers"
  /\ ~RaceOver(READ)
  /\ Microtasks = {}
  /\ phase' = "writers"
  /\ items' = rejectAll(Triggered(Of(current, WRITE)))
  /\ UNCHANGED <<pending, current, scheduled, frames, requests, dones>>

(* After the writers the id is reset and another frame is asked for.       *)
schedulesNone == FALSE

schedulesNext == TRUE

frameEnds ==
  /\ phase' = "idle"
  /\ scheduled' = schedulesNext
  /\ UNCHANGED <<items, pending, current, frames, requests, dones>>

writersOver ==
  /\ phase = "writers"
  /\ RaceOver(WRITE)
  /\ frameEnds

writersTimeout ==
  /\ phase = "writers"
  /\ ~RaceOver(WRITE)
  /\ Microtasks = {}
  /\ frameEnds

(* All that waits is rejected; it stays in its frame.                      *)
cancelPending ==
  /\ Cancels
  /\ items' = [i \in DOMAIN items |->
                 IF i \in ToSet(pending) /\ items[i].state = "pending"
                 THEN [items[i] EXCEPT !.state = "cancelled"] ELSE items[i]]
  /\ \E i \in ToSet(pending) : items[i].state = "pending"
  /\ UNCHANGED <<pending, current, phase, scheduled, frames, requests, dones>>

resolvesAtOnce == pending = << >>

(* done(): at once if no frame is collected, else when the queue is empty. *)
done ==
  /\ Len(dones) < MaxDones
  /\ dones' = Append(dones, [resolved |-> resolvesAtOnce, after |-> Len(requests)])
  /\ UNCHANGED <<items, pending, current, phase, scheduled, frames, requests>>

Next ==
  \/ \E action \in {READ, WRITE}, label \in Labels \cup {Unnamed} : enqueueHandler(action, label)
  \/ queueEmpty
  \/ newFrame
  \/ startHandler
  \/ \E i \in DOMAIN items : handlerEnds(i)
  \/ readersOver
  \/ readersTimeout
  \/ writersOver
  \/ writersTimeout
  \/ cancelPending
  \/ done

(* Animation frames come, microtasks run and timers fire; nothing says     *)
(* that a callback ever ends.                                              *)
Fairness ==
  /\ WF_vars(queueEmpty \/ newFrame)
  /\ WF_vars(startHandler)
  /\ WF_vars(readersOver \/ readersTimeout)
  /\ WF_vars(writersOver \/ writersTimeout)

Spec == Init /\ [][Next]_vars /\ Fairness

-----------------------------------------------------------------------------
(* Type invariant.                                                         *)
TypeOK ==
  /\ items \in Seq(Item) /\ Len(items) <= MaxRequests
  /\ pending \in Seq(DOMAIN items) /\ current \in Seq(DOMAIN items)
  /\ phase \in {"idle", "readers", "writers"}
  /\ scheduled \in BOOLEAN
  /\ frames \in 0..MaxRequests
  /\ requests \in Seq([item : DOMAIN items, madeIn : 0..MaxRequests])
  /\ Len(requests) <= MaxRequests
  /\ dones \in Seq([resolved : BOOLEAN, after : 0..MaxRequests]) /\ Len(dones) <= MaxDones

(* No work is collected, and nobody waits for the queue to empty, unless   *)
(* an animation frame is asked for that is to see to it: work handed in by *)
(* the last callback of a frame is not forgotten.                          *)
WorkIsScheduled ==
  (pending # << >> \/ phase # "idle" \/ \E d \in DOMAIN dones : ~dones[d].resolved) => scheduled

(* "such calls will be scheduled for the next available frame": what was   *)
(* asked for while a frame is under way does not run in that frame.        *)
NestedRunsLater ==
  \A r \in DOMAIN requests :
    LET item == items[requests[r].item]
    IN  item.ranIn # 0 => item.ranIn > requests[r].madeIn

(* A callback that ran was the latest of those that share its promise: no  *)
(* stale result is shown, and a request that came too late to replace it   *)
(* has an item of its own.                                                 *)
LatestHandlerRuns ==
  \A r \in DOMAIN requests :
    LET item == items[requests[r].item] IN item.handler >= r

(* In a frame no writer starts before every reader has started.            *)
WritersStartLast ==
  \A i, j \in ToSet(current) :
    (items[i].action = WRITE /\ items[i].ranIn # 0 /\ items[j].action = READ)
      => items[j].ranIn # 0 \/ items[j].state = "cancelled"

(* A callback that hangs holds up its frame for the time of a timer, not   *)
(* for ever: what is asked for starts, unless it is cancelled.             *)
EveryRequestStarts ==
  \A r \in 1..MaxRequests :
    (r \in DOMAIN requests)
      ~> /\ r \in DOMAIN requests
         /\ \/ items[requests[r].item].ranIn # 0
            \/ items[requests[r].item].state = "cancelled"

(* The promise of done is resolved once no more work comes (there are only *)
(* MaxRequests of them): work that comes for ever puts it off for ever.    *)
DoneResolves ==
  \A d \in 1..MaxDones : (d \in DOMAIN dones) ~> (d \in DOMAIN dones /\ dones[d].resolved)

-----------------------------------------------------------------------------
(* Frames run in order (RenderCoordinator.ts:242): work is not forgotten,  *)
(* nested work runs in a later frame, the latest handler of a name runs,   *)
(* and no writer starts before every reader has.                           *)
FramesRunInOrder ==
  /\ TypeOK /\ WorkIsScheduled /\ NestedRunsLater
  /\ LatestHandlerRuns /\ WritersStartLast

(* What is asked of the render coordinator starts, though callbacks hang,  *)
(* and who awaits done is told.                                            *)
FramesRunOn == EveryRequestStarts /\ DoneResolves

-----------------------------------------------------------------------------
(* What the code says of itself and does not do.                           *)

(* "Wait for them all to be done" (line 254): unless the timer gave up on  *)
(* them, no reader of the frame runs when its writers are triggered.  One  *)
(* reader that throws ends the wait for the others.                        *)
ReadersAreDone ==
  [][readersOver => \A i \in Of(current, READ) : items[i].state # "running"]_vars

(* The test "throws if there is a read-write deadlock": a writer that is   *)
(* waited for in vain is rejected with the error of the timer.             *)
TimedOutIsRejected ==
  [][writersTimeout => \A i \in ToSet(current) : items'[i].state # "running"]_vars

(* The test "awaits async callbacks": when done resolves, all that was     *)
(* asked for before it has settled.                                        *)
DoneMeansDone ==
  \A d \in DOMAIN dones :
    dones[d].resolved => \A r \in 1..dones[d].after : items[requests[r].item].state \in Settled

=============================================================================
