----------------------- MODULE RenderCoordinatorProofs -----------------------
(***************************************************************************)
(* The frames of the render coordinator, for any labels and any number of  *)
(* requests: nothing handed in is forgotten, nested work runs later, the   *)
(* latest handler of a name runs, and readers start before writers.  A     *)
(* frame runs its callbacks in a fixed order (InTurn), and what waits in a *)
(* collected frame has not started (CollectedWaits); the rest relates      *)
(* requests, items and frames to each other.                               *)
(***************************************************************************)
EXTENDS RenderCoordinator, WellFoundedInduction, TLAPS

(* Every frame took some of the items, and every item came with a request. *)
Counted ==
  /\ frames + (IF pending = << >> THEN 0 ELSE 1) <= Len(items)
  /\ Len(items) <= Len(requests)

(* Items that started know their frame, others have none.                  *)
ItemsFit ==
  \A i \in DOMAIN items :
    /\ items[i].state \in {"running", "done", "failed"} => items[i].ranIn # 0
    /\ items[i].state \in {"pending", "cancelled", "triggered"} => items[i].ranIn = 0
    /\ items[i].ranIn <= frames

(* What is collected waits, and is not part of the frame under way.        *)
CollectedWaits ==
  \A i \in ToSet(pending) :
    i \notin ToSet(current) /\ items[i].state \in {"pending", "cancelled"}

(* A request whose item is not collected any more is of an earlier frame.  *)
RequestsFit ==
  \A r \in DOMAIN requests :
    /\ requests[r].madeIn <= frames
    /\ requests[r].item \notin ToSet(pending) => requests[r].madeIn < frames

(* The readers of the frame under way were triggered unless they were      *)
(* cancelled, the writers are once the readers started.                    *)
InTurn ==
  \A i \in ToSet(current) :
    /\ frames > 0
    /\ items[i].action = READ => items[i].state # "pending"
    /\ phase = "readers" /\ items[i].action = WRITE => items[i].state \in {"pending", "cancelled"}
    /\ phase # "readers" /\ items[i].action = READ =>
         items[i].ranIn # 0 \/ items[i].state = "cancelled"

FramesInv ==
  /\ TypeOK /\ Counted /\ WorkIsScheduled /\ ItemsFit /\ CollectedWaits
  /\ RequestsFit /\ NestedRunsLater /\ LatestHandlerRuns /\ InTurn

LEMMA FrameBounds == MaxRequests \in Nat /\ MaxDones \in Nat /\ Unnamed \notin Labels
BY BoundsAssumption, Zenon

LEMMA Elements == ASSUME NEW S, NEW s \in Seq(S) PROVE \A i \in DOMAIN s : s[i] \in S
OBVIOUS

(* What the type invariant says, in the form the steps need.               *)
LEMMA FrameTypes ==
  ASSUME FramesInv
  PROVE  /\ ToSet(current) \subseteq DOMAIN items /\ ToSet(pending) \subseteq DOMAIN items
         /\ frames \in Nat
         /\ \A i \in DOMAIN items : items[i] \in Item
         /\ \A r \in DOMAIN requests :
              requests[r].item \in DOMAIN items /\ requests[r].madeIn \in Nat
<1>1. /\ pending \in Seq(DOMAIN items) /\ current \in Seq(DOMAIN items) /\ items \in Seq(Item)
      /\ frames \in 0..MaxRequests
      /\ requests \in Seq([item : DOMAIN items, madeIn : 0..MaxRequests])
  BY DEF FramesInv, TypeOK
<1>2. ToSet(current) \subseteq DOMAIN items /\ ToSet(pending) \subseteq DOMAIN items
  BY <1>1 DEF ToSet
<1>3. \A r \in DOMAIN requests : requests[r] \in [item : DOMAIN items, madeIn : 0..MaxRequests]
  BY <1>1, Elements, Zenon
<1>4. frames \in Nat /\ \A i \in DOMAIN items : items[i] \in Item
  BY <1>1, FrameBounds
<1>5. 0..MaxRequests \subseteq Nat
  BY FrameBounds
<1> QED
  BY <1>2, <1>3, <1>4, <1>5

LEMMA FramesInvOrders == FramesInv => FramesRunInOrder
<1> SUFFICES ASSUME FramesInv PROVE FramesRunInOrder
  OBVIOUS
<1>1. ToSet(current) \subseteq DOMAIN items
  BY DEF FramesInv, TypeOK, ToSet
<1>2. ASSUME NEW i \in ToSet(current), NEW j \in ToSet(current),
             items[i].action = WRITE, items[i].ranIn # 0, items[j].action = READ
      PROVE  items[j].ranIn # 0 \/ items[j].state = "cancelled"
  <2>1. phase # "readers"
    BY <1>1, <1>2 DEF FramesInv, InTurn, ItemsFit
  <2> QED
    BY <2>1, <1>2 DEF FramesInv, InTurn
<1> QED
  BY <1>2 DEF FramesInv, FramesRunInOrder, WritersStartLast

LEMMA InitFrames == Init => FramesInv
<1> SUFFICES ASSUME Init PROVE FramesInv
  OBVIOUS
<1>1. /\ items = << >> /\ pending = << >> /\ current = << >> /\ phase = "idle" /\ ~scheduled
      /\ frames = 0 /\ requests = << >> /\ dones = << >>
  BY DEF Init
<1>2. MaxRequests \in Nat /\ MaxDones \in Nat /\ frames \in 0..MaxRequests
  BY <1>1, FrameBounds
<1>6. scheduled \in BOOLEAN
  BY Zenon DEF Init
<1>3. /\ DOMAIN items = {} /\ DOMAIN requests = {} /\ DOMAIN dones = {}
      /\ ToSet(pending) = {} /\ ToSet(current) = {}
  BY <1>1 DEF ToSet
<1>4. TypeOK
  <2>1. Len(items) <= MaxRequests /\ Len(requests) <= MaxRequests /\ Len(dones) <= MaxDones
    BY <1>1, <1>2
  <2>2. \A S : << >> \in Seq(S)
    OBVIOUS
  <2> QED
    BY <1>1, <1>2, <1>6, <2>1, <2>2 DEF TypeOK
<1>5. Counted
  BY <1>1 DEF Counted
<1> QED
  BY <1>1, <1>3, <1>4, <1>5
     DEF FramesInv, WorkIsScheduled, ItemsFit, CollectedWaits, RequestsFit, NestedRunsLater,
         LatestHandlerRuns, InTurn

(* The items changed one by one are a sequence as long as before.          *)
LEMMA SameLength ==
  ASSUME NEW S, NEW s \in Seq(S), NEW f, f \in [1..Len(s) -> S]
  PROVE  f \in Seq(S) /\ Len(f) = Len(s) /\ DOMAIN f = 1..Len(s)
<1>1. Len(s) \in Nat
  OBVIOUS
<1> QED
  BY <1>1

(* The smallest of a set of numbers is one of them.                        *)
LEMMA LeastNat ==
  ASSUME NEW T, T \subseteq Nat, T # {}
  PROVE  \E x \in T : \A y \in T : x <= y
<1> DEFINE R == {ss \in Nat \X Nat : ss[1] < ss[2]}
<1>1. IsWellFoundedOn(R, Nat)
  BY NatLessThanWellFounded DEF OpToRel
<1>2. PICK x \in T : \A y \in T : <<y, x>> \notin R
  <2> HIDE DEF R
  <2> QED
    BY <1>1, WFMin
<1>3. ASSUME NEW y \in T PROVE x <= y
  <2>1. x \in Nat /\ y \in Nat /\ <<y, x>> \notin R
    BY <1>2
  <2>2. <<y, x>>[1] = y /\ <<y, x>>[2] = x /\ <<y, x>> \in Nat \X Nat
    BY <2>1
  <2>3. ~(y < x)
    BY <2>1, <2>2
  <2> QED
    BY <2>1, <2>3
<1> QED
  BY <1>3

LEMMA MinIsIn == ASSUME NEW T, T \subseteq Nat, T # {} PROVE Min(T) \in T
BY LeastNat, Zenon DEF Min


(* Steps that change the items of the frame under way: what is collected   *)
(* stays as it is, and what starts now starts in this frame.               *)
LEMMA ItemsMove ==
  ASSUME FramesInv,
         NEW f, f \in [DOMAIN items -> Item], items' = f,
         UNCHANGED <<pending, current, frames, requests, dones>>,
         phase' \in {"idle", "readers", "writers"}, scheduled' \in BOOLEAN, WorkIsScheduled',
         \A i \in DOMAIN items :
           /\ f[i].action = items[i].action /\ f[i].handler = items[i].handler
           /\ i \in ToSet(pending) => f[i].ranIn = items[i].ranIn
           /\ i \in ToSet(pending) => f[i].state \in {"pending", "cancelled"}
           /\ f[i].ranIn \in {items[i].ranIn, frames}
           /\ items[i].ranIn # 0 => f[i].ranIn # 0
           /\ f[i].state \in {"running", "done", "failed"} => f[i].ranIn # 0
           /\ f[i].state \in {"pending", "cancelled", "triggered"} => f[i].ranIn = 0,
         \A i \in ToSet(current) :
           /\ items[i].action = READ => f[i].state # "pending"
           /\ phase' = "readers" /\ items[i].action = WRITE => f[i].state \in {"pending", "cancelled"}
           /\ phase' # "readers" /\ items[i].action = READ =>
                f[i].ranIn # 0 \/ f[i].state = "cancelled"
  PROVE  FramesInv'
<1>1. /\ items \in Seq(Item) /\ DOMAIN items = 1..Len(items) /\ Len(items) \in Nat
      /\ Len(items) <= MaxRequests
  BY DEF FramesInv, TypeOK
<1>2. items' \in Seq(Item) /\ Len(items') = Len(items) /\ DOMAIN items' = DOMAIN items
  <2>1. f \in [1..Len(items) -> Item]
    BY <1>1
  <2> QED
    BY <1>1, <2>1, SameLength
<1>3. TypeOK'
  BY <1>1, <1>2 DEF FramesInv, TypeOK
<1>4. Counted' /\ RequestsFit'
  BY <1>2 DEF FramesInv, Counted, RequestsFit
<1>6. frames \in Nat
  BY FrameTypes
<1>7. ItemsFit'
  <2> SUFFICES ASSUME NEW i \in DOMAIN items
               PROVE  /\ f[i].state \in {"running", "done", "failed"} => f[i].ranIn # 0
                      /\ f[i].state \in {"pending", "cancelled", "triggered"} => f[i].ranIn = 0
                      /\ f[i].ranIn <= frames
    BY <1>2 DEF ItemsFit
  <2>1. items[i].ranIn <= frames
    BY DEF FramesInv, ItemsFit
  <2> QED
    BY <1>6, <2>1
<1>8. CollectedWaits'
  <2> SUFFICES ASSUME NEW i \in ToSet(pending)
               PROVE  i \notin ToSet(current) /\ f[i].state \in {"pending", "cancelled"}
    BY DEF CollectedWaits
  <2> QED
    BY FrameTypes DEF FramesInv, CollectedWaits
<1>9. \A r \in DOMAIN requests : requests[r].item \in DOMAIN items /\ requests[r].madeIn \in Nat
  BY FrameTypes
<1>10. NestedRunsLater'
  <2> SUFFICES ASSUME NEW r \in DOMAIN requests, f[requests[r].item].ranIn # 0
               PROVE  f[requests[r].item].ranIn > requests[r].madeIn
    BY DEF NestedRunsLater
  <2> DEFINE i == requests[r].item
  <2>1. i \in DOMAIN items
    BY <1>9
  <2>2. CASE f[i].ranIn = items[i].ranIn
    BY <2>2 DEF FramesInv, NestedRunsLater
  <2>3. CASE f[i].ranIn # items[i].ranIn
    <3>1. i \notin ToSet(pending) /\ f[i].ranIn = frames
      BY <2>1, <2>3
    <3> QED
      BY <3>1, <1>6, <1>9 DEF FramesInv, RequestsFit
  <2> QED
    BY <2>2, <2>3
<1>11. LatestHandlerRuns'
  BY <1>9 DEF FramesInv, LatestHandlerRuns
<1>12. ToSet(current) \subseteq DOMAIN items
  BY FrameTypes
<1>13. InTurn'
  BY <1>12 DEF FramesInv, InTurn
<1> QED
  BY <1>3, <1>4, <1>7, <1>8, <1>10, <1>11, <1>13 DEF FramesInv

(* What triggering, starting and ending do to an item.                     *)
LEMMA ItemTypes ==
  ASSUME FramesInv, NEW i \in DOMAIN items
  PROVE  /\ items[i] \in Item /\ frames \in 0..MaxRequests
         /\ \A st \in ItemStates : [items[i] EXCEPT !.state = st] \in Item
         /\ \A st \in ItemStates : [items[i] EXCEPT !.state = st, !.ranIn = frames] \in Item
<1>1. items[i] \in Item /\ frames \in 0..MaxRequests
  BY DEF FramesInv, TypeOK
<1> QED
  BY <1>1 DEF Item

LEMMA StartInv == ASSUME FramesInv, startHandler PROVE FramesInv'
<1>1. Microtasks # {} /\ Microtasks \subseteq Nat
  BY DEF startHandler, Microtasks, FramesInv, TypeOK
<1>2. Min(Microtasks) \in Microtasks
  BY <1>1, MinIsIn
<1>3. PICK c \in ToSet(current) : c = current[Min(Microtasks)] /\ items[c].state = "triggered"
  BY <1>2 DEF Microtasks, ToSet
<1>4. c \in DOMAIN items /\ c \notin ToSet(pending) /\ frames > 0
  BY <1>3, FrameTypes DEF FramesInv, CollectedWaits, InTurn
<1> DEFINE f == [items EXCEPT ![c] = [items[c] EXCEPT !.state = "running", !.ranIn = frames]]
<1>5. items' = f
  BY <1>3 DEF startHandler
<1>6. f \in [DOMAIN items -> Item]
  <2>1. \A i \in DOMAIN items : items[i] \in Item
    BY ItemTypes
  <2>2. [items[c] EXCEPT !.state = "running", !.ranIn = frames] \in Item
    BY ItemTypes, <1>4 DEF ItemStates
  <2> QED
    BY <1>4, <2>1, <2>2
<1>7. f[c] = [items[c] EXCEPT !.state = "running", !.ranIn = frames]
  BY <1>4
<1>8. \A i \in DOMAIN items : i # c => f[i] = items[i]
  BY <1>4
<1>9. items[c] \in Item /\ frames \in Nat
  BY FrameTypes, <1>4
<1>10. /\ f[c].action = items[c].action /\ f[c].handler = items[c].handler
       /\ f[c].ranIn = frames /\ f[c].state = "running"
  BY <1>7, <1>9 DEF Item
<1>11. UNCHANGED <<pending, current, phase, scheduled, frames, requests, dones>>
  BY DEF startHandler
<1>12. /\ scheduled' \in BOOLEAN /\ phase' \in {"idle", "readers", "writers"} /\ WorkIsScheduled'
  BY <1>11 DEF FramesInv, TypeOK, WorkIsScheduled
<1>13. ASSUME NEW i \in DOMAIN items
       PROVE  /\ f[i].action = items[i].action /\ f[i].handler = items[i].handler
              /\ i \in ToSet(pending) => f[i].ranIn = items[i].ranIn
              /\ i \in ToSet(pending) => f[i].state \in {"pending", "cancelled"}
              /\ f[i].ranIn \in {items[i].ranIn, frames}
              /\ items[i].ranIn # 0 => f[i].ranIn # 0
              /\ f[i].state \in {"running", "done", "failed"} => f[i].ranIn # 0
              /\ f[i].state \in {"pending", "cancelled", "triggered"} => f[i].ranIn = 0
  <2>1. CASE i = c
    BY <2>1, <1>10, <1>4, <1>9
  <2>2. CASE i # c
    BY <2>2, <1>8 DEF FramesInv, ItemsFit, CollectedWaits
  <2> QED
    BY <2>1, <2>2
<1>14. ASSUME NEW i \in ToSet(current)
       PROVE  /\ items[i].action = READ => f[i].state # "pending"
              /\ phase' = "readers" /\ items[i].action = WRITE =>
                   f[i].state \in {"pending", "cancelled"}
              /\ phase' # "readers" /\ items[i].action = READ =>
                   f[i].ranIn # 0 \/ f[i].state = "cancelled"
  <2>1. CASE i = c
    BY <2>1, <1>3, <1>4, <1>9, <1>10, <1>11 DEF FramesInv, InTurn
  <2>2. CASE i # c
    <3>1. i \in DOMAIN items
      BY FrameTypes
    <3> QED
      BY <2>2, <3>1, <1>8, <1>11 DEF FramesInv, InTurn
  <2> QED
    BY <2>1, <2>2
<1> HIDE DEF f
<1> QED
  BY <1>5, <1>6, <1>11, <1>12, <1>13, <1>14, ItemsMove

LEMMA HandlerEndsInv ==
  ASSUME FramesInv, NEW c \in DOMAIN items, handlerEnds(c) PROVE FramesInv'
<1>1. PICK o \in {"done", "failed"} : items' = [items EXCEPT ![c].state = o]
  BY DEF handlerEnds
<1>2. items[c].state = "running" /\ items[c].ranIn # 0 /\ c \notin ToSet(pending)
  BY DEF handlerEnds, FramesInv, ItemsFit, CollectedWaits
<1> DEFINE f == [items EXCEPT ![c] = [items[c] EXCEPT !.state = o]]
<1>5. items' = f
  BY <1>1
<1>6. f \in [DOMAIN items -> Item]
  <2>1. \A i \in DOMAIN items : items[i] \in Item
    BY ItemTypes
  <2>2. [items[c] EXCEPT !.state = o] \in Item
    BY ItemTypes DEF ItemStates
  <2> QED
    BY <2>1, <2>2
<1>8. \A i \in DOMAIN items : i # c => f[i] = items[i]
  OBVIOUS
<1>9. items[c] \in Item /\ frames \in Nat
  BY FrameTypes
<1>10. /\ f[c].action = items[c].action /\ f[c].handler = items[c].handler
       /\ f[c].ranIn = items[c].ranIn /\ f[c].state = o
  BY <1>9 DEF Item
<1>11. UNCHANGED <<pending, current, phase, scheduled, frames, requests, dones>>
  BY DEF handlerEnds
<1>12. /\ scheduled' \in BOOLEAN /\ phase' \in {"idle", "readers", "writers"} /\ WorkIsScheduled'
  BY <1>11 DEF FramesInv, TypeOK, WorkIsScheduled
<1>13. ASSUME NEW i \in DOMAIN items
       PROVE  /\ f[i].action = items[i].action /\ f[i].handler = items[i].handler
              /\ i \in ToSet(pending) => f[i].ranIn = items[i].ranIn
              /\ i \in ToSet(pending) => f[i].state \in {"pending", "cancelled"}
              /\ f[i].ranIn \in {items[i].ranIn, frames}
              /\ items[i].ranIn # 0 => f[i].ranIn # 0
              /\ f[i].state \in {"running", "done", "failed"} => f[i].ranIn # 0
              /\ f[i].state \in {"pending", "cancelled", "triggered"} => f[i].ranIn = 0
  <2>1. CASE i = c
    BY <2>1, <1>10, <1>2, <1>9
  <2>2. CASE i # c
    BY <2>2, <1>8 DEF FramesInv, ItemsFit, CollectedWaits
  <2> QED
    BY <2>1, <2>2
<1>14. ASSUME NEW i \in ToSet(current)
       PROVE  /\ items[i].action = READ => f[i].state # "pending"
              /\ phase' = "readers" /\ items[i].action = WRITE =>
                   f[i].state \in {"pending", "cancelled"}
              /\ phase' # "readers" /\ items[i].action = READ =>
                   f[i].ranIn # 0 \/ f[i].state = "cancelled"
  <2>1. CASE i = c
    BY <2>1, <1>2, <1>10, <1>11 DEF FramesInv, InTurn
  <2>2. CASE i # c
    <3>1. i \in DOMAIN items
      BY FrameTypes
    <3> QED
      BY <2>2, <3>1, <1>8, <1>11 DEF FramesInv, InTurn
  <2> QED
    BY <2>1, <2>2
<1> HIDE DEF f
<1> QED
  BY <1>5, <1>6, <1>11, <1>12, <1>13, <1>14, ItemsMove


(* The writers are triggered once no reader waits to be started.           *)
LEMMA WritersTriggeredInv ==
  ASSUME FramesInv, readersOver \/ readersTimeout PROVE FramesInv'
<1> DEFINE f == Triggered(Of(current, WRITE))
<1>1. /\ phase = "readers" /\ phase' = "writers" /\ items' = f /\ Microtasks = {}
      /\ UNCHANGED <<pending, current, scheduled, frames, requests, dones>>
  BY DEF readersOver, readersTimeout, RaceOver, rejectAll
<1>2. \A i \in DOMAIN items :
        f[i] = IF i \in ToSet(current) /\ items[i].action = WRITE /\ items[i].state = "pending"
               THEN [items[i] EXCEPT !.state = "triggered"] ELSE items[i]
  BY DEF Triggered, Of
<1>3. f \in [DOMAIN items -> Item]
  <2>1. \A i \in DOMAIN items : items[i] \in Item /\ [items[i] EXCEPT !.state = "triggered"] \in Item
    BY ItemTypes DEF ItemStates
  <2> QED
    BY <2>1 DEF Triggered
<1>4. /\ scheduled' \in BOOLEAN /\ phase' \in {"idle", "readers", "writers"} /\ WorkIsScheduled'
  BY <1>1 DEF FramesInv, TypeOK, WorkIsScheduled
<1>5. ASSUME NEW i \in DOMAIN items
      PROVE  /\ f[i].action = items[i].action /\ f[i].handler = items[i].handler
             /\ i \in ToSet(pending) => f[i].ranIn = items[i].ranIn
             /\ i \in ToSet(pending) => f[i].state \in {"pending", "cancelled"}
             /\ f[i].ranIn \in {items[i].ranIn, frames}
             /\ items[i].ranIn # 0 => f[i].ranIn # 0
             /\ f[i].state \in {"running", "done", "failed"} => f[i].ranIn # 0
             /\ f[i].state \in {"pending", "cancelled", "triggered"} => f[i].ranIn = 0
  <2>1. CASE f[i] = items[i]
    BY <2>1 DEF FramesInv, ItemsFit, CollectedWaits
  <2>2. CASE f[i] # items[i]
    <3>1. /\ f[i] = [items[i] EXCEPT !.state = "triggered"] /\ items[i] \in Item
          /\ i \in ToSet(current) /\ items[i].state = "pending"
      BY <2>2, <1>2, ItemTypes
    <3>2. /\ f[i].action = items[i].action /\ f[i].handler = items[i].handler
          /\ f[i].ranIn = items[i].ranIn /\ f[i].state = "triggered"
      BY <3>1 DEF Item
    <3> QED
      BY <3>1, <3>2 DEF FramesInv, ItemsFit, CollectedWaits
  <2> QED
    BY <2>1, <2>2
<1>6. ASSUME NEW i \in ToSet(current)
      PROVE  /\ items[i].action = READ => f[i].state # "pending"
             /\ phase' = "readers" /\ items[i].action = WRITE =>
                  f[i].state \in {"pending", "cancelled"}
             /\ phase' # "readers" /\ items[i].action = READ =>
                  f[i].ranIn # 0 \/ f[i].state = "cancelled"
  <2>1. PICK k \in DOMAIN current : current[k] = i
    BY DEF ToSet
  <2>2. i \in DOMAIN items /\ items[i].state # "triggered" /\ items[i].state \in ItemStates
    BY <1>1, <2>1, FrameTypes DEF Microtasks, Item
  <2>3. items[i].action = READ => f[i] = items[i] /\ items[i].state # "pending"
    BY <1>2, <2>2 DEF FramesInv, InTurn, READ, WRITE
  <2>4. items[i].state # "cancelled" /\ items[i].state # "pending" => items[i].ranIn # 0
    BY <2>2 DEF FramesInv, ItemsFit, ItemStates
  <2> QED
    BY <1>1, <2>3, <2>4
<1> HIDE DEF f
<1> QED
  BY <1>1, <1>3, <1>4, <1>5, <1>6, ItemsMove

LEMMA CancelInv == ASSUME FramesInv, cancelPending PROVE FramesInv'
<1> DEFINE f == [i \in DOMAIN items |->
                   IF i \in ToSet(pending) /\ items[i].state = "pending"
                   THEN [items[i] EXCEPT !.state = "cancelled"] ELSE items[i]]
<1>1. items' = f /\ UNCHANGED <<pending, current, phase, scheduled, frames, requests, dones>>
  BY DEF cancelPending
<1>3. f \in [DOMAIN items -> Item]
  <2>1. \A i \in DOMAIN items : items[i] \in Item /\ [items[i] EXCEPT !.state = "cancelled"] \in Item
    BY ItemTypes DEF ItemStates
  <2> QED
    BY <2>1
<1>4. /\ scheduled' \in BOOLEAN /\ phase' \in {"idle", "readers", "writers"} /\ WorkIsScheduled'
  BY <1>1 DEF FramesInv, TypeOK, WorkIsScheduled
<1>5. ASSUME NEW i \in DOMAIN items
      PROVE  /\ f[i].action = items[i].action /\ f[i].handler = items[i].handler
             /\ i \in ToSet(pending) => f[i].ranIn = items[i].ranIn
             /\ i \in ToSet(pending) => f[i].state \in {"pending", "cancelled"}
             /\ f[i].ranIn \in {items[i].ranIn, frames}
             /\ items[i].ranIn # 0 => f[i].ranIn # 0
             /\ f[i].state \in {"running", "done", "failed"} => f[i].ranIn # 0
             /\ f[i].state \in {"pending", "cancelled", "triggered"} => f[i].ranIn = 0
  <2>1. CASE f[i] = items[i]
    BY <2>1 DEF FramesInv, ItemsFit, CollectedWaits
  <2>2. CASE f[i] # items[i]
    <3>1. /\ f[i] = [items[i] EXCEPT !.state = "cancelled"] /\ items[i] \in Item
          /\ items[i].state = "pending"
      BY <2>2, ItemTypes
    <3>2. /\ f[i].action = items[i].action /\ f[i].handler = items[i].handler
          /\ f[i].ranIn = items[i].ranIn /\ f[i].state = "cancelled"
      BY <3>1 DEF Item
    <3> QED
      BY <3>1, <3>2 DEF FramesInv, ItemsFit
  <2> QED
    BY <2>1, <2>2
<1>6. ASSUME NEW i \in ToSet(current)
      PROVE  /\ items[i].action = READ => f[i].state # "pending"
             /\ phase' = "readers" /\ items[i].action = WRITE =>
                  f[i].state \in {"pending", "cancelled"}
             /\ phase' # "readers" /\ items[i].action = READ =>
                  f[i].ranIn # 0 \/ f[i].state = "cancelled"
  <2>1. i \in DOMAIN items /\ i \notin ToSet(pending)
    BY FrameTypes DEF FramesInv, CollectedWaits
  <2>2. f[i] = items[i]
    BY <2>1
  <2> QED
    BY <2>1, <2>2, <1>1 DEF FramesInv, InTurn
<1> HIDE DEF f
<1> QED
  BY <1>1, <1>3, <1>4, <1>5, <1>6, ItemsMove

LEMMA FrameEndsInv ==
  ASSUME FramesInv, writersOver \/ writersTimeout PROVE FramesInv'
<1>1. /\ phase = "writers" /\ phase' = "idle" /\ scheduled' = TRUE
      /\ UNCHANGED <<items, pending, current, frames, requests, dones>>
  BY DEF writersOver, writersTimeout, frameEnds, schedulesNext
<1>2. TypeOK' /\ Counted'
  BY <1>1 DEF FramesInv, TypeOK, Counted
<1>3. WorkIsScheduled' /\ ItemsFit' /\ CollectedWaits' /\ RequestsFit'
  BY <1>1 DEF FramesInv, WorkIsScheduled, ItemsFit, CollectedWaits, RequestsFit
<1>4. NestedRunsLater' /\ LatestHandlerRuns' /\ InTurn'
  BY <1>1 DEF FramesInv, NestedRunsLater, LatestHandlerRuns, InTurn
<1> QED
  BY <1>2, <1>3, <1>4 DEF FramesInv

LEMMA QueueEmptyInv == ASSUME FramesInv, queueEmpty PROVE FramesInv'
<1>1. /\ phase = "idle" /\ pending = << >> /\ scheduled' = FALSE /\ dones' = resolvesWaiting
      /\ UNCHANGED <<items, pending, current, phase, frames, requests>>
  BY DEF queueEmpty
<1>2. dones \in Seq([resolved : BOOLEAN, after : 0..MaxRequests]) /\ Len(dones) <= MaxDones
  BY DEF FramesInv, TypeOK
<1>3. /\ dones' \in Seq([resolved : BOOLEAN, after : 0..MaxRequests]) /\ Len(dones') = Len(dones)
      /\ \A d \in DOMAIN dones' : dones'[d].resolved
  <2>1. DOMAIN dones = 1..Len(dones)
    BY <1>2
  <2>2. \A d \in DOMAIN dones :
          /\ [dones[d] EXCEPT !.resolved = TRUE] \in [resolved : BOOLEAN, after : 0..MaxRequests]
          /\ [dones[d] EXCEPT !.resolved = TRUE].resolved
    <3> SUFFICES ASSUME NEW d \in DOMAIN dones
                 PROVE  /\ [dones[d] EXCEPT !.resolved = TRUE]
                             \in [resolved : BOOLEAN, after : 0..MaxRequests]
                        /\ [dones[d] EXCEPT !.resolved = TRUE].resolved
      OBVIOUS
    <3>1. dones[d] \in [resolved : BOOLEAN, after : 0..MaxRequests]
      BY <1>2, Elements, Zenon
    <3> QED
      BY <3>1, Zenon
  <2>3. resolvesWaiting \in [1..Len(dones) -> [resolved : BOOLEAN, after : 0..MaxRequests]]
    BY <2>1, <2>2 DEF resolvesWaiting
  <2>4. \A d \in DOMAIN resolvesWaiting : resolvesWaiting[d].resolved
    BY <2>2 DEF resolvesWaiting
  <2> QED
    BY <1>1, <1>2, <2>3, <2>4, SameLength
<1>4. TypeOK'
  BY <1>1, <1>2, <1>3 DEF FramesInv, TypeOK
<1>5. WorkIsScheduled'
  BY <1>1, <1>3 DEF WorkIsScheduled
<1>6. Counted' /\ ItemsFit' /\ CollectedWaits' /\ RequestsFit'
  BY <1>1 DEF FramesInv, Counted, ItemsFit, CollectedWaits, RequestsFit
<1>7. NestedRunsLater' /\ LatestHandlerRuns' /\ InTurn'
  BY <1>1 DEF FramesInv, NestedRunsLater, LatestHandlerRuns, InTurn
<1> QED
  BY <1>4, <1>5, <1>6, <1>7 DEF FramesInv

LEMMA DoneInv == ASSUME FramesInv, done PROVE FramesInv'
<1> DEFINE d == [resolved |-> pending = << >>, after |-> Len(requests)]
<1>1. /\ Len(dones) < MaxDones /\ dones' = Append(dones, d)
      /\ UNCHANGED <<items, pending, current, phase, scheduled, frames, requests>>
  BY DEF done, resolvesAtOnce
<1>2. /\ dones \in Seq([resolved : BOOLEAN, after : 0..MaxRequests]) /\ Len(requests) \in 0..MaxRequests
      /\ MaxDones \in Nat /\ MaxRequests \in Nat
  BY FrameBounds DEF FramesInv, TypeOK
<1>3. d \in [resolved : BOOLEAN, after : 0..MaxRequests] /\ d.resolved = (pending = << >>)
  BY <1>2
<1> HIDE DEF d
<1>4. /\ dones' \in Seq([resolved : BOOLEAN, after : 0..MaxRequests]) /\ Len(dones') <= MaxDones
      /\ DOMAIN dones' = DOMAIN dones \cup {Len(dones) + 1} /\ dones'[Len(dones) + 1] = d
      /\ \A e \in DOMAIN dones : dones'[e] = dones[e]
  BY <1>1, <1>2, <1>3
<1>5. TypeOK'
  BY <1>1, <1>4 DEF FramesInv, TypeOK
<1>6. WorkIsScheduled'
  BY <1>1, <1>3, <1>4 DEF FramesInv, WorkIsScheduled
<1>7. Counted' /\ ItemsFit' /\ CollectedWaits' /\ RequestsFit'
  BY <1>1 DEF FramesInv, Counted, ItemsFit, CollectedWaits, RequestsFit
<1>8. NestedRunsLater' /\ LatestHandlerRuns' /\ InTurn'
  BY <1>1 DEF FramesInv, NestedRunsLater, LatestHandlerRuns, InTurn
<1> QED
  BY <1>5, <1>6, <1>7, <1>8 DEF FramesInv


LEMMA NewFrameInv == ASSUME FramesInv, newFrame PROVE FramesInv'
<1> DEFINE f == Triggered(Of(pending, READ))
<1>1. /\ scheduled /\ pending # << >> /\ current' = pending /\ pending' = << >>
      /\ phase' = "readers" /\ frames' = frames + 1 /\ items' = f
      /\ UNCHANGED <<scheduled, requests, dones>>
  BY DEF newFrame, leavesFrame, triggersFirst
<1>2. \A i \in DOMAIN items :
        f[i] = IF i \in ToSet(pending) /\ items[i].action = READ /\ items[i].state = "pending"
               THEN [items[i] EXCEPT !.state = "triggered"] ELSE items[i]
  BY DEF Triggered, Of
<1>3. \A i \in DOMAIN items :
        /\ f[i] \in Item /\ f[i].action = items[i].action /\ f[i].handler = items[i].handler
        /\ f[i].ranIn = items[i].ranIn
        /\ \/ f[i].state = items[i].state /\ ~(i \in ToSet(pending) /\ items[i].action = READ
                                               /\ items[i].state = "pending")
           \/ i \in ToSet(pending) /\ items[i].state = "pending" /\ f[i].state = "triggered"
                /\ items[i].action = READ
  <2> SUFFICES ASSUME NEW i \in DOMAIN items
               PROVE  /\ f[i] \in Item /\ f[i].action = items[i].action
                      /\ f[i].handler = items[i].handler /\ f[i].ranIn = items[i].ranIn
                      /\ \/ /\ f[i].state = items[i].state
                            /\ ~(i \in ToSet(pending) /\ items[i].action = READ
                                 /\ items[i].state = "pending")
                         \/ i \in ToSet(pending) /\ items[i].state = "pending"
                              /\ f[i].state = "triggered" /\ items[i].action = READ
    OBVIOUS
  <2>1. items[i] \in Item
    BY FrameTypes
  <2>2. /\ [items[i] EXCEPT !.state = "triggered"] \in Item
        /\ [items[i] EXCEPT !.state = "triggered"].action = items[i].action
        /\ [items[i] EXCEPT !.state = "triggered"].handler = items[i].handler
        /\ [items[i] EXCEPT !.state = "triggered"].ranIn = items[i].ranIn
        /\ [items[i] EXCEPT !.state = "triggered"].state = "triggered"
    BY <2>1 DEF Item, ItemStates
  <2>3. CASE i \in ToSet(pending) /\ items[i].action = READ /\ items[i].state = "pending"
    <3>1. f[i] = [items[i] EXCEPT !.state = "triggered"]
      BY <1>2, <2>3
    <3> HIDE DEF f
    <3> QED
      BY <2>2, <2>3, <3>1
  <2>4. CASE ~(i \in ToSet(pending) /\ items[i].action = READ /\ items[i].state = "pending")
    <3>1. f[i] = items[i]
      BY <1>2, <2>4
    <3> HIDE DEF f
    <3> QED
      BY <2>1, <2>4, <3>1
  <2> QED
    BY <2>3, <2>4
<1>4. DOMAIN f = DOMAIN items
  BY DEF Triggered
<1> HIDE DEF f
<1>5. /\ items \in Seq(Item) /\ DOMAIN items = 1..Len(items) /\ Len(items) \in Nat
      /\ Len(items) <= MaxRequests /\ Len(requests) <= MaxRequests
  BY DEF FramesInv, TypeOK
<1>6. items' \in Seq(Item) /\ Len(items') = Len(items) /\ DOMAIN items' = DOMAIN items
  <2>1. f \in [1..Len(items) -> Item]
    <3>1. f = [i \in DOMAIN items |-> f[i]]
      BY <1>4 DEF f, Triggered
    <3> QED
      BY <1>3, <1>4, <1>5, <3>1
  <2> QED
    BY <1>1, <1>5, <2>1, SameLength
<1>7. frames \in Nat /\ frames + 1 <= Len(items)
  BY <1>1, FrameTypes DEF FramesInv, Counted
<1>8. Counted'
  BY <1>1, <1>6, <1>7 DEF FramesInv, Counted
<1>9. TypeOK'
  <2>1. frames' \in 0..MaxRequests
    BY <1>1, <1>5, <1>7, FrameBounds
  <2>2. pending' \in Seq(DOMAIN items) /\ current' \in Seq(DOMAIN items)
    BY <1>1 DEF FramesInv, TypeOK
  <2> QED
    BY <1>1, <1>5, <1>6, <2>1, <2>2 DEF FramesInv, TypeOK
<1>10. WorkIsScheduled'
  BY <1>1 DEF WorkIsScheduled
<1>11. ItemsFit'
  <2> SUFFICES ASSUME NEW i \in DOMAIN items
               PROVE  /\ f[i].state \in {"running", "done", "failed"} => f[i].ranIn # 0
                      /\ f[i].state \in {"pending", "cancelled", "triggered"} => f[i].ranIn = 0
                      /\ f[i].ranIn <= frames + 1
    BY <1>1, <1>6 DEF ItemsFit
  <2>1. items[i].ranIn <= frames /\ items[i].ranIn \in Nat
    BY FrameTypes, FrameBounds DEF FramesInv, ItemsFit, Item
  <2> QED
    BY <2>1, <1>3, <1>7 DEF FramesInv, ItemsFit
<1>12. ToSet(pending') = {} /\ ToSet(current') = ToSet(pending)
  BY <1>1 DEF ToSet
<1>13. CollectedWaits'
  BY <1>12 DEF CollectedWaits
<1>14. RequestsFit'
  <2> SUFFICES ASSUME NEW r \in DOMAIN requests PROVE requests[r].madeIn < frames + 1
    BY <1>1, FrameTypes DEF RequestsFit
  <2> QED
    BY FrameTypes DEF FramesInv, RequestsFit
<1>15. NestedRunsLater' /\ LatestHandlerRuns'
  <2>1. \A r \in DOMAIN requests : requests[r].item \in DOMAIN items
    BY FrameTypes
  <2> QED
    BY <2>1, <1>1, <1>3 DEF FramesInv, NestedRunsLater, LatestHandlerRuns
<1>16. InTurn'
  <2> SUFFICES ASSUME NEW i \in ToSet(pending)
               PROVE  /\ frames + 1 > 0
                      /\ f[i].action = READ => f[i].state # "pending"
                      /\ f[i].action = WRITE => f[i].state \in {"pending", "cancelled"}
    BY <1>1, <1>12 DEF InTurn
  <2>1. i \in DOMAIN items /\ items[i].state \in {"pending", "cancelled"}
    BY FrameTypes DEF FramesInv, CollectedWaits
  <2> QED
    BY <1>3, <1>7, <2>1 DEF READ, WRITE
<1> QED
  BY <1>8, <1>9, <1>10, <1>11, <1>13, <1>14, <1>15, <1>16 DEF FramesInv

(* A request that joins an item of its name: the item waits, and gets the  *)
(* latest handler.                                                         *)
LEMMA JoinInv ==
  ASSUME FramesInv, NEW c \in ToSet(pending), Len(requests) < MaxRequests,
         requests' = Append(requests, [item |-> c, madeIn |-> frames]),
         items' = [items EXCEPT ![c] = [items[c] EXCEPT !.handler = Len(requests) + 1]],
         scheduled' = TRUE,
         UNCHANGED <<pending, current, phase, frames, dones>>
  PROVE  FramesInv'
<1> DEFINE f == [items EXCEPT ![c] = [items[c] EXCEPT !.handler = Len(requests) + 1]]
<1>1. /\ items \in Seq(Item) /\ DOMAIN items = 1..Len(items) /\ Len(items) \in Nat
      /\ Len(items) <= MaxRequests /\ Len(requests) \in Nat
      /\ requests \in Seq([item : DOMAIN items, madeIn : 0..MaxRequests])
      /\ frames \in 0..MaxRequests
  BY DEF FramesInv, TypeOK
<1>2. c \in DOMAIN items /\ items[c] \in Item /\ c \notin ToSet(current)
  BY FrameTypes DEF FramesInv, CollectedWaits
<1>3. Len(requests) + 1 \in 1..MaxRequests
  BY <1>1, FrameBounds
<1>4. /\ [items[c] EXCEPT !.handler = Len(requests) + 1] \in Item
      /\ f[c].handler = Len(requests) + 1 /\ f[c].ranIn = items[c].ranIn
      /\ f[c].state = items[c].state /\ f[c].action = items[c].action
  BY <1>2, <1>3 DEF Item
<1>5. \A i \in DOMAIN items : i # c => f[i] = items[i]
  OBVIOUS
<1>6. items' = f /\ f \in [1..Len(items) -> Item]
  <2>1. \A i \in DOMAIN items : items[i] \in Item
    BY FrameTypes
  <2> QED
    BY <1>1, <1>2, <1>4, <2>1
<1> HIDE DEF f
<1>7. items' \in Seq(Item) /\ Len(items') = Len(items) /\ DOMAIN items' = DOMAIN items
  BY <1>1, <1>6, SameLength
<1>8. \A i \in DOMAIN items :
        f[i].ranIn = items[i].ranIn /\ f[i].state = items[i].state /\ f[i].action = items[i].action
  BY <1>4, <1>5
<1> DEFINE q == [item |-> c, madeIn |-> frames]
<1>9. /\ q \in [item : DOMAIN items, madeIn : 0..MaxRequests] /\ q.item = c /\ q.madeIn = frames
  BY <1>1, <1>2
<1>10. requests' = Append(requests, q)
  OBVIOUS
<1> HIDE DEF q
<1>11. /\ requests' \in Seq([item : DOMAIN items, madeIn : 0..MaxRequests])
       /\ Len(requests') = Len(requests) + 1 /\ requests'[Len(requests) + 1] = q
       /\ DOMAIN requests' = DOMAIN requests \cup {Len(requests) + 1}
       /\ \A r \in DOMAIN requests : requests'[r] = requests[r] /\ r <= Len(requests) /\ r \in Nat
  BY <1>1, <1>9, <1>10
<1>12. TypeOK'
  <2>1. scheduled' \in BOOLEAN
    BY Zenon
  <2> QED
    BY <1>1, <1>3, <1>7, <1>11, <2>1 DEF FramesInv, TypeOK
<1>13. Counted'
  BY <1>1, <1>7, <1>11, FrameTypes DEF FramesInv, Counted
<1>14. WorkIsScheduled'
  BY DEF WorkIsScheduled
<1>15. ItemsFit'
  BY <1>6, <1>7, <1>8 DEF FramesInv, ItemsFit
<1>16. CollectedWaits' /\ InTurn'
  BY <1>6, <1>8, FrameTypes DEF FramesInv, CollectedWaits, InTurn
<1>17. RequestsFit'
  <2>1. ASSUME NEW r \in DOMAIN requests'
        PROVE  /\ requests'[r].madeIn <= frames
               /\ requests'[r].item \notin ToSet(pending) => requests'[r].madeIn < frames
    <3>1. CASE r \in DOMAIN requests
      BY <3>1, <1>11 DEF FramesInv, RequestsFit
    <3>2. CASE r = Len(requests) + 1
      BY <3>2, <1>9, <1>11, FrameTypes
    <3> QED
      BY <3>1, <3>2, <1>11
  <2> QED
    BY <2>1 DEF RequestsFit
<1>18. items[c].ranIn = 0
  BY <1>2 DEF FramesInv, CollectedWaits, ItemsFit
<1>19. NestedRunsLater'
  <2>1. ASSUME NEW r \in DOMAIN requests', f[requests'[r].item].ranIn # 0
        PROVE  f[requests'[r].item].ranIn > requests'[r].madeIn
    <3>1. CASE r \in DOMAIN requests
      BY <2>1, <3>1, <1>8, <1>11, FrameTypes DEF FramesInv, NestedRunsLater
    <3>2. CASE r = Len(requests) + 1
      BY <2>1, <3>2, <1>9, <1>11, <1>18, <1>4
    <3> QED
      BY <3>1, <3>2, <1>11
  <2> QED
    BY <2>1, <1>6 DEF NestedRunsLater
<1>20. LatestHandlerRuns'
  <2>1. ASSUME NEW r \in DOMAIN requests' PROVE f[requests'[r].item].handler >= r
    <3>1. CASE r \in DOMAIN requests /\ requests[r].item # c
      BY <3>1, <1>5, <1>11, FrameTypes DEF FramesInv, LatestHandlerRuns
    <3>2. CASE r \in DOMAIN requests /\ requests[r].item = c
      BY <3>2, <1>1, <1>4, <1>11
    <3>3. CASE r = Len(requests) + 1
      BY <3>3, <1>1, <1>9, <1>11, <1>4
    <3> QED
      BY <3>1, <3>2, <3>3, <1>11
  <2> QED
    BY <2>1, <1>6 DEF LatestHandlerRuns
<1> QED
  BY <1>12, <1>13, <1>14, <1>15, <1>16, <1>17, <1>19, <1>20 DEF FramesInv


(* What appending does to a sequence.                                      *)
LEMMA Appended ==
  ASSUME NEW S, NEW s \in Seq(S), NEW e \in S
  PROVE  /\ Append(s, e) \in Seq(S) /\ Len(s) \in Nat /\ Len(Append(s, e)) = Len(s) + 1
         /\ DOMAIN s = 1..Len(s) /\ DOMAIN Append(s, e) = DOMAIN s \cup {Len(s) + 1}
         /\ Append(s, e)[Len(s) + 1] = e /\ Append(s, e) # << >>
         /\ \A i \in DOMAIN s : Append(s, e)[i] = s[i] /\ i <= Len(s) /\ i \in Nat
OBVIOUS

LEMMA LargerRange == ASSUME NEW S, NEW T, S \subseteq T, NEW s \in Seq(S) PROVE s \in Seq(T)
OBVIOUS

(* A request that makes an item: the next frame has it.                    *)
LEMMA NewItemInv ==
  ASSUME FramesInv, NEW action \in {READ, WRITE}, NEW label \in Labels \cup {Unnamed},
         NEW c, c = Len(items) + 1, Len(requests) < MaxRequests,
         requests' = Append(requests, [item |-> c, madeIn |-> frames]),
         items' = Append(items, [action |-> action, label |-> label,
                                 handler |-> Len(requests) + 1, state |-> "pending", ranIn |-> 0]),
         pending' = Append(pending, c),
         scheduled' = TRUE,
         UNCHANGED <<current, phase, frames, dones>>
  PROVE  FramesInv'
<1> DEFINE new == [action |-> action, label |-> label, handler |-> Len(requests) + 1,
                   state |-> "pending", ranIn |-> 0]
           q == [item |-> c, madeIn |-> frames]
<1>1. /\ items \in Seq(Item) /\ DOMAIN items = 1..Len(items) /\ Len(items) \in Nat
      /\ Len(items) <= MaxRequests /\ Len(requests) \in Nat
      /\ requests \in Seq([item : DOMAIN items, madeIn : 0..MaxRequests])
      /\ frames \in 0..MaxRequests /\ frames \in Nat
      /\ pending \in Seq(DOMAIN items) /\ current \in Seq(DOMAIN items)
  BY FrameTypes DEF FramesInv, TypeOK
<1>2. Len(requests) + 1 \in 1..MaxRequests /\ 0 \in 0..MaxRequests
  BY <1>1, FrameBounds
<1>3. /\ new \in Item /\ new.handler = Len(requests) + 1 /\ new.ranIn = 0 /\ new.state = "pending"
  BY <1>2 DEF Item, ItemStates
<1>4. items' = Append(items, new) /\ requests' = Append(requests, q)
  OBVIOUS
<1>5. q.item = c /\ q.madeIn = frames
  OBVIOUS
<1> HIDE DEF new
<1>6. /\ items' \in Seq(Item) /\ Len(items') = Len(items) + 1
      /\ DOMAIN items' = DOMAIN items \cup {c} /\ items'[c] = new /\ c \notin DOMAIN items
      /\ \A i \in DOMAIN items : items'[i] = items[i]
  <2>1. c \notin DOMAIN items
    BY <1>1
  <2> QED
    BY <1>1, <1>3, <1>4, <2>1, Appended
<1>7. q \in [item : DOMAIN items', madeIn : 0..MaxRequests]
  BY <1>1, <1>6
<1> HIDE DEF q
<1>8. DOMAIN items \subseteq DOMAIN items' /\ c \in DOMAIN items'
  BY <1>6
<1>9. /\ requests \in Seq([item : DOMAIN items', madeIn : 0..MaxRequests])
      /\ pending \in Seq(DOMAIN items') /\ current \in Seq(DOMAIN items')
  <2>1. [item : DOMAIN items, madeIn : 0..MaxRequests]
          \subseteq [item : DOMAIN items', madeIn : 0..MaxRequests]
    BY <1>8
  <2>2. requests \in Seq([item : DOMAIN items', madeIn : 0..MaxRequests])
    <3> DEFINE S == [item : DOMAIN items, madeIn : 0..MaxRequests]
               T == [item : DOMAIN items', madeIn : 0..MaxRequests]
    <3>1. requests \in Seq(S) /\ S \subseteq T
      BY <1>1, <2>1
    <3> HIDE DEF S, T
    <3>2. requests \in Seq(T)
      BY <3>1, LargerRange
    <3> QED
      BY <3>2 DEF T
  <2>3. pending \in Seq(DOMAIN items') /\ current \in Seq(DOMAIN items')
    BY <1>1, <1>8, LargerRange, Zenon
  <2> QED
    BY <2>2, <2>3
<1>10. /\ requests' \in Seq([item : DOMAIN items', madeIn : 0..MaxRequests])
       /\ Len(requests') = Len(requests) + 1 /\ requests'[Len(requests) + 1] = q
       /\ DOMAIN requests' = DOMAIN requests \cup {Len(requests) + 1}
       /\ \A r \in DOMAIN requests : requests'[r] = requests[r] /\ r <= Len(requests) /\ r \in Nat
  BY <1>4, <1>7, <1>9, Appended
<1>11. pending' \in Seq(DOMAIN items') /\ ToSet(pending') = ToSet(pending) \cup {c} /\ pending' # << >>
  <2>1. /\ pending' \in Seq(DOMAIN items') /\ DOMAIN pending' = DOMAIN pending \cup {Len(pending) + 1}
        /\ pending'[Len(pending) + 1] = c /\ pending' # << >>
        /\ \A k \in DOMAIN pending : pending'[k] = pending[k]
    BY <1>8, <1>9, Appended
  <2>2. ToSet(pending') = ToSet(pending) \cup {c}
    BY <2>1 DEF ToSet
  <2> QED
    BY <2>1, <2>2
<1>12. TypeOK'
  <2>1. scheduled' \in BOOLEAN
    BY Zenon
  <2>2. Len(items') <= MaxRequests
    <3>1. Len(items) <= Len(requests)
      BY DEF FramesInv, Counted
    <3> QED
      BY <1>1, <1>2, <1>6, <3>1, FrameBounds
  <2> QED
    BY <1>2, <1>6, <1>9, <1>10, <1>11, <2>1, <2>2 DEF FramesInv, TypeOK
<1>13. Counted'
  <2>1. Len(items) <= Len(requests) /\ frames <= Len(items)
    BY <1>1 DEF FramesInv, Counted
  <2>2. /\ Len(items') = Len(items) + 1 /\ Len(requests') = Len(requests) + 1
        /\ pending' # << >> /\ frames' = frames
    BY <1>6, <1>10, <1>11
  <2> QED
    BY <1>1, <2>1, <2>2 DEF Counted
<1>14. WorkIsScheduled'
  BY DEF WorkIsScheduled
<1>15. ItemsFit'
  BY <1>1, <1>3, <1>6 DEF FramesInv, ItemsFit
<1>16. CollectedWaits' /\ InTurn'
  <2>1. ToSet(current) \subseteq DOMAIN items /\ ToSet(pending) \subseteq DOMAIN items
    BY FrameTypes
  <2>2. \A i \in ToSet(current) : i # c /\ items'[i] = items[i]
    BY <2>1, <1>6
  <2>3. \A i \in ToSet(pending) : items'[i] = items[i]
    BY <2>1, <1>6
  <2>4. CollectedWaits'
    BY <2>2, <2>3, <1>3, <1>6, <1>11 DEF FramesInv, CollectedWaits
  <2> QED
    BY <2>2, <2>4 DEF FramesInv, InTurn
<1>17. RequestsFit'
  <2>1. ASSUME NEW r \in DOMAIN requests'
        PROVE  /\ requests'[r].madeIn <= frames
               /\ requests'[r].item \notin ToSet(pending') => requests'[r].madeIn < frames
    <3>1. CASE r \in DOMAIN requests
      BY <3>1, <1>10, <1>11 DEF FramesInv, RequestsFit
    <3>2. CASE r = Len(requests) + 1
      BY <3>2, <1>1, <1>5, <1>10, <1>11
    <3> QED
      BY <3>1, <3>2, <1>10
  <2> QED
    BY <2>1 DEF RequestsFit
<1>18. NestedRunsLater'
  <2>1. ASSUME NEW r \in DOMAIN requests', items'[requests'[r].item].ranIn # 0
        PROVE  items'[requests'[r].item].ranIn > requests'[r].madeIn
    <3>1. CASE r \in DOMAIN requests
      BY <2>1, <3>1, <1>6, <1>10, FrameTypes DEF FramesInv, NestedRunsLater
    <3>2. CASE r = Len(requests) + 1
      BY <2>1, <3>2, <1>3, <1>5, <1>6, <1>10
    <3> QED
      BY <3>1, <3>2, <1>10
  <2> QED
    BY <2>1 DEF NestedRunsLater
<1>19. LatestHandlerRuns'
  <2>1. ASSUME NEW r \in DOMAIN requests' PROVE items'[requests'[r].item].handler >= r
    <3>1. CASE r \in DOMAIN requests
      BY <3>1, <1>6, <1>10, FrameTypes DEF FramesInv, LatestHandlerRuns
    <3>2. CASE r = Len(requests) + 1
      BY <3>2, <1>1, <1>3, <1>5, <1>6, <1>10
    <3> QED
      BY <3>1, <3>2, <1>10
  <2> QED
    BY <2>1 DEF LatestHandlerRuns
<1> QED
  BY <1>12, <1>13, <1>14, <1>15, <1>16, <1>17, <1>18, <1>19 DEF FramesInv

LEMMA EnqueueInv ==
  ASSUME FramesInv, NEW action \in {READ, WRITE}, NEW label \in Labels \cup {Unnamed},
         enqueueHandler(action, label)
  PROVE  FramesInv'
<1>1. PICK shared : shared = SharedItem(action, label)
  OBVIOUS
<1>2. shared \subseteq ToSet(pending)
  BY <1>1 DEF SharedItem, Of
<1>3. CASE shared # {}
  <2>1. PICK c : c = Min(shared)
    OBVIOUS
  <2>2. shared \subseteq Nat
    <3>1. DOMAIN items \subseteq Nat
      BY DEF FramesInv, TypeOK
    <3> QED
      BY <3>1, <1>2, FrameTypes
  <2>3. c \in ToSet(pending)
    BY <1>2, <1>3, <2>1, <2>2, MinIsIn
  <2>4. /\ Len(requests) < MaxRequests
        /\ requests' = Append(requests, [item |-> c, madeIn |-> frames])
        /\ items' = [items EXCEPT ![c] = [items[c] EXCEPT !.handler = Len(requests) + 1]]
        /\ scheduled' = TRUE /\ UNCHANGED <<pending, current, phase, frames, dones>>
    BY <1>1, <1>3, <2>1 DEF enqueueHandler, replaceHandler
  <2> QED
    BY <2>3, <2>4, JoinInv
<1>4. CASE shared = {}
  <2>1. PICK c : c = Len(items) + 1
    OBVIOUS
  <2>2. /\ Len(requests) < MaxRequests
        /\ requests' = Append(requests, [item |-> c, madeIn |-> frames])
        /\ items' = Append(items, [action |-> action, label |-> label,
                                   handler |-> Len(requests) + 1, state |-> "pending",
                                   ranIn |-> 0])
        /\ pending' = Append(pending, c)
        /\ scheduled' = TRUE /\ UNCHANGED <<current, phase, frames, dones>>
    BY <1>1, <1>4, <2>1 DEF enqueueHandler
  <2> QED
    BY <2>1, <2>2, NewItemInv
<1> QED
  BY <1>3, <1>4

LEMMA NextFrames == ASSUME FramesInv, [Next]_vars PROVE FramesInv'
<1>1. CASE UNCHANGED vars
  <2>1. TypeOK' /\ Counted' /\ WorkIsScheduled' /\ ItemsFit' /\ CollectedWaits'
    BY <1>1
       DEF vars, FramesInv, TypeOK, Counted, WorkIsScheduled, ItemsFit, CollectedWaits
  <2>2. RequestsFit' /\ NestedRunsLater' /\ LatestHandlerRuns' /\ InTurn'
    BY <1>1 DEF vars, FramesInv, RequestsFit, NestedRunsLater, LatestHandlerRuns, InTurn
  <2> QED
    BY <2>1, <2>2 DEF FramesInv
<1>2. ASSUME NEW action \in {READ, WRITE}, NEW label \in Labels \cup {Unnamed},
             enqueueHandler(action, label)
      PROVE  FramesInv'
  BY <1>2, EnqueueInv
<1>3. ASSUME NEW i \in DOMAIN items, handlerEnds(i) PROVE FramesInv'
  BY <1>3, HandlerEndsInv
<1> QED
  BY <1>1, <1>2, <1>3, QueueEmptyInv, NewFrameInv, StartInv, WritersTriggeredInv, FrameEndsInv,
     CancelInv, DoneInv DEF Next

(* For any labels and any number of requests: work that was handed in has  *)
(* its frame, a callback asked for in a frame runs in a later one, with    *)
(* the latest handler of its name, and no writer starts before every       *)
(* reader of its frame has.                                                *)
THEOREM FramesAlwaysInOrder == Spec => []FramesRunInOrder
<1>1. Spec => []FramesInv
  BY InitFrames, NextFrames, PTL DEF Spec
<1> QED
  BY <1>1, FramesInvOrders, PTL

=============================================================================
