------------------------------ MODULE SdkProofs ------------------------------
(***************************************************************************)
(* Proofs about three of core/sdk, for any values of their constants.      *)
(*  - Isolates: the isolates hold exactly the models whose id it is, and   *)
(*    every observer knows exactly the isolates there are.                 *)
(*  - The page resource loader: the slots are accounted for, the limit is  *)
(*    passed by cancellations only, and what is shown as loading runs.     *)
(*  - The network dispatchers: what belongs to a leg of a load stays with  *)
(*    it, and a navigation changes hands.                                  *)
(* A behaviour of SdkSpec is one of one of them, the others staying as     *)
(* they were made; what it does to each is a step of it or a stutter.      *)
(***************************************************************************)
EXTENDS MCSdk, FiniteSetTheorems, WellFoundedInduction, TLAPS

sdkVars == <<part, vars, isolateVars, loaderVars>>

LEMMA SdkStep ==
  [SdkNext]_sdkVars =>
    [Next]_vars /\ [Isolates!Next]_(Isolates!vars) /\ [Loader!Next]_(Loader!vars)
BY DEF SdkNext, sdkVars, isolateVars, loaderVars, Isolates!vars, Loader!vars

LEMMA SdkStarts == SdkInit => Init /\ Isolates!Init /\ Loader!Init
BY DEF SdkInit

(***************************************************************************)
(* The isolate manager.                                                    *)
(***************************************************************************)
LEMMA IdsApart == IsolateIds \cap {NoModel, Retrieving} = {}
BY IsolatesAssumption DEF Isolates!IdsAssumption

(* What the two invariants need of the types.                              *)
IsolatesTyped ==
  /\ gone \subseteq Models /\ asked \subseteq Models
  /\ isolateIdByModel \in [Models -> IsolateIds \cup {NoModel, Retrieving}]
  /\ isolates \in [IsolateIds -> SUBSET Models]
  /\ observers \subseteq Observers
  /\ told \in [Observers -> [IsolateIds -> Int]]

(* A model that is being asked has no id yet: an answer finds no id to     *)
(* overwrite.                                                              *)
AskedHasNoId == \A m \in asked : isolateIdByModel[m] \in {NoModel, Retrieving}

IsolatesInv ==
  /\ IsolatesTyped /\ AskedHasNoId
  /\ Isolates!IsolatesOfModels /\ Isolates!ObserversKnowIsolates

LEMMA InitIsolates == Isolates!Init => IsolatesInv
  BY IdsApart
  DEF Isolates!Init, IsolatesInv, IsolatesTyped, AskedHasNoId, Isolates!IsolatesOfModels,
  Isolates!ObserversKnowIsolates

LEMMA ModelAdded == ASSUME IsolatesInv, NEW m \in Models,
Isolates!modelAdded(m) PROVE IsolatesInv'
<1> USE IdsApart DEF IsolatesInv, Isolates!modelAdded
<1>1. IsolatesTyped' /\ AskedHasNoId'
  BY DEF IsolatesTyped, AskedHasNoId
<1>2. Isolates!IsolatesOfModels'
  BY DEF IsolatesTyped, Isolates!IsolatesOfModels
<1>3. Isolates!ObserversKnowIsolates'
  BY DEF Isolates!ObserversKnowIsolates, Isolates!Present
<1> QED
  BY <1>1, <1>2, <1>3

LEMMA IsolateIdSettles ==
  ASSUME IsolatesInv, NEW m \in Models, NEW i \in IsolateIds, Isolates!isolateIdSettles(m, i)
  PROVE  IsolatesInv'
<1> USE IdsApart DEF IsolatesInv
<1>1. CASE Isolates!removedMeanwhile(m)
  BY <1>1 DEF Isolates!isolateIdSettles, IsolatesTyped, AskedHasNoId,
     Isolates!IsolatesOfModels, Isolates!ObserversKnowIsolates, Isolates!Present
<1>2. CASE ~Isolates!removedMeanwhile(m)
  <2>1. /\ m \in asked /\ asked' = asked \ {m} /\ gone' = gone /\ observers' = observers
        /\ isolateIdByModel' = [isolateIdByModel EXCEPT ![m] = i]
        /\ isolates' = [isolates EXCEPT ![i] = @ \cup {m}]
        /\ told' = [o \in Observers |-> [told[o] EXCEPT ![i] =
                      @ + (IF o \in observers THEN IF i \in Isolates!Present THEN 0 ELSE 1 ELSE 0)]]
    BY <1>2 DEF Isolates!isolateIdSettles, Isolates!Tell
  <2>2. isolateIdByModel[m] = Retrieving /\ m \notin gone
    BY <1>2, <2>1 DEF Isolates!removedMeanwhile, AskedHasNoId, Isolates!IsolatesOfModels
  <2>3. IsolatesTyped' /\ AskedHasNoId'
    BY <2>1 DEF IsolatesTyped, AskedHasNoId
  <2>4. Isolates!IsolatesOfModels'
    BY <2>1, <2>2 DEF IsolatesTyped, Isolates!IsolatesOfModels
  <2>5. ASSUME NEW o \in observers, NEW j \in IsolateIds
        PROVE  told'[o][j] = IF isolates'[j] # {} THEN 1 ELSE 0
    <3>1. o \in Observers /\ told[o][j] = IF isolates[j] # {} THEN 1 ELSE 0
      BY DEF IsolatesTyped, Isolates!ObserversKnowIsolates, Isolates!Present
    <3>2. CASE j = i
      BY <2>1, <3>1, <3>2 DEF IsolatesTyped, Isolates!Present
    <3>3. CASE j # i
      BY <2>1, <3>1, <3>3 DEF IsolatesTyped
    <3> QED
      BY <3>2, <3>3
  <2>6. Isolates!ObserversKnowIsolates'
    <3>1. \A j \in IsolateIds : j \in Isolates!Present' <=> isolates'[j] # {}
      BY DEF Isolates!Present
    <3>2. observers' = observers
      BY <2>1
    <3> QED
      BY <2>5, <3>1, <3>2 DEF Isolates!ObserversKnowIsolates
  <2> QED
    BY <2>3, <2>4, <2>6
<1> QED
  BY <1>1, <1>2

LEMMA ModelRemoved == ASSUME IsolatesInv, NEW m \in Models,
Isolates!modelRemoved(m) PROVE IsolatesInv'
<1> DEFINE i == isolateIdByModel[m]
<1> USE IdsApart DEF IsolatesInv
<1>1. /\ i # NoModel /\ gone' = gone \cup {m} /\ asked' = asked /\ observers' = observers
      /\ isolateIdByModel' = [isolateIdByModel EXCEPT ![m] = NoModel]
  BY DEF Isolates!modelRemoved
<1>2. CASE i = Retrieving
  <2>1. UNCHANGED <<isolates, told>>
    BY <1>2 DEF Isolates!modelRemoved
  <2> QED
    BY <1>1, <1>2, <2>1 DEF IsolatesTyped, AskedHasNoId, Isolates!IsolatesOfModels,
       Isolates!ObserversKnowIsolates, Isolates!Present
<1>3. CASE i # Retrieving
  <2>1. i \in IsolateIds /\ m \notin asked
    BY <1>1, <1>3 DEF IsolatesTyped, AskedHasNoId
  <2>2. /\ isolates' = [isolates EXCEPT ![i] = @ \ {m}]
        /\ told' = [o \in Observers |-> [told[o] EXCEPT ![i] =
                      @ + (IF o \in observers THEN -Isolates!removedIsolates(i, m) ELSE 0)]]
    BY <1>3 DEF Isolates!modelRemoved, Isolates!Tell
  <2>3. IsolatesTyped' /\ AskedHasNoId'
    BY <1>1, <2>1, <2>2 DEF IsolatesTyped, AskedHasNoId, Isolates!removedIsolates
  <2>4. Isolates!IsolatesOfModels'
    BY <1>1, <2>1, <2>2 DEF IsolatesTyped, Isolates!IsolatesOfModels
  <2>5. isolates[i] # {} /\ (isolates'[i] = {} <=> isolates[i] = {m})
    BY <2>1, <2>2 DEF IsolatesTyped, Isolates!IsolatesOfModels
  <2>6. Isolates!ObserversKnowIsolates'
    BY <1>1, <2>1, <2>2, <2>5 DEF IsolatesTyped, Isolates!ObserversKnowIsolates,
       Isolates!Present, Isolates!removedIsolates
  <2> QED
    BY <2>3, <2>4, <2>6
<1> QED
  BY <1>2, <1>3

LEMMA Observing ==
  ASSUME IsolatesInv, NEW o \in Observers,
  Isolates!observeIsolates(o) \/ Isolates!unobserveIsolates(o)
  PROVE  IsolatesInv'
<1> USE DEF IsolatesInv
<1>1. UNCHANGED <<gone, asked, isolateIdByModel, isolates>>
  BY DEF Isolates!observeIsolates, Isolates!unobserveIsolates
<1>2. IsolatesTyped'
  <2>1. told' \in [Observers -> [IsolateIds -> Int]]
    <3>1. told' = [told EXCEPT ![o] = [i \in IsolateIds |-> IF i \in Isolates!Present THEN 1 ELSE 0]]
            \/ told' = [told EXCEPT ![o] = [i \in IsolateIds |-> 0]]
      BY DEF Isolates!observeIsolates, Isolates!unobserveIsolates
    <3>2. /\ [i \in IsolateIds |-> IF i \in Isolates!Present THEN 1 ELSE 0] \in [IsolateIds -> Int]
          /\ [i \in IsolateIds |-> 0] \in [IsolateIds -> Int]
      OBVIOUS
    <3> QED
      BY <3>1, <3>2 DEF IsolatesTyped
  <2>2. observers' \subseteq Observers
    BY DEF IsolatesTyped, Isolates!observeIsolates, Isolates!unobserveIsolates
  <2> QED
    BY <1>1, <2>1, <2>2 DEF IsolatesTyped
<1>3. AskedHasNoId' /\ Isolates!IsolatesOfModels' /\ Isolates!Present' = Isolates!Present
  BY <1>1 DEF AskedHasNoId, Isolates!IsolatesOfModels, Isolates!Present
<1>4. Isolates!ObserversKnowIsolates'
  BY <1>3 DEF IsolatesTyped, Isolates!ObserversKnowIsolates, Isolates!observeIsolates,
     Isolates!unobserveIsolates
<1> QED
  BY <1>2, <1>3, <1>4

LEMMA StepIsolates == IsolatesInv /\ [Isolates!Next]_(Isolates!vars) => IsolatesInv'
<1> SUFFICES ASSUME IsolatesInv, [Isolates!Next]_(Isolates!vars) PROVE IsolatesInv'
  OBVIOUS
<1>1. CASE UNCHANGED <<gone, asked, isolateIdByModel, isolates, observers, told>>
  BY <1>1 DEF IsolatesInv, IsolatesTyped, AskedHasNoId, Isolates!IsolatesOfModels,
     Isolates!ObserversKnowIsolates, Isolates!Present
<1>2. ASSUME NEW n \in 1..MaxLoops,
             \/ Isolates!allUpdated(n) \/ Isolates!poll(n)
             \/ \E i \in IsolateIds : Isolates!updateSettles(n, i)
      PROVE  UNCHANGED <<gone, asked, isolateIdByModel, isolates, observers, told>>
  BY <1>2 DEF Isolates!allUpdated, Isolates!poll, Isolates!updateSettles
<1>3. UNCHANGED Isolates!vars =>
        UNCHANGED <<gone, asked, isolateIdByModel, isolates, observers, told>>
  BY DEF Isolates!vars
<1> QED
  BY <1>1, <1>2, <1>3, ModelAdded, IsolateIdSettles, ModelRemoved, Observing DEF Isolates!Next

(* isolateByModel and Isolate.models agree (IsolateManager).               *)
THEOREM IsolatesAgree == SdkSpec => []IsolatesOfModels
<1>1. IsolatesInv => IsolatesOfModels
  BY DEF IsolatesInv, IsolatesOfModels
<1> QED
  BY SdkStarts, SdkStep, InitIsolates, StepIsolates, <1>1, PTL DEF SdkSpec, sdkVars

(* Observers are told of exactly the isolates there are (observeIsolates). *)
THEOREM ObserversKnow == SdkSpec => []ObserversKnowIsolates
<1>1. IsolatesInv => ObserversKnowIsolates
  BY DEF IsolatesInv, ObserversKnowIsolates
<1> QED
  BY SdkStarts, SdkStep, InitIsolates, StepIsolates, <1>1, PTL DEF SdkSpec, sdkVars

(***************************************************************************)
(* The polling loops.                                                      *)
Current(ls, id) == {n \in 1..Len(ls) : ls[n].pollId = id /\ ls[n].phase # "over"}

LoopRecord == [pollId : Nat, phase : {"updating", "sleeping", "over"}, waits : SUBSET IsolateIds]

(* No loop is of an id to come, and of the id of the moment there is one   *)
(* that goes on if somebody observes: a loop that ends has an id of before.*)
LoopsInv ==
  /\ pollId \in Nat /\ loops \in Seq(LoopRecord)
  /\ \A n \in 1..Len(loops) : loops[n].pollId <= pollId
  /\ observers = {} => Current(loops, pollId) = {}
  /\ observers # {} => \E n \in 1..Len(loops) : Current(loops, pollId) = {n}
  /\ \A o \in Observers \ observers, i \in IsolateIds : told[o][i] = 0

LEMMA InitLoops == Isolates!Init => LoopsInv
<1> SUFFICES ASSUME Isolates!Init PROVE LoopsInv
  OBVIOUS
<1>1. /\ pollId = 0 /\ loops = << >> /\ observers = {}
      /\ told = [o \in Observers |-> [i \in IsolateIds |-> 0]]
  BY DEF Isolates!Init
<1>2. Len(<< >>) = 0 /\ << >> \in Seq(LoopRecord)
  OBVIOUS
<1>3. Current(loops, pollId) = {}
  BY <1>1, <1>2 DEF Current
<1> QED
  BY <1>1, <1>2, <1>3 DEF LoopsInv

(* A loop changes and keeps its id, or it is over with one of before.      *)
LEMMA LoopChanges ==
  ASSUME LoopsInv, NEW n \in 1..Len(loops), NEW l \in LoopRecord, l.pollId = loops[n].pollId,
         loops[n].phase # "over", l.pollId = pollId => l.phase # "over",
         loops' = [loops EXCEPT ![n] = l], UNCHANGED <<pollId, observers, told>>
  PROVE  LoopsInv'
<1>1. /\ pollId \in Nat /\ loops \in Seq(LoopRecord) /\ loops' \in Seq(LoopRecord)
      /\ Len(loops') = Len(loops) /\ loops'[n] = l
      /\ \A k \in 1..Len(loops) : k # n => loops'[k] = loops[k]
  BY DEF LoopsInv
<1>2. \A k \in 1..Len(loops) : loops'[k].pollId = loops[k].pollId
  BY <1>1
<1>3. \A k \in 1..Len(loops) : loops[k].pollId = pollId =>
        (loops'[k].phase # "over" <=> loops[k].phase # "over")
  BY <1>1
<1>4. Current(loops', pollId) = Current(loops, pollId)
  BY <1>1, <1>2, <1>3 DEF Current
<1> QED
  BY <1>1, <1>2, <1>4 DEF LoopsInv

LEMMA LoopGoesRound ==
  ASSUME LoopsInv, NEW n \in 1..MaxLoops,
         \/ Isolates!allUpdated(n) \/ Isolates!poll(n)
         \/ \E i \in IsolateIds : Isolates!updateSettles(n, i)
  PROVE  LoopsInv'
<1>1. n \in 1..Len(loops) /\ loops[n].phase # "over" /\ UNCHANGED <<pollId, observers, told>>
  BY DEF Isolates!allUpdated, Isolates!poll, Isolates!updateSettles
<1> DEFINE l == loops[n]
<1>2. l \in LoopRecord
  BY <1>1 DEF LoopsInv
<1>3. /\ l.pollId \in Nat /\ l.phase \in {"updating", "sleeping", "over"}
      /\ l.waits \subseteq IsolateIds
      /\ l = [pollId |-> l.pollId, phase |-> l.phase, waits |-> l.waits]
  BY <1>2 DEF LoopRecord
<1>4. loops \in Seq(LoopRecord)
  BY DEF LoopsInv
<1>5. CASE Isolates!allUpdated(n)
  <2> DEFINE r == [l EXCEPT !.phase = "sleeping"]
  <2>1. loops' = [loops EXCEPT ![n] = r]
    BY <1>1, <1>4, <1>5 DEF Isolates!allUpdated
  <2>2. r \in LoopRecord /\ r.pollId = l.pollId /\ r.phase = "sleeping"
    BY <1>2 DEF LoopRecord
  <2> HIDE DEF r
  <2> QED
    BY <1>1, <2>1, <2>2, LoopChanges
<1>6. CASE \E i \in IsolateIds : Isolates!updateSettles(n, i)
  <2>1. PICK i \in IsolateIds : Isolates!updateSettles(n, i)
    BY <1>6
  <2> DEFINE r == [l EXCEPT !.waits = @ \ {i}]
  <2>2. loops' = [loops EXCEPT ![n] = r]
    BY <1>1, <1>4, <2>1 DEF Isolates!updateSettles
  <2>3. r \in LoopRecord /\ r.pollId = l.pollId /\ r.phase = l.phase
    BY <1>2 DEF LoopRecord
  <2> HIDE DEF r
  <2> QED
    BY <1>1, <2>2, <2>3, LoopChanges
<1>7. CASE Isolates!poll(n)
  <2> DEFINE r == IF l.pollId = pollId
                  THEN [pollId |-> l.pollId, phase |-> "updating", waits |-> Isolates!Present]
                  ELSE [pollId |-> l.pollId, phase |-> "over", waits |-> {}]
  <2>1. loops' = [loops EXCEPT ![n] = r]
    BY <1>1, <1>4, <1>7 DEF Isolates!poll, Isolates!goesOn, Isolates!Loop, Isolates!nextRound
  <2>2. /\ r \in LoopRecord /\ r.pollId = l.pollId
        /\ r.pollId = pollId => r.phase # "over"
    <3>1. Isolates!Present \subseteq IsolateIds
      BY DEF Isolates!Present
    <3> QED
      BY <1>3, <3>1 DEF LoopRecord
  <2> HIDE DEF r
  <2> QED
    BY <1>1, <2>1, <2>2, LoopChanges
<1> QED
  BY <1>5, <1>6, <1>7

LEMMA ObserverComes ==
  ASSUME LoopsInv, NEW o \in Observers, Isolates!observeIsolates(o)
  PROVE  LoopsInv'
<1>1. /\ o \notin observers /\ observers' = observers \cup {o} /\ pollId' = pollId
      /\ \A p \in Observers : p # o => told'[p] = told[p]
  BY DEF Isolates!observeIsolates
<1>2. \A p \in Observers \ observers', i \in IsolateIds : told'[p][i] = 0
  BY <1>1 DEF LoopsInv
<1>3. CASE observers # {}
  <2>1. loops' = loops
    BY <1>3 DEF Isolates!observeIsolates
  <2> QED
    BY <1>1, <1>2, <1>3, <2>1 DEF LoopsInv
<1>4. CASE observers = {}
  <2> DEFINE r == [pollId |-> pollId, phase |-> "updating", waits |-> Isolates!Present]
             n == Len(loops) + 1
  <2>1. loops' = Append(loops, r)
    BY <1>4 DEF Isolates!observeIsolates, Isolates!Loop
  <2>2. /\ r \in LoopRecord /\ r.pollId = pollId /\ r.phase # "over"
    <3>1. Isolates!Present \subseteq IsolateIds
      BY DEF Isolates!Present
    <3> QED
      BY <3>1 DEF LoopRecord, LoopsInv
  <2> HIDE DEF r
  <2>3. /\ loops \in Seq(LoopRecord) /\ pollId \in Nat /\ Current(loops, pollId) = {}
        /\ \A k \in 1..Len(loops) : loops[k].pollId <= pollId
    BY <1>4 DEF LoopsInv
  <2>4. /\ loops' \in Seq(LoopRecord) /\ Len(loops') = n /\ loops'[n] = r /\ Len(loops) \in Nat
        /\ \A k \in 1..Len(loops) : loops'[k] = loops[k]
    BY <2>1, <2>2, <2>3
  <2>5. \A k \in 1..n : k \in 1..Len(loops) \/ k = n
    BY <2>4
  <2>6. n \in 1..Len(loops') /\ Current(loops', pollId) = {n}
    BY <2>2, <2>3, <2>4, <2>5 DEF Current
  <2>7. \A k \in 1..Len(loops') : loops'[k].pollId <= pollId
    BY <2>2, <2>3, <2>4, <2>5
  <2> QED
    BY <1>1, <1>2, <2>3, <2>4, <2>6, <2>7 DEF LoopsInv
<1> QED
  BY <1>3, <1>4

LEMMA ObserverGoes ==
  ASSUME IsolatesInv, LoopsInv, NEW o \in Observers, Isolates!unobserveIsolates(o)
  PROVE  LoopsInv'
<1>1. /\ o \in observers /\ observers' = observers \ {o} /\ loops' = loops
      /\ told' = [told EXCEPT ![o] = [i \in IsolateIds |-> 0]]
      /\ pollId' = IF observers' = {} THEN pollId + 1 ELSE pollId
  BY DEF Isolates!unobserveIsolates, Isolates!nextPollId
<1>2. \A p \in Observers \ observers', i \in IsolateIds : told'[p][i] = 0
  <2>1. told \in [Observers -> [IsolateIds -> Int]]
    BY DEF IsolatesInv, IsolatesTyped
  <2>2. \A p \in Observers \ observers, i \in IsolateIds : told[p][i] = 0
    BY DEF LoopsInv
  <2>3. told'[o] = [i \in IsolateIds |-> 0] /\ \A p \in Observers : p # o => told'[p] = told[p]
    BY <1>1, <2>1
  <2> QED
    BY <1>1, <2>2, <2>3
<1>3. CASE observers' # {}
  BY <1>1, <1>2, <1>3 DEF LoopsInv
<1>4. CASE observers' = {}
  <2>1. /\ pollId \in Nat /\ \A k \in 1..Len(loops) : loops[k].pollId <= pollId
        /\ loops \in Seq(LoopRecord)
    BY DEF LoopsInv
  <2>2. \A k \in 1..Len(loops) : loops[k].pollId \in Nat
    <3>1. \A l \in LoopRecord : l.pollId \in Nat
      BY DEF LoopRecord
    <3>2. \A k \in 1..Len(loops) : loops[k] \in LoopRecord
      BY <2>1
    <3> QED
      BY <3>1, <3>2
  <2>3. \A k \in 1..Len(loops) : loops[k].pollId <= pollId + 1 /\ loops[k].pollId # pollId + 1
    BY <2>1, <2>2
  <2>4. Current(loops', pollId') = {}
    BY <1>1, <1>4, <2>3 DEF Current
  <2> QED
    BY <1>1, <1>2, <1>4, <2>1, <2>3, <2>4 DEF LoopsInv
<1> QED
  BY <1>3, <1>4

LEMMA TellsObservers ==
  ASSUME IsolatesInv, LoopsInv, NEW i \in IsolateIds, NEW n \in Int, Isolates!Tell(i, n),
         UNCHANGED <<observers, pollId, loops>>
  PROVE  LoopsInv'
<1>1. told \in [Observers -> [IsolateIds -> Int]]
  BY DEF IsolatesInv, IsolatesTyped
<1>2. ASSUME NEW o \in Observers \ observers, NEW j \in IsolateIds PROVE told'[o][j] = 0
  <2>1. told'[o] = [told[o] EXCEPT ![i] = @ + 0]
    BY DEF Isolates!Tell
  <2>2. told[o][j] = 0 /\ told[o][i] = 0
    BY DEF LoopsInv
  <2> QED
    BY <1>1, <2>1, <2>2
<1> QED
  BY <1>2 DEF LoopsInv

LEMMA StepLoops == IsolatesInv /\ LoopsInv /\ [Isolates!Next]_(Isolates!vars) => LoopsInv'
<1> SUFFICES ASSUME IsolatesInv, LoopsInv, [Isolates!Next]_(Isolates!vars) PROVE LoopsInv'
  OBVIOUS
<1>1. CASE UNCHANGED <<observers, told, pollId, loops>>
  BY <1>1 DEF LoopsInv
<1>2. ASSUME NEW m \in Models, Isolates!modelAdded(m) PROVE LoopsInv'
  BY <1>1, <1>2 DEF Isolates!modelAdded
<1>3. ASSUME NEW m \in Models, Isolates!modelRemoved(m) PROVE LoopsInv'
  <2>1. UNCHANGED <<observers, pollId, loops>> /\ isolateIdByModel[m] # NoModel
    BY <1>3 DEF Isolates!modelRemoved
  <2>2. CASE isolateIdByModel[m] = Retrieving
    BY <1>1, <1>3, <2>1, <2>2 DEF Isolates!modelRemoved
  <2>3. CASE isolateIdByModel[m] # Retrieving
    <3>1. isolateIdByModel[m] \in IsolateIds
      BY <2>1, <2>3 DEF IsolatesInv, IsolatesTyped
    <3>2. Isolates!Tell(isolateIdByModel[m], -Isolates!removedIsolates(isolateIdByModel[m], m))
      BY <1>3, <2>3, Zenon DEF Isolates!modelRemoved
    <3>3. -Isolates!removedIsolates(isolateIdByModel[m], m) \in Int
      BY DEF Isolates!removedIsolates
    <3> QED
      BY <2>1, <3>1, <3>2, <3>3, TellsObservers
  <2> QED
    BY <2>2, <2>3
<1>4. ASSUME NEW m \in Models, NEW i \in IsolateIds, Isolates!isolateIdSettles(m, i)
      PROVE  LoopsInv'
  <2>1. UNCHANGED <<observers, pollId, loops>>
    BY <1>4 DEF Isolates!isolateIdSettles
  <2>2. UNCHANGED told \/ Isolates!Tell(i, IF i \in Isolates!Present THEN 0 ELSE 1)
    BY <1>4, Zenon DEF Isolates!isolateIdSettles
  <2>3. (IF i \in Isolates!Present THEN 0 ELSE 1) \in Int
    OBVIOUS
  <2> QED
    BY <1>1, <2>1, <2>2, <2>3, TellsObservers
<1>5. CASE UNCHANGED Isolates!vars
  BY <1>1, <1>5 DEF Isolates!vars
<1> QED
  BY <1>2, <1>3, <1>4, <1>5, LoopGoesRound, ObserverComes, ObserverGoes, Zenon DEF Isolates!Next

(* As long as somebody observes, one loop polls, and else none, however    *)
(* often the observers come and go while it waits (IsolateManager.ts:127). *)
THEOREM OneLoopFollows == SdkSpec => []PollingFollowsObservers
<1>1. ASSUME IsolatesInv, LoopsInv PROVE PollingFollowsObservers
  <2>1. Isolates!Current = Current(loops, pollId)
    BY DEF Isolates!Current, Current
  <2>2. /\ observers = {} => Current(loops, pollId) = {}
        /\ observers # {} => \E n \in 1..Len(loops) : Current(loops, pollId) = {n}
    BY <1>1 DEF LoopsInv
  <2>3. \A S : Isolates!Cardinality(S) = Cardinality(S)
    BY DEF Isolates!Cardinality, Cardinality
  <2>4. Cardinality({}) = 0 /\ \A n : Cardinality({n}) = 1
    BY FS_EmptySet, FS_Singleton
  <2>5. Isolates!OneLoopPolls
    BY <2>1, <2>2, <2>3, <2>4 DEF Isolates!OneLoopPolls
  <2>6. told \in [Observers -> [IsolateIds -> 0..1]]
    <3>1. told \in [Observers -> [IsolateIds -> Int]]
      BY <1>1 DEF IsolatesInv, IsolatesTyped
    <3>2. \A o \in Observers, i \in IsolateIds : told[o][i] \in 0..1
      BY <1>1 DEF LoopsInv, IsolatesInv, Isolates!ObserversKnowIsolates
    <3> QED
      BY <3>1, <3>2
  <2>7. Isolates!TypeOK
    BY <1>1, <2>6 DEF IsolatesInv, IsolatesTyped, LoopsInv, LoopRecord, Isolates!TypeOK
  <2> QED
    BY <2>5, <2>7 DEF PollingFollowsObservers
<1> QED
  BY SdkStarts, SdkStep, InitIsolates, StepIsolates, InitLoops, StepLoops, <1>1, PTL
  DEF SdkSpec, sdkVars

(***************************************************************************)
(* The page resource loader.                                               *)
(***************************************************************************)
LEMMA SameCardinality == \A S : Loader!Cardinality(S) = Cardinality(S)
BY DEF Cardinality, Loader!Cardinality

(* The loads made at any time are finitely many.                           *)
LoadsAreFinite == IsFiniteSet(Loads)

(* The loads that hold a slot or will give one up.                         *)
Busy == Loader!InFlight \cup Loader!Canceled

LEMMA Finite ==
  ASSUME LoadsAreFinite
  PROVE  /\ IsFiniteSet(Loader!Active) /\ IsFiniteSet(Busy) /\ IsFiniteSet(Loader!InFlight)
         /\ Cardinality(Loader!Active) \in Nat /\ Cardinality(Busy) \in Nat
         /\ Cardinality(Loader!InFlight) \in Nat
<1>1. Loader!Active \in SUBSET Loads /\ Busy \in SUBSET Loads /\ Loader!InFlight \in SUBSET Loads
  BY DEF Loader!Active, Busy, Loader!InFlight, Loader!Canceled
<1> QED
  BY <1>1, FS_Subset, FS_CardinalityType DEF LoadsAreFinite

(* The active loads are the busy ones, and those in the queue.             *)
LEMMA EmptyQueue ==
  ASSUME Loader!TypeOK, Loader!CountsActiveLoads, queuedLoads = <<>>
  PROVE  Loader!Active = Busy
<1>1. \A l \in Loads : phase[l] \in Loader!Phases /\ phase[l] # "queued"
  BY DEF Loader!TypeOK, Loader!CountsActiveLoads
<1> QED
  BY <1>1 DEF Loader!Active, Busy, Loader!InFlight, Loader!Canceled, Loader!Phases,
     Loader!Fetching

LEMMA InitSlots == ASSUME LoadsAreFinite PROVE Loader!Init => Loader!SlotsAreAccounted
<1> SUFFICES ASSUME Loader!Init PROVE Loader!SlotsAreAccounted
  OBVIOUS
<1>1. Loader!TypeOK
  BY DEF Loader!Init, Loader!TypeOK, Loader!Phases
<1>2. Loader!Active = {}
  BY DEF Loader!Init, Loader!Active
<1>3. Loader!CountsActiveLoads
  BY <1>2, FS_EmptySet, SameCardinality DEF Loader!Init, Loader!CountsActiveLoads
<1> QED
  BY <1>1, <1>3 DEF Loader!SlotsAreAccounted, Loader!QueueWaitsForSlots, Loader!Init

(* A new load takes a slot, or waits at the end of the queue.              *)
LEMMA LoadResource ==
  ASSUME LoadsAreFinite, Loader!SlotsAreAccounted, NEW l \in Loads, Loader!loadResource(l)
  PROVE  Loader!SlotsAreAccounted' /\ (Loader!LimitHolds => Loader!LimitHolds')
<1> USE DEF Loader!SlotsAreAccounted
<1>1. /\ l \notin Loader!Active /\ l \notin Busy
      /\ phase \in [Loads -> Loader!Phases] /\ queuedLoads \in Seq(Loads)
      /\ currentlyLoading \in Nat /\ maxConcurrentLoads \in Nat
  BY LoaderAssumption DEF Loader!loadResource, Loader!Active, Busy, Loader!InFlight,
     Loader!Canceled,
     Loader!Fetching, Loader!TypeOK, Loader!MaxAssumption
<1>2. PICK p \in {"queued"} \cup Loader!Fetching : phase' = [phase EXCEPT ![l] = p]
  BY DEF Loader!loadResource, Loader!dispatchLoad
<1>3. Loader!Active' = Loader!Active \cup {l}
  BY <1>1, <1>2 DEF Loader!Active, Loader!Fetching
<1>4. Cardinality(Loader!Active') = Cardinality(Loader!Active) + 1
  BY <1>1, <1>3, Finite, FS_AddElement
<1>5. Loader!TypeOK'
  <2>1. queuedLoads' \in Seq(Loads) /\ currentlyLoading' \in Nat
    BY <1>1 DEF Loader!loadResource
  <2>2. phase' \in [Loads -> Loader!Phases]
    BY <1>1, <1>2 DEF Loader!Phases, Loader!Fetching
  <2>3. pageResources' \in [Keys -> Loads \cup {NoLoad}]
    BY LoaderAssumption DEF Loader!TypeOK, Loader!loadResource, Loader!LoadsAssumption
  <2> QED
    BY <2>1, <2>2, <2>3 DEF Loader!TypeOK, Loader!loadResource
<1>6. CASE Loader!mustWait(currentlyLoading + 1)
  <2>1. queuedLoads' = Append(queuedLoads, l) /\ phase' = [phase EXCEPT ![l] = "queued"]
    BY <1>6 DEF Loader!loadResource
  <2>2. Loader!InFlight' = Loader!InFlight /\ Busy' = Busy
    BY <1>1, <2>1 DEF Loader!InFlight, Loader!Canceled, Busy, Loader!loadResource,
       Loader!Fetching
  <2>3. Loader!CountsActiveLoads'
    <3>1. /\ Len(queuedLoads') = Len(queuedLoads) + 1 /\ Len(queuedLoads) \in Nat
          /\ \A i \in 1..Len(queuedLoads) : queuedLoads'[i] = queuedLoads[i] /\ queuedLoads[i] # l
          /\ queuedLoads'[Len(queuedLoads) + 1] = l
      BY <1>1, <2>1 DEF Loader!CountsActiveLoads, Loader!loadResource
    <3>2. currentlyLoading' = Cardinality(Loader!Active')
      BY <1>4, SameCardinality DEF Loader!CountsActiveLoads, Loader!loadResource
    <3>3. \A i \in 1..Len(queuedLoads') : phase'[queuedLoads'[i]] = "queued"
      BY <1>1, <2>1, <3>1 DEF Loader!CountsActiveLoads
    <3>4. \A k \in Loads : phase'[k] = "queued" =>
            \E i \in 1..Len(queuedLoads') : queuedLoads'[i] = k
      BY <1>1, <2>1, <3>1 DEF Loader!CountsActiveLoads
    <3>5. \A i, j \in 1..Len(queuedLoads') : queuedLoads'[i] = queuedLoads'[j] => i = j
      BY <3>1 DEF Loader!CountsActiveLoads
    <3> QED
      BY <3>2, <3>3, <3>4, <3>5, SameCardinality DEF Loader!CountsActiveLoads
  <2>4. Cardinality(Busy) >= maxConcurrentLoads
    <3>1. CASE queuedLoads # <<>>
      BY <3>1, SameCardinality DEF Loader!QueueWaitsForSlots, Busy
    <3>2. CASE queuedLoads = <<>>
      BY <1>1, <1>6, <3>2, EmptyQueue, SameCardinality DEF Loader!CountsActiveLoads,
         Loader!mustWait
    <3> QED
      BY <3>1, <3>2
  <2>5. Loader!QueueWaitsForSlots'
    BY <2>2, <2>4, SameCardinality DEF Loader!QueueWaitsForSlots, Busy
  <2> QED
    BY <1>5, <2>2, <2>3, <2>5 DEF Loader!LimitHolds
<1>7. CASE ~Loader!mustWait(currentlyLoading + 1)
  <2>1. queuedLoads' = queuedLoads
    BY <1>7 DEF Loader!loadResource
  <2>2. p \in Loader!Fetching
    BY <1>1, <1>2, <1>7 DEF Loader!loadResource, Loader!dispatchLoad, Loader!Fetching
  <2>3. Loader!InFlight' = Loader!InFlight \cup {l} /\ Busy' = Busy \cup {l}
    BY <1>1, <1>2, <2>2 DEF Loader!InFlight, Loader!Canceled, Busy, Loader!Fetching
  <2>4. Loader!CountsActiveLoads'
    BY <1>1, <1>2, <1>4, <2>1, <2>2, SameCardinality DEF Loader!CountsActiveLoads,
       Loader!loadResource,
       Loader!Fetching
  <2>5. Loader!QueueWaitsForSlots'
    <3>1. Cardinality(Busy') = Cardinality(Busy) + 1 /\ Cardinality(Busy) \in Nat
      BY <1>1, <2>3, Finite, FS_AddElement
    <3> QED
      BY <1>1, <2>1, <3>1, SameCardinality DEF Loader!QueueWaitsForSlots, Busy
  <2>6. Loader!LimitHolds'
    <3>1. Loader!InFlight' \in SUBSET Loader!Active'
      BY DEF Loader!InFlight, Loader!Active, Loader!Fetching
    <3>2. Cardinality(Loader!InFlight') <= Cardinality(Loader!Active')
      BY <1>3, <3>1, Finite, FS_AddElement, FS_Subset
    <3>3. Cardinality(Loader!Active') <= maxConcurrentLoads
      BY <1>1, <1>4, <1>7, SameCardinality DEF Loader!CountsActiveLoads, Loader!mustWait
    <3>4. Cardinality(Loader!InFlight') \in Nat
      BY <2>3, Finite, FS_AddElement, FS_CardinalityType
    <3> QED
      BY <1>1, <1>4, <3>2, <3>3, <3>4, Finite, SameCardinality DEF Loader!LimitHolds
  <2> QED
    BY <1>5, <2>4, <2>5, <2>6
<1> QED
  BY <1>6, <1>7

(* A load that goes on keeps its slot.                                     *)
LEMMA GoesOn ==
  ASSUME Loader!SlotsAreAccounted, NEW l \in Loads,
  Loader!startQueuedLoad(l) \/ Loader!fallback(l)
  PROVE  Loader!SlotsAreAccounted' /\ UNCHANGED <<Loader!InFlight, Loader!Canceled>>
<1>1. PICK p \in Loader!Fetching : phase' = [phase EXCEPT ![l] = p]
  BY DEF Loader!startQueuedLoad, Loader!fallback, Loader!dispatchLoad, Loader!Fetching
<1>2. /\ phase[l] \in {"resolved", "viaTarget"} /\ phase \in [Loads -> Loader!Phases]
      /\ UNCHANGED <<currentlyLoading, queuedLoads, pageResources, success>>
  BY DEF Loader!startQueuedLoad, Loader!fallback, Loader!SlotsAreAccounted, Loader!TypeOK
<1>3. UNCHANGED <<Loader!InFlight, Loader!Canceled, Loader!Active>>
  BY <1>1, <1>2 DEF Loader!InFlight, Loader!Canceled, Loader!Active, Loader!Fetching
<1>4. Loader!TypeOK'
  BY <1>1, <1>2 DEF Loader!SlotsAreAccounted, Loader!TypeOK, Loader!Phases
<1>5. Loader!CountsActiveLoads'
  BY <1>1, <1>2, <1>3 DEF Loader!SlotsAreAccounted, Loader!CountsActiveLoads, Loader!Fetching
<1>6. Loader!QueueWaitsForSlots'
  BY <1>2, <1>3 DEF Loader!SlotsAreAccounted, Loader!QueueWaitsForSlots
<1> QED
  BY <1>3, <1>4, <1>5, <1>6 DEF Loader!SlotsAreAccounted

(* A load that ends hands its slot to the head of the queue, if any.       *)
LEMMA Finish ==
  ASSUME LoadsAreFinite, Loader!SlotsAreAccounted, NEW l \in Busy, NEW ok \in {"true", "false"},
         Loader!finish(l, ok)
  PROVE  /\ Loader!SlotsAreAccounted'
         /\ Loader!LimitHolds /\ Loader!Canceled = {} => Loader!LimitHolds'
<1> USE DEF Loader!SlotsAreAccounted
<1>1. /\ l \in Loads /\ l \in Loader!Active /\ phase[l] # "queued"
      /\ phase \in [Loads -> Loader!Phases] /\ success \in [Loads -> {"null", "true", "false"}]
      /\ queuedLoads \in Seq(Loads) /\ currentlyLoading \in Nat
      /\ currentlyLoading = Cardinality(Loader!Active)
      /\ maxConcurrentLoads \in Nat
  BY SameCardinality, LoaderAssumption
  DEF Busy, Loader!InFlight, Loader!Canceled, Loader!Active, Loader!Fetching, Loader!TypeOK,
     Loader!CountsActiveLoads, Loader!MaxAssumption
<1>2. currentlyLoading > 0
  BY <1>1, Finite, FS_EmptySet
<1>3. /\ currentlyLoading' = currentlyLoading - 1 /\ pageResources' = pageResources
      /\ success' = [success EXCEPT ![l] = ok]
  BY DEF Loader!finish, Loader!releaseLoadSlot
<1>4. CASE queuedLoads = <<>>
  <2>1. queuedLoads' = <<>> /\ phase' = [phase EXCEPT ![l] = "done"]
    BY <1>4 DEF Loader!finish, Loader!releaseLoadSlot
  <2>2. Loader!Active' = Loader!Active \ {l} /\ Loader!InFlight' = Loader!InFlight \ {l}
    BY <1>1, <2>1 DEF Loader!Active, Loader!InFlight, Loader!Fetching
  <2>3. Loader!TypeOK'
    BY <1>1, <1>2, <1>3, <2>1 DEF Loader!TypeOK, Loader!Phases
  <2>4. Loader!CountsActiveLoads'
    <3>1. currentlyLoading' = Cardinality(Loader!Active')
      BY <1>1, <1>3, <2>2, Finite, FS_RemoveElement
    <3>2. \A k \in Loads : phase'[k] # "queued"
      BY <1>1, <1>4, <2>1 DEF Loader!CountsActiveLoads
    <3> QED
      BY <2>1, <3>1, <3>2, SameCardinality DEF Loader!CountsActiveLoads
  <2>5. Loader!LimitHolds => Loader!LimitHolds'
    <3>1. Loader!InFlight' \in SUBSET Loader!InFlight
      BY <2>2
    <3>2. /\ Cardinality(Loader!InFlight') <= Cardinality(Loader!InFlight)
          /\ Cardinality(Loader!InFlight') \in Nat
      BY <3>1, Finite, FS_Subset, FS_CardinalityType
    <3> QED
      BY <1>1, <3>2, Finite, SameCardinality DEF Loader!LimitHolds
  <2> QED
    BY <2>1, <2>3, <2>4, <2>5 DEF Loader!QueueWaitsForSlots
<1>5. CASE queuedLoads # <<>>
  <2> DEFINE h == Head(queuedLoads)
  <2>1. /\ queuedLoads' = Tail(queuedLoads) /\ queuedLoads' \in Seq(Loads)
        /\ phase' = [phase EXCEPT ![l] = "done", ![h] = "resolved"]
    BY <1>1, <1>5 DEF Loader!finish, Loader!releaseLoadSlot
  <2>2. /\ h = queuedLoads[1] /\ Len(queuedLoads) \in Nat \ {0}
        /\ Len(queuedLoads') = Len(queuedLoads) - 1
        /\ \A i \in 1..Len(queuedLoads') : queuedLoads'[i] = queuedLoads[i + 1]
    BY <1>1, <1>5, <2>1
  <2>3. h \in Loads /\ phase[h] = "queued" /\ h # l
    BY <1>1, <2>2 DEF Loader!CountsActiveLoads
  <2>4. /\ Loader!Active' = Loader!Active \ {l} /\ h \notin Busy
        /\ Busy' = (Busy \ {l}) \cup {h}
    BY <1>1, <2>1, <2>3 DEF Loader!Active, Busy, Loader!InFlight, Loader!Canceled,
       Loader!Fetching
  <2>5. Cardinality(Busy') = Cardinality(Busy)
    <3>1. /\ IsFiniteSet(Busy \ {l}) /\ Cardinality(Busy) \in Nat
          /\ Cardinality(Busy \ {l}) = Cardinality(Busy) - 1
      BY Finite, FS_RemoveElement
    <3>2. Cardinality((Busy \ {l}) \cup {h}) = Cardinality(Busy \ {l}) + 1
      BY <2>4, <3>1, FS_AddElement
    <3> QED
      BY <2>4, <3>1, <3>2
  <2>6. Loader!TypeOK'
    BY <1>1, <1>2, <1>3, <2>1, <2>3 DEF Loader!TypeOK, Loader!Phases
  <2>7. Loader!CountsActiveLoads'
    <3>1. currentlyLoading' = Cardinality(Loader!Active')
      BY <1>1, <1>3, <2>4, Finite, FS_RemoveElement
    <3>2. \A i \in 1..Len(queuedLoads') :
             i + 1 \in 1..Len(queuedLoads) /\ queuedLoads'[i] # h /\ queuedLoads'[i] # l
      BY <1>1, <2>2 DEF Loader!CountsActiveLoads
    <3>3. \A i \in 1..Len(queuedLoads') : phase'[queuedLoads'[i]] = "queued"
      BY <1>1, <2>1, <2>2, <3>2 DEF Loader!CountsActiveLoads
    <3>4. \A k \in Loads : phase'[k] = "queued" =>
            \E i \in 1..Len(queuedLoads') : queuedLoads'[i] = k
      <4>1. SUFFICES ASSUME NEW k \in Loads, phase'[k] = "queued"
                     PROVE  \E i \in 1..Len(queuedLoads') : queuedLoads'[i] = k
        OBVIOUS
      <4>2. k # h /\ phase[k] = "queued"
        BY <1>1, <2>1, <2>3, <4>1
      <4>3. PICK j \in 1..Len(queuedLoads) : queuedLoads[j] = k
        BY <4>2 DEF Loader!CountsActiveLoads
      <4>4. j - 1 \in 1..Len(queuedLoads') /\ queuedLoads'[j - 1] = k
        BY <2>2, <4>2, <4>3
      <4> QED
        BY <4>4
    <3>5. \A i, j \in 1..Len(queuedLoads') : queuedLoads'[i] = queuedLoads'[j] => i = j
      BY <2>2, <3>2 DEF Loader!CountsActiveLoads
    <3> QED
      BY <3>1, <3>3, <3>4, <3>5, SameCardinality DEF Loader!CountsActiveLoads
  <2>8. Loader!QueueWaitsForSlots'
    BY <1>5, <2>5, SameCardinality DEF Loader!QueueWaitsForSlots, Busy
  <2>9. Loader!LimitHolds /\ Loader!Canceled = {} => Loader!LimitHolds'
    <3>1. CASE Loader!Canceled = {}
      <4>1. Loader!InFlight = Busy /\ Loader!InFlight' = Busy'
        BY <1>1, <2>1, <2>3, <3>1 DEF Loader!InFlight, Loader!Canceled, Busy, Loader!Fetching
      <4> QED
        BY <2>5, <4>1, SameCardinality DEF Loader!LimitHolds
    <3> QED
      BY <3>1
  <2> QED
    BY <2>6, <2>7, <2>8, <2>9
<1> QED
  BY <1>4, <1>5

(* A navigation turns the queue into canceled loads.                       *)
LEMMA PrimaryPageChanged ==
  ASSUME Loader!SlotsAreAccounted, Loader!onPrimaryPageChanged
  PROVE  Loader!SlotsAreAccounted' /\ Loader!InFlight' = Loader!InFlight
<1>1. /\ phase' = [l \in Loads |-> IF phase[l] = "queued" THEN "rejected" ELSE phase[l]]
      /\ queuedLoads' = <<>> /\ pageResources' = [k \in Keys |-> NoLoad]
      /\ UNCHANGED <<currentlyLoading, success>>
  BY DEF Loader!onPrimaryPageChanged, Loader!rejectQueued
<1>2. phase \in [Loads -> Loader!Phases]
  BY DEF Loader!SlotsAreAccounted, Loader!TypeOK
<1>3. Loader!Active' = Loader!Active /\ Loader!InFlight' = Loader!InFlight
  BY <1>1, <1>2 DEF Loader!Active, Loader!InFlight, Loader!Fetching
<1>4. Loader!TypeOK'
  BY <1>1, <1>2 DEF Loader!SlotsAreAccounted, Loader!TypeOK, Loader!Phases
<1>5. Loader!CountsActiveLoads'
  BY <1>1, <1>2, <1>3 DEF Loader!SlotsAreAccounted, Loader!CountsActiveLoads
<1> QED
  BY <1>1, <1>3, <1>4, <1>5 DEF Loader!SlotsAreAccounted, Loader!QueueWaitsForSlots

LEMMA StepSlots ==
  ASSUME LoadsAreFinite
  PROVE  Loader!SlotsAreAccounted /\ [Loader!Next]_(Loader!vars) =>
           /\ Loader!SlotsAreAccounted'
           /\ Loader!LimitHolds /\ Loader!Canceled = {} => Loader!LimitHolds'
<1> SUFFICES ASSUME Loader!SlotsAreAccounted, [Loader!Next]_(Loader!vars)
             PROVE  /\ Loader!SlotsAreAccounted'
                    /\ Loader!LimitHolds /\ Loader!Canceled = {} => Loader!LimitHolds'
  OBVIOUS
<1>1. CASE \E l \in Loads : Loader!loadResource(l)
  BY <1>1, LoadResource
<1>2. CASE \E l \in Loads : Loader!startQueuedLoad(l) \/ Loader!fallback(l)
  BY <1>2, GoesOn DEF Loader!LimitHolds
<1>3. CASE \E l \in Loads : Loader!fetchSettles(l) \/ Loader!cancellationSettles(l)
  <2>1. PICK l \in Loads, ok \in {"true", "false"} : l \in Busy /\ Loader!finish(l, ok)
    BY <1>3 DEF Loader!fetchSettles, Loader!cancellationSettles, Busy, Loader!InFlight,
       Loader!Canceled
  <2> QED
    BY <2>1, Finish
<1>4. CASE Loader!onPrimaryPageChanged
  BY <1>4, PrimaryPageChanged DEF Loader!LimitHolds
<1>5. CASE UNCHANGED Loader!vars
  BY <1>5 DEF Loader!vars, Loader!SlotsAreAccounted, Loader!TypeOK, Loader!CountsActiveLoads,
     Loader!QueueWaitsForSlots,
              Loader!LimitHolds, Loader!InFlight, Loader!Canceled, Loader!Active
<1> QED
  BY <1>1, <1>2, <1>3, <1>4, <1>5 DEF Loader!Next

-----------------------------------------------------------------------------
(* A load has an outcome exactly if it has settled, and what is shown was  *)
(* loaded under its key.                                                   *)
Outcomes ==
  /\ \A l \in Loads : success[l] = "null" <=> phase[l] # "done"
  /\ \A k \in Keys : pageResources[k] # NoLoad =>
       keyOf[pageResources[k]] = k /\ phase[pageResources[k]] # "idle"

LEMMA FinishOutcomes ==
  ASSUME LoadsAreFinite, Loader!SlotsAreAccounted, Outcomes, NEW l \in Busy,
  NEW ok \in {"true", "false"},
         Loader!finish(l, ok)
  PROVE  Outcomes'
<1>1. /\ l \in Loads /\ phase[l] # "queued" /\ phase[l] # "idle"
      /\ phase \in [Loads -> Loader!Phases] /\ success \in [Loads -> {"null", "true", "false"}]
      /\ pageResources \in [Keys -> Loads \cup {NoLoad}]
      /\ pageResources' = pageResources /\ success' = [success EXCEPT ![l] = ok]
  BY DEF Busy, Loader!InFlight, Loader!Canceled, Loader!Fetching, Loader!SlotsAreAccounted,
     Loader!TypeOK, Loader!finish
<1>2. \A k \in Loads : /\ phase'[k] = "done" <=> (phase[k] = "done" \/ k = l)
                       /\ phase'[k] = "idle" => phase[k] = "idle"
  <2>1. CASE queuedLoads = <<>>
    BY <1>1, <2>1 DEF Loader!finish, Loader!releaseLoadSlot
  <2>2. CASE queuedLoads # <<>>
    <3>1. Head(queuedLoads) \in Loads /\ phase[Head(queuedLoads)] = "queued"
      BY <2>2 DEF Loader!SlotsAreAccounted, Loader!TypeOK, Loader!CountsActiveLoads
    <3>2. phase' = [phase EXCEPT ![l] = "done", ![Head(queuedLoads)] = "resolved"]
      BY <2>2 DEF Loader!finish, Loader!releaseLoadSlot
    <3> QED
      BY <1>1, <3>1, <3>2
  <2> QED
    BY <2>1, <2>2
<1> QED
  BY <1>1, <1>2, LoaderAssumption DEF Outcomes, Loader!LoadsAssumption

LEMMA StepOutcomes ==
  ASSUME LoadsAreFinite
  PROVE  Loader!SlotsAreAccounted /\ Outcomes /\ [Loader!Next]_(Loader!vars) => Outcomes'
<1> SUFFICES ASSUME Loader!SlotsAreAccounted, Outcomes,
[Loader!Next]_(Loader!vars) PROVE Outcomes'
  OBVIOUS
<1> USE LoaderAssumption DEF Loader!LoadsAssumption
<1>1. ASSUME NEW l \in Loads, Loader!loadResource(l) PROVE Outcomes'
  <2>1. PICK p \in {"queued"} \cup Loader!Fetching : phase' = [phase EXCEPT ![l] = p]
    BY <1>1 DEF Loader!loadResource, Loader!dispatchLoad
  <2> QED
    BY <1>1, <2>1 DEF Loader!loadResource, Outcomes, Loader!SlotsAreAccounted, Loader!TypeOK,
       Loader!Fetching
<1>2. ASSUME NEW l \in Loads, Loader!startQueuedLoad(l) \/ Loader!fallback(l) PROVE Outcomes'
  <2>1. PICK p \in Loader!Fetching : phase' = [phase EXCEPT ![l] = p]
    BY <1>2 DEF Loader!startQueuedLoad, Loader!fallback, Loader!dispatchLoad, Loader!Fetching
  <2> QED
    BY <1>2, <2>1 DEF Loader!startQueuedLoad, Loader!fallback, Outcomes,
       Loader!SlotsAreAccounted, Loader!TypeOK, Loader!Fetching
<1>3. CASE \E l \in Loads : Loader!fetchSettles(l) \/ Loader!cancellationSettles(l)
  <2>1. PICK l \in Loads, ok \in {"true", "false"} : l \in Busy /\ Loader!finish(l, ok)
    BY <1>3 DEF Loader!fetchSettles, Loader!cancellationSettles, Busy, Loader!InFlight,
       Loader!Canceled
  <2> QED
    BY <2>1, FinishOutcomes
<1>4. CASE Loader!onPrimaryPageChanged
  BY <1>4 DEF Loader!onPrimaryPageChanged, Loader!rejectQueued, Outcomes,
     Loader!SlotsAreAccounted, Loader!TypeOK
<1>5. CASE UNCHANGED Loader!vars
  BY <1>5 DEF Loader!vars, Outcomes
<1> QED
  BY <1>1, <1>2, <1>3, <1>4, <1>5 DEF Loader!Next

(* currentlyLoading counts the loads that have not settled, the queue      *)
(* holds those that wait, once, and they wait for slots that are taken     *)
(* (acquireLoadSlot, releaseLoadSlot).                                     *)
THEOREM SlotsStayAccounted == ASSUME LoadsAreFinite PROVE SdkSpec => []SlotsAreAccounted
<1>1. Loader!Init => Loader!SlotsAreAccounted
  BY InitSlots
<1>2. Loader!SlotsAreAccounted /\ [Loader!Next]_(Loader!vars) => Loader!SlotsAreAccounted'
  BY StepSlots
<1> QED
  BY SdkStarts, SdkStep, <1>1, <1>2, PTL DEF SdkSpec, sdkVars, SlotsAreAccounted

(* No step passes the limit while no canceled load is to settle            *)
(* (loadResource, releaseLoadSlot).                                        *)
THEOREM LimitIsKept == ASSUME LoadsAreFinite PROVE SdkSpec => OnlyCancellationsPassTheLimit
<1>1. Loader!SlotsAreAccounted /\ [Loader!Next]_(Loader!vars) =>
        [Loader!LimitHolds /\ Loader!Canceled = {} => Loader!LimitHolds']_(Loader!vars)
  BY StepSlots
<1> QED
  BY SdkStarts, SdkStep, SlotsStayAccounted, <1>1, PTL
  DEF SdkSpec, sdkVars, SlotsAreAccounted, OnlyCancellationsPassTheLimit,
      Loader!OnlyCancellationsPassTheLimit

(* What the view shows as loading belongs to a load that runs              *)
(* (PageResource.success).                                                 *)
THEOREM ShownStaysTrue == ASSUME LoadsAreFinite PROVE SdkSpec => []ShownAsLoading
<1>1. Loader!Init => Outcomes
  BY DEF Loader!Init, Outcomes
<1>2. Loader!SlotsAreAccounted /\ Outcomes /\ [Loader!Next]_(Loader!vars) => Outcomes'
  BY StepOutcomes
<1>3. Loader!SlotsAreAccounted /\ Outcomes => Loader!ShownAsLoading
  BY LoaderAssumption DEF Loader!LoadsAssumption, Loader!SlotsAreAccounted, Loader!TypeOK,
     Outcomes,
         Loader!ShownAsLoading, Loader!Active
<1> QED
  BY SdkStarts, SdkStep, SlotsStayAccounted, <1>1, <1>2, <1>3, PTL
  DEF SdkSpec, sdkVars, SlotsAreAccounted, ShownAsLoading

(***************************************************************************)
(* The network dispatchers.                                                *)
(***************************************************************************)
(* The records the maps hold.                                              *)
Request ==
  [manager : Dispatchers, source : Int, suffix : Int, finished : BOOLEAN, bundle : BOOLEAN,
   intercepted : BOOLEAN, requestInfo : Nat, responseInfo : Nat,
   requestHeaders : {"plain", "raw"}, responseHeaders : {"none", "plain", "raw"}]
Builder ==
  [finished : BOOLEAN, requests : Seq(Nat), requestInfo : Seq(Nat), responseInfo : Seq(Nat),
   bundle : BOOLEAN]

MapsTyped(rs, byId, bs) ==
  /\ rs \in [Legs -> {NoRequest} \cup Request]
  /\ byId \in [Dispatchers -> [Ids -> 0..MaxLegs]]
  /\ bs \in [Dispatchers -> [Ids -> Builder]]

NetworkTyped ==
  /\ MapsTyped(requests, requestsById, builders)
  /\ inflight \in [Ids -> 0..MaxLegs]
  /\ removed \subseteq Dispatchers /\ done \subseteq Ids
  /\ home \in [Ids -> Dispatchers]
  /\ sent \in [Ids -> 0..MaxLegs] /\ requestInfos \in [Ids -> Seq(1..MaxLegs)]
  /\ responseInfos \in [Ids -> Seq(1..MaxLegs)]

(* What is said of the maps rs (of requests), byId, bs (of builders), fl   *)
(* (in flight) and dn (done); a step may go through several of them.       *)

(* The legs of a load follow each other; all but the last are over, called *)
(* by their number, and without a bundle, and the last one is over, or has *)
(* one, only if the load is.                                               *)
LegsInOrder(rs, dn) ==
  \A id \in Ids, k \in 1..MaxLegs :
    /\ rs[<<id, k>>].manager # NoDispatcher <=> k <= sent[id]
    /\ k <= sent[id] =>
         /\ rs[<<id, k>>].source = k - 1
         /\ rs[<<id, k>>].suffix = IF k < sent[id] THEN k - 1 ELSE -1
         /\ k < sent[id] => rs[<<id, k>>].finished
         /\ rs[<<id, k>>].bundle => k = sent[id] /\ id \in dn
         /\ k = sent[id] /\ rs[<<id, k>>].finished => id \in dn

(* Raw headers are raw.                                                    *)
Raw(r) ==
  /\ r.requestInfo # 0 => r.requestHeaders = "raw"
  /\ r.responseInfo # 0 /\ ~r.intercepted => r.responseHeaders = "raw"
RawIsRaw(rs) == \A l \in Legs : rs[l].manager # NoDispatcher => Raw(rs[l])

(* A dispatcher knows a load by its last leg, whose manager it is.         *)
LastLegKnown(rs, byId) ==
  \A d \in Dispatchers, id \in Ids : byId[d][id] # 0 =>
    byId[d][id] = sent[id] /\ rs[<<id, sent[id]>>].manager = d

(* A leg in flight is that of a navigation, the last, unfinished and known *)
(* to its manager.                                                         *)
InflightKnown(rs, byId, fl) ==
  \A id \in Ids : fl[id] # 0 =>
    /\ id \in Main /\ fl[id] = sent[id] /\ ~rs[<<id, sent[id]>>].finished
    /\ byId[rs[<<id, sent[id]>>].manager][id] = sent[id]

(* A builder has no leg or all of them in order, is finished only when the *)
(* load is over, and has the legs if its dispatcher knows the load.        *)
BuildersInOrder(byId, bs, dn) ==
  \A d \in Dispatchers, id \in Ids :
    /\ bs[d][id].requests # <<>> => Len(bs[d][id].requests) = sent[id]
    /\ \A i \in 1..Len(bs[d][id].requests) : bs[d][id].requests[i] = i
    /\ bs[d][id].finished => id \in dn
    /\ id \notin dn /\ byId[d][id] # 0 => bs[d][id].requests # <<>>

(* As long as no other target is told of a load, the first dispatcher, and *)
(* no other, manages its legs.                                             *)
FirstKnows(rs, byId, bs, dn) ==
  \A id \in Ids : home[id] = first =>
    /\ id \notin dn => byId[first][id] = sent[id]
    /\ \A k \in 1..MaxLegs : k <= sent[id] => rs[<<id, k>>].manager = first
    /\ \A d \in Dispatchers \ {first} : bs[d][id].requests = <<>>

InStep(rs, byId, bs, fl, dn) ==
  /\ MapsTyped(rs, byId, bs)
  /\ LegsInOrder(rs, dn) /\ RawIsRaw(rs)
  /\ LastLegKnown(rs, byId) /\ InflightKnown(rs, byId, fl)
  /\ BuildersInOrder(byId, bs, dn) /\ FirstKnows(rs, byId, bs, dn)

NetworkInv == NetworkTyped /\ InStep(requests, requestsById, builders, inflight, done)

(* What came in place k is at leg k, or waits for it in its place of the   *)
(* builder, as long as one target is told of the load.                     *)
InPlace(legs, n, s) ==
  /\ Len(s) = Len(legs)
  /\ \A i \in 1..Len(s) : s[i] = IF i <= n THEN Taken ELSE legs[i]
Placed(id, rs, b) ==
  /\ \A k \in 1..MaxLegs : k <= sent[id] =>
       /\ rs[<<id, k>>].requestInfo = At(requestInfos[id], k)
       /\ rs[<<id, k>>].responseInfo = At(responseInfos[id], k)
  /\ \/ id \in done /\ b = NoBuilder
     \/ /\ InPlace(requestInfos[id], sent[id], b.requestInfo)
        /\ InPlace(responseInfos[id], sent[id], b.responseInfo)
        /\ sent[id] = Len(b.requests)

(* The legs the network stack told of are in order: none is told of before *)
(* its place, and where one is told of in another place, some leg up to    *)
(* that place was passed over.                                             *)
ToldInOrder(legs) ==
  /\ legs \in Seq(1..MaxLegs)
  /\ \A i \in 1..Len(legs) : /\ legs[i] >= i
                             /\ legs[i] = i \/ \E j \in 1..i : j \notin ToldOf(legs)

InfosInOrder ==
  \A id \in Ids :
    /\ ToldInOrder(requestInfos[id]) /\ ToldInOrder(responseInfos[id])
    /\ home[id] = first => Placed(id, requests, builders[first][id])

(* A set of natural numbers has a least one.                               *)
LEMMA LeastNat ==
  ASSUME NEW T, T \subseteq Nat, T # {}
  PROVE  \E x \in T : \A y \in T : x <= y
<1> DEFINE R == {ss \in Nat \X Nat : ss[1] < ss[2]}
<1>1. IsWellFoundedOn(R, Nat)
  BY NatLessThanWellFounded DEF OpToRel
<1>2. PICK x \in T : \A y \in T : <<y, x>> \notin R
  <2> HIDE DEF R
  <2> QED
    BY <1>1, WFMin
<1>3. ASSUME NEW y \in T PROVE x <= y
  <2>1. x \in Nat /\ y \in Nat /\ <<y, x>> \notin R
    BY <1>2
  <2>2. <<y, x>>[1] = y /\ <<y, x>>[2] = x /\ <<y, x>> \in Nat \X Nat
    BY <2>1
  <2>3. ~(y < x)
    BY <2>1, <2>2
  <2> QED
    BY <2>1, <2>3
<1> QED
  BY <1>3

LEMMA NetworkConstants ==
  /\ first \in Dispatchers /\ NoDispatcher \notin Dispatchers
  /\ Main \subseteq Ids /\ MaxLegs \in Nat \ {0}
BY NetworkAssumption DEF DispatchersAssumption, Legs

(* The chain of the sources of a leg whose legs follow each other is all   *)
(* the legs before it.                                                     *)
LEMMA ChainOfSources ==
  ASSUME NEW id \in Ids, NEW k \in 1..MaxLegs,
         \A j \in 1..k : requests[<<id, j>>].source = j - 1
  PROVE  redirectCount(<<id, k>>) = k - 1
<1> DEFINE l == <<id, k>>
           IsChain(n, chain) ==
             /\ chain[0] = l[2]
             /\ \A i \in 0..n - 1 : chain[i + 1] = redirectSource(l, chain[i])
             /\ redirectSource(l, chain[n]) = 0
<1>0. k \in Nat /\ k >= 1 /\ MaxLegs \in Nat /\ k <= MaxLegs /\ l[2] = k
  BY NetworkConstants
<1>1. \A j \in 1..k : redirectSource(l, j) = j - 1
  BY DEF redirectSource
<1>2. ASSUME NEW n \in 0..MaxLegs - 1, NEW chain \in [0..n -> 1..MaxLegs], IsChain(n, chain)
      PROVE  n = k - 1
  <2> DEFINE T == {i \in 0..n : ~(i <= k - 1 /\ chain[i] = k - i)}
  <2>1. T = {}
    <3> SUFFICES ASSUME T # {} PROVE FALSE
      OBVIOUS
    <3>1. T \subseteq Nat
      BY NetworkConstants
    <3>2. PICK i \in T : \A j \in T : i <= j
      <4> HIDE DEF T
      <4> QED
        BY <3>1, LeastNat
    <3>3. i \in 0..n /\ i # 0
      BY <1>0, <1>2, <3>2
    <3>4. i - 1 \in 0..n - 1 /\ i - 1 \in Nat /\ n \in Nat
      BY <1>0, <3>3
    <3>5. i - 1 \notin T
      BY <3>2, <3>4
    <3>6. i - 1 <= k - 1 /\ chain[i - 1] = k - (i - 1)
      BY <3>4, <3>5
    <3>7. chain[(i - 1) + 1] = redirectSource(l, chain[i - 1])
      BY <1>2, <3>4
    <3>8. k - (i - 1) \in 1..k
      BY <1>0, <3>4, <3>6
    <3>9. chain[i] = k - i
      <4>1. redirectSource(l, chain[i - 1]) = k - (i - 1) - 1
        BY <1>1, <3>6, <3>8
      <4>2. (i - 1) + 1 = i /\ k - (i - 1) - 1 = k - i
        BY <1>0, <3>4
      <4> QED
        BY <3>7, <4>1, <4>2
    <3>10. chain[i] \in 1..MaxLegs
      BY <1>2, <3>3
    <3> QED
      BY <1>0, <3>2, <3>4, <3>9, <3>10
  <2>2. n <= k - 1 /\ chain[n] = k - n /\ n \in Nat
    <3>1. n \in 0..n /\ n \in Nat
      BY <1>0
    <3>2. n \notin T
      BY <2>1
    <3> QED
      BY <3>1, <3>2
  <2>3. k - n \in 1..k /\ redirectSource(l, k - n) = k - n - 1
    BY <1>0, <1>1, <2>2
  <2>4. redirectSource(l, chain[n]) = 0
    BY <1>2
  <2> QED
    BY <1>0, <2>2, <2>3, <2>4
<1>3. \E chain \in [0..k - 1 -> 1..MaxLegs] : IsChain(k - 1, chain)
  <2> DEFINE c == [i \in 0..k - 1 |-> k - i]
  <2>1. c \in [0..k - 1 -> 1..MaxLegs] /\ c[0] = k /\ c[k - 1] = 1
    BY <1>0
  <2>2. ASSUME NEW i \in 0..(k - 1) - 1 PROVE c[i + 1] = redirectSource(l, c[i])
    <3>1. i \in 0..k - 1 /\ i + 1 \in 0..k - 1 /\ k - i \in 1..k
      BY <1>0
    <3> QED
      BY <1>0, <1>1, <3>1
  <2>3. redirectSource(l, c[k - 1]) = 0
    BY <1>0, <1>1, <2>1
  <2>4. IsChain(k - 1, c)
    BY <1>0, <2>1, <2>2, <2>3
  <2> QED
    BY <2>1, <2>4
<1>4. k - 1 \in 0..MaxLegs - 1
  BY <1>0
<1> DEFINE P(n) == \E chain \in [0..n -> 1..MaxLegs] : IsChain(n, chain)
<1>5. redirectCount(l) = CHOOSE n \in 0..MaxLegs - 1 : P(n)
  BY DEF redirectCount
<1>6. P(k - 1) /\ \A n \in 0..MaxLegs - 1 : P(n) => n = k - 1
  BY <1>2, <1>3
<1> HIDE DEF P
<1> QED
  BY <1>4, <1>5, <1>6

LEMMA Records ==
  /\ NoRequest \notin Request /\ NoRequest.manager = NoDispatcher
  /\ \A r \in Request : r.manager # NoDispatcher /\ r.manager \in Dispatchers
BY NetworkConstants DEF NoRequest, Request

LEMMA NoBuilderIsOne ==
  /\ NoBuilder \in Builder /\ ~NoBuilder.finished
  /\ NoBuilder.requests = <<>> /\ NoBuilder.requestInfo = <<>> /\ NoBuilder.responseInfo = <<>>
BY DEF NoBuilder, Builder

LEMMA ExistingLeg ==
  ASSUME NetworkTyped, NEW l \in Legs
  PROVE  Exists(l) <=> requests[l] \in Request
BY Records DEF NetworkTyped, MapsTyped, Exists

(* What is known of a leg apart from its headers and infos.                *)
SameLeg(r, s) ==
  /\ s.manager = r.manager /\ s.source = r.source /\ s.suffix = r.suffix
  /\ s.finished = r.finished /\ s.bundle = r.bundle

(* Infos and responses leave the rest of a leg as it is, and its raw       *)
(* headers raw.                                                            *)
LEMMA WithInfosKeeps ==
  ASSUME NEW r \in Request, NEW b \in Builder, NEW k \in Nat
  PROVE  /\ WithInfos(r, b, k) \in Request /\ SameLeg(r, WithInfos(r, b, k))
         /\ Raw(r) => Raw(WithInfos(r, b, k))
         /\ WithInfos(r, b, k).requestInfo =
              IF At(b.requestInfo, k) = Taken THEN r.requestInfo ELSE At(b.requestInfo, k)
         /\ WithInfos(r, b, k).responseInfo =
              IF At(b.responseInfo, k) = Taken THEN r.responseInfo ELSE At(b.responseInfo, k)
<1> DEFINE q == At(b.requestInfo, k)
           p == At(b.responseInfo, k)
<1>1. q \in Nat /\ p \in Nat
  BY DEF At, Builder, Taken
<1>2. WithInfos(r, b, k) =
        [r EXCEPT !.requestInfo = IF q = Taken THEN @ ELSE q,
                  !.requestHeaders = IF q = Taken THEN @ ELSE "raw",
                  !.responseInfo = IF p = Taken THEN @ ELSE p,
                  !.responseHeaders = IF p = Taken THEN @ ELSE "raw"]
  BY DEF WithInfos
<1> HIDE DEF q, p
<1>3. WithInfos(r, b, k) \in Request
  BY <1>1, <1>2 DEF Request
<1>4. SameLeg(r, WithInfos(r, b, k))
  BY <1>2 DEF SameLeg, Request
<1>5. Raw(r) => Raw(WithInfos(r, b, k))
  BY <1>1, <1>2 DEF Raw, Request
<1>6. /\ WithInfos(r, b, k).requestInfo = IF q = Taken THEN r.requestInfo ELSE q
      /\ WithInfos(r, b, k).responseInfo = IF p = Taken THEN r.responseInfo ELSE p
  BY <1>2 DEF Request
<1> QED
  BY <1>3, <1>4, <1>5, <1>6 DEF q, p

LEMMA RespondedKeeps ==
  ASSUME NEW r \in Request
  PROVE  /\ Responded(r) \in Request /\ SameLeg(r, Responded(r)) /\ (Raw(r) => Raw(Responded(r)))
         /\ Responded(r).requestInfo = r.requestInfo /\ Responded(r).responseInfo = r.responseInfo
BY DEF Responded, Request, SameLeg, Raw

(* A builder whose places are taken, or are filled.                        *)
SameLegs(b, c) == c.requests = b.requests /\ c.finished = b.finished

LEMMA TakeKeeps ==
  ASSUME NEW s \in Seq(Nat), NEW k \in Nat
  PROVE  /\ take(s, k) \in Seq(Nat) /\ Len(take(s, k)) = Len(s)
         /\ \A i \in 1..Len(s) : take(s, k)[i] = IF i = k THEN Taken ELSE s[i]
<1>1. CASE k \in 1..Len(s)
  <2>1. take(s, k) = [s EXCEPT ![k] = Taken] /\ Taken \in Nat
    BY <1>1 DEF take, Taken
  <2> QED
    BY <1>1, <2>1
<1>2. CASE k \notin 1..Len(s)
  BY <1>2 DEF take
<1> QED
  BY <1>1, <1>2

LEMMA SyncBuilder ==
  ASSUME NEW b \in Builder, NEW k \in Nat,
         NEW c, c = [b EXCEPT !.requestInfo = take(@, k), !.responseInfo = take(@, k)]
  PROVE  /\ c \in Builder /\ SameLegs(b, c)
         /\ c.requestInfo = take(b.requestInfo, k) /\ c.responseInfo = take(b.responseInfo, k)
<1>1. /\ b.requestInfo \in Seq(Nat) /\ b.responseInfo \in Seq(Nat)
  BY DEF Builder
<1>2. take(b.requestInfo, k) \in Seq(Nat) /\ take(b.responseInfo, k) \in Seq(Nat)
  BY <1>1, TakeKeeps
<1> QED
  BY <1>2 DEF Builder, SameLegs

(* A step that changes no more of the legs than headers and infos, and no  *)
(* more of a builder than what waits there.                                *)
LEMMA QuietlyInStep ==
  ASSUME NetworkTyped,
         NEW rs, NEW byId, NEW bs, NEW fl, NEW dn, InStep(rs, byId, bs, fl, dn),
         fl \in [Ids -> 0..MaxLegs],
         NEW rt \in [Legs -> {NoRequest} \cup Request],
         NEW bt \in [Dispatchers -> [Ids -> Builder]],
         \A l \in Legs : rt[l].manager # NoDispatcher <=> rs[l].manager # NoDispatcher,
         \A l \in Legs : rs[l].manager # NoDispatcher =>
           SameLeg(rs[l], rt[l]) /\ (Raw(rs[l]) => Raw(rt[l])),
         \A d \in Dispatchers, id \in Ids : SameLegs(bs[d][id], bt[d][id])
  PROVE  InStep(rt, byId, bt, fl, dn)
<1>1. MapsTyped(rt, byId, bt)
  BY DEF InStep, MapsTyped
<1>0. LegsInOrder(rs, dn)
  BY DEF InStep
<1>2. \A id \in Ids : sent[id] \in Nat /\ sent[id] <= MaxLegs /\ MaxLegs \in Nat
  BY NetworkConstants DEF NetworkTyped
<1>3. \A id \in Ids, k \in 1..MaxLegs : k <= sent[id] =>
        SameLeg(rs[<<id, k>>], rt[<<id, k>>])
  BY <1>0 DEF LegsInOrder, Legs
<1>4. LegsInOrder(rt, dn)
  <2> SUFFICES ASSUME NEW id \in Ids, NEW k \in 1..MaxLegs
               PROVE /\ rt[<<id, k>>].manager # NoDispatcher <=> k <= sent[id]
                     /\ k <= sent[id] =>
                         /\ rt[<<id, k>>].source = k - 1
                         /\ rt[<<id, k>>].suffix = IF k < sent[id] THEN k - 1 ELSE -1
                         /\ k < sent[id] => rt[<<id, k>>].finished
                         /\ rt[<<id, k>>].bundle => k = sent[id] /\ id \in dn
                         /\ k = sent[id] /\ rt[<<id, k>>].finished => id \in dn
    BY DEF LegsInOrder
  <2>1. rt[<<id, k>>].manager # NoDispatcher <=> rs[<<id, k>>].manager # NoDispatcher
    BY DEF Legs
  <2> QED
    BY <1>0, <1>3, <2>1 DEF LegsInOrder, SameLeg
<1>5. RawIsRaw(rt)
  BY DEF InStep, RawIsRaw
<1>6. ASSUME NEW id \in Ids, sent[id] # 0
      PROVE  SameLeg(rs[<<id, sent[id]>>], rt[<<id, sent[id]>>])
  <2>1. sent[id] \in 1..MaxLegs /\ sent[id] <= sent[id]
    BY <1>2, <1>6
  <2> QED
    BY <1>3, <2>1
<1>7. LastLegKnown(rt, byId)
  BY <1>6 DEF InStep, LastLegKnown, SameLeg
<1>8. InflightKnown(rt, byId, fl)
  BY <1>6 DEF InStep, InflightKnown, SameLeg
<1>9. BuildersInOrder(byId, bt, dn)
  <2> SUFFICES ASSUME NEW d \in Dispatchers, NEW id \in Ids, NEW b, b = bt[d][id]
               PROVE  /\ b.requests # <<>> => Len(b.requests) = sent[id]
                      /\ \A i \in 1..Len(b.requests) : b.requests[i] = i
                      /\ b.finished => id \in dn
                      /\ id \notin dn /\ byId[d][id] # 0 => b.requests # <<>>
    BY DEF BuildersInOrder
  <2>1. b.requests = bs[d][id].requests /\ b.finished = bs[d][id].finished
    BY DEF SameLegs
  <2> QED
    BY <2>1 DEF InStep, BuildersInOrder
<1>10. FirstKnows(rt, byId, bt, dn)
  <2>1. \A d \in Dispatchers, id \in Ids : bt[d][id].requests = bs[d][id].requests
    BY DEF SameLegs
  <2>2. \A id \in Ids, k \in 1..MaxLegs : k <= sent[id] =>
          rt[<<id, k>>].manager = rs[<<id, k>>].manager
    BY <1>3 DEF SameLeg
  <2> SUFFICES ASSUME NEW id \in Ids, home[id] = first
               PROVE  /\ id \notin dn => byId[first][id] = sent[id]
                      /\ \A k \in 1..MaxLegs : k <= sent[id] => rt[<<id, k>>].manager = first
                      /\ \A d \in Dispatchers \ {first} : bt[d][id].requests = <<>>
    BY DEF FirstKnows
  <2>3. /\ id \notin dn => byId[first][id] = sent[id]
        /\ \A k \in 1..MaxLegs : k <= sent[id] => rs[<<id, k>>].manager = first
        /\ \A d \in Dispatchers \ {first} : bs[d][id].requests = <<>>
    BY DEF InStep, FirstKnows
  <2> QED
    BY <2>1, <2>2, <2>3
<1> QED
  BY <1>1, <1>4, <1>5, <1>7, <1>8, <1>9, <1>10 DEF InStep

(* The value of a leg that dispatcher d knows, or has in a builder.        *)
LEMMA KnownLegExists ==
  ASSUME NetworkTyped, NEW rs, NEW byId, NEW bs, NEW fl, NEW dn, InStep(rs, byId, bs, fl, dn),
         NEW id \in Ids, sent[id] # 0
  PROVE  /\ sent[id] \in 1..MaxLegs /\ <<id, sent[id]>> \in Legs
         /\ rs[<<id, sent[id]>>] \in Request
<1>1. sent[id] \in 1..MaxLegs /\ <<id, sent[id]>> \in Legs
  BY NetworkConstants DEF NetworkTyped, Legs
<1>2. rs[<<id, sent[id]>>].manager # NoDispatcher
  BY <1>1 DEF InStep, LegsInOrder
<1> QED
  BY <1>1, <1>2, Records DEF InStep, MapsTyped

(* sync(k): the builder b, which may have more infos than that of the map, *)
(* gives those of place k to its leg.                                      *)
LEMMA SyncInStep ==
  ASSUME NetworkInv, NEW d \in Dispatchers, NEW id \in Ids, NEW k \in Nat, NEW b \in Builder,
         SameLegs(builders[d][id], b), sync(d, id, b, k, requests)
  PROVE  InStep(requests', requestsById, builders', inflight, done)
<1>0. /\ NetworkTyped /\ InStep(requests, requestsById, builders, inflight, done)
      /\ requests \in [Legs -> {NoRequest} \cup Request]
      /\ builders \in [Dispatchers -> [Ids -> Builder]]
      /\ inflight \in [Ids -> 0..MaxLegs]
  BY DEF NetworkInv, NetworkTyped, MapsTyped
<1>1. PICK c : /\ builders' = [builders EXCEPT ![d][id] = c]
               /\ c \in Builder /\ SameLegs(b, c)
  <2> DEFINE t == [b EXCEPT !.requestInfo = take(@, k), !.responseInfo = take(@, k)]
  <2>1. builders' = [builders EXCEPT ![d][id] = IF There(b, k) THEN t ELSE b]
    BY DEF sync
  <2>2. t \in Builder /\ SameLegs(b, t) /\ SameLegs(b, b)
    BY SyncBuilder DEF SameLegs
  <2> QED
    BY <2>1, <2>2
<1>2. builders' \in [Dispatchers -> [Ids -> Builder]]
  BY <1>0, <1>1
<1>3. ASSUME NEW e \in Dispatchers, NEW j \in Ids
      PROVE  SameLegs(builders[e][j], builders'[e][j])
  <2>1. builders'[e][j] = IF e = d /\ j = id THEN c ELSE builders[e][j]
    BY <1>0, <1>1
  <2> QED
    BY <1>1, <2>1 DEF SameLegs
<1>4. /\ requests' \in [Legs -> {NoRequest} \cup Request]
      /\ \A l \in Legs : requests'[l].manager # NoDispatcher <=> requests[l].manager # NoDispatcher
      /\ \A l \in Legs : requests[l].manager # NoDispatcher =>
           SameLeg(requests[l], requests'[l]) /\ (Raw(requests[l]) => Raw(requests'[l]))
  <2>1. CASE ~There(b, k)
    <3>1. requests' = requests
      BY <2>1 DEF sync
    <3> QED
      BY <1>0, <3>1 DEF SameLeg
  <2>2. CASE There(b, k)
    <3> DEFINE l == <<id, b.requests[k]>>
               r == requests[l]
    <3>1. requests' = [requests EXCEPT ![l] = WithInfos(r, b, k)]
      BY <2>2 DEF sync
    <3>2. k \in 1..Len(builders[d][id].requests) /\ b.requests = builders[d][id].requests
      BY <2>2 DEF There, SameLegs
    <3>3. b.requests[k] = k /\ Len(builders[d][id].requests) = sent[id]
      BY <1>0, <3>2 DEF InStep, BuildersInOrder, Builder
    <3>4. k \in 1..MaxLegs /\ k <= sent[id]
      BY <1>0, <3>2, <3>3, NetworkConstants DEF NetworkTyped
    <3>5. l \in Legs /\ r.manager # NoDispatcher
      <4>1. l = <<id, k>> /\ l \in Legs
        BY <3>3, <3>4 DEF Legs
      <4>2. requests[<<id, k>>].manager # NoDispatcher
        BY <1>0, <3>4 DEF InStep, LegsInOrder
      <4> QED
        BY <4>1, <4>2
    <3>6. r \in Request
      BY <1>0, <3>5, Records
    <3>7. /\ WithInfos(r, b, k) \in Request /\ SameLeg(r, WithInfos(r, b, k))
          /\ Raw(r) => Raw(WithInfos(r, b, k))
      BY <3>6, WithInfosKeeps
    <3> HIDE DEF l
    <3>8. /\ requests' \in [Legs -> {NoRequest} \cup Request]
          /\ \A m \in Legs : requests'[m] = IF m = l THEN WithInfos(r, b, k) ELSE requests[m]
      BY <1>0, <3>1, <3>7
    <3> QED
      BY <3>5, <3>7, <3>8 DEF SameLeg
  <2> QED
    BY <2>1, <2>2
<1> QED
  BY <1>0, <1>2, <1>3, <1>4, QuietlyInStep

(* What is in step stays so while the back end's view of loads does.       *)
LEMMA InStepKept ==
  ASSUME NetworkInv, InStep(requests', requestsById', builders', inflight', done'),
         UNCHANGED <<home, sent>>,
         inflight' \in [Ids -> 0..MaxLegs], removed' \subseteq Dispatchers, done' \subseteq Ids,
         requestInfos' \in [Ids -> Seq(1..MaxLegs)], responseInfos' \in [Ids -> Seq(1..MaxLegs)]
  PROVE  NetworkInv'
<1>1. NetworkTyped'
  BY DEF NetworkInv, NetworkTyped, InStep, MapsTyped
<1>2. InStep(requests, requestsById, builders, inflight, done)'
  BY DEF InStep, MapsTyped, LegsInOrder, RawIsRaw, Raw, LastLegKnown, InflightKnown,
     BuildersInOrder,
         FirstKnows
<1> QED
  BY <1>1, <1>2 DEF NetworkInv

LEMMA InfoAppended ==
  ASSUME NEW b \in Builder, NEW k \in Nat
  PROVE  /\ [b EXCEPT !.requestInfo = Append(@, k)] \in Builder
         /\ [b EXCEPT !.responseInfo = Append(@, k)] \in Builder
         /\ SameLegs(b, [b EXCEPT !.requestInfo = Append(@, k)])
         /\ SameLegs(b, [b EXCEPT !.responseInfo = Append(@, k)])
<1>1. b.requestInfo \in Seq(Nat) /\ b.responseInfo \in Seq(Nat)
  BY DEF Builder
<1>2. Append(b.requestInfo, k) \in Seq(Nat) /\ Append(b.responseInfo, k) \in Seq(Nat)
  BY <1>1
<1>3. SameLegs(b, [b EXCEPT !.requestInfo = Append(@, k)])
  BY DEF Builder, SameLegs
<1>4. SameLegs(b, [b EXCEPT !.responseInfo = Append(@, k)])
  BY DEF Builder, SameLegs
<1>5. /\ [b EXCEPT !.requestInfo = Append(@, k)] \in Builder
      /\ [b EXCEPT !.responseInfo = Append(@, k)] \in Builder
  BY <1>2 DEF Builder
<1> QED
  BY <1>3, <1>4, <1>5

LEMMA ToldTyped ==
  ASSUME NEW legs \in [Ids -> Seq(1..MaxLegs)], NEW id \in Ids, NEW k \in 1..MaxLegs
  PROVE  [legs EXCEPT ![id] = Append(@, k)] \in [Ids -> Seq(1..MaxLegs)]
<1>1. Append(legs[id], k) \in Seq(1..MaxLegs)
  OBVIOUS
<1> QED
  BY <1>1

LEMMA ExtraInfoComes ==
  ASSUME NetworkInv, NEW id \in Ids, NEW k \in 1..MaxLegs,
         requestWillBeSentExtraInfo(id, k) \/ responseReceivedExtraInfo(id, k)
  PROVE  NetworkInv'
<1>0. /\ NetworkTyped /\ home[id] \in Dispatchers
      /\ requestInfos \in [Ids -> Seq(1..MaxLegs)] /\ responseInfos \in [Ids -> Seq(1..MaxLegs)]
      /\ builders[home[id]][id] \in Builder
  BY DEF NetworkInv, NetworkTyped, MapsTyped
<1> DEFINE b == builders[home[id]][id]
<1>1. b.requestInfo \in Seq(Nat) /\ b.responseInfo \in Seq(Nat) /\ k \in Nat
  BY <1>0 DEF Builder
<1>2. CASE requestWillBeSentExtraInfo(id, k)
  <2>2. sync(home[id], id, [b EXCEPT !.requestInfo = Append(@, k)], Len(b.requestInfo) + 1, requests)
    BY <1>2 DEF requestWillBeSentExtraInfo
  <2>3. /\ requestInfos' = [requestInfos EXCEPT ![id] = Append(@, k)]
        /\ UNCHANGED <<requestsById, inflight, removed, home, sent, responseInfos, done>>
    BY <1>2 DEF requestWillBeSentExtraInfo
  <2>4. InStep(requests', requestsById', builders', inflight', done')
    <3>1. Len(b.requestInfo) + 1 \in Nat
      BY <1>1
    <3>2. InStep(requests', requestsById, builders', inflight, done)
      BY <1>0, <1>1, <2>2, <3>1, InfoAppended, SyncInStep
    <3> QED
      BY <2>3, <3>2
  <2>5. requestInfos' \in [Ids -> Seq(1..MaxLegs)]
    BY <1>0, <2>3, ToldTyped
  <2> QED
    BY <1>0, <2>3, <2>4, <2>5, InStepKept DEF NetworkTyped
<1>3. CASE responseReceivedExtraInfo(id, k)
  <2>2. sync(home[id], id, [b EXCEPT !.responseInfo = Append(@, k)], Len(b.responseInfo) + 1, requests)
    BY <1>3 DEF responseReceivedExtraInfo
  <2>3. /\ responseInfos' = [responseInfos EXCEPT ![id] = Append(@, k)]
        /\ UNCHANGED <<requestsById, inflight, removed, home, sent, requestInfos, done>>
    BY <1>3 DEF responseReceivedExtraInfo
  <2>4. InStep(requests', requestsById', builders', inflight', done')
    <3>1. Len(b.responseInfo) + 1 \in Nat
      BY <1>1
    <3>2. InStep(requests', requestsById, builders', inflight, done)
      BY <1>0, <1>1, <2>2, <3>1, InfoAppended, SyncInStep
    <3> QED
      BY <2>3, <3>2
  <2>5. responseInfos' \in [Ids -> Seq(1..MaxLegs)]
    BY <1>0, <2>3, ToldTyped
  <2> QED
    BY <1>0, <2>3, <2>4, <2>5, InStepKept DEF NetworkTyped
<1> QED
  BY <1>2, <1>3

(* An interceptor's answer marks legs, and no more.                        *)
LEMMA Marked ==
  ASSUME NEW r \in Request
  PROVE  LET t == [r EXCEPT !.intercepted = TRUE] IN
         /\ t \in Request /\ SameLeg(r, t) /\ (Raw(r) => Raw(t))
         /\ t.requestInfo = r.requestInfo /\ t.responseInfo = r.responseInfo
BY DEF Request, SameLeg, Raw

LEMMA LegsAreMarked ==
  ASSUME NetworkInv, NEW id \in Ids, markAsIntercepted(id)
  PROVE  /\ UNCHANGED <<requestsById, builders, inflight, removed, backEnd>>
         /\ requests' \in [Legs -> {NoRequest} \cup Request]
         /\ \A l \in Legs : requests'[l].manager # NoDispatcher <=> requests[l].manager # NoDispatcher
         /\ \A l \in Legs : requests[l].manager # NoDispatcher =>
              SameLeg(requests[l], requests'[l]) /\ (Raw(requests[l]) => Raw(requests'[l]))
         /\ \A l \in Legs : /\ requests'[l].requestInfo = requests[l].requestInfo
                            /\ requests'[l].responseInfo = requests[l].responseInfo
<1> DEFINE K == {requestsById[d][id] : d \in Dispatchers} \ {0}
           t(l) == [requests[l] EXCEPT !.intercepted = TRUE]
<1>0. requests \in [Legs -> {NoRequest} \cup Request]
  BY DEF NetworkInv, NetworkTyped, MapsTyped
<1>1. requests' = [l \in Legs |-> IF l[1] = id /\ l[2] \in K THEN t(l) ELSE requests[l]]
  BY DEF markAsIntercepted
<1>2. UNCHANGED <<requestsById, builders, inflight, removed, backEnd>>
  BY DEF markAsIntercepted
<1>3. [NoRequest EXCEPT !.intercepted = TRUE] = NoRequest
  BY DEF NoRequest
<1> HIDE DEF K
<1>4. \A l \in Legs : requests'[l] = requests[l] \/ requests'[l] = t(l)
  BY <1>1
<1>5. ASSUME NEW l \in Legs
      PROVE  /\ requests'[l] \in {NoRequest} \cup Request
             /\ requests'[l].manager # NoDispatcher <=> requests[l].manager # NoDispatcher
             /\ requests[l].manager # NoDispatcher =>
                  SameLeg(requests[l], requests'[l]) /\ (Raw(requests[l]) => Raw(requests'[l]))
             /\ requests'[l].requestInfo = requests[l].requestInfo
             /\ requests'[l].responseInfo = requests[l].responseInfo
  <2>1. CASE requests'[l] = requests[l]
    BY <1>0, <2>1 DEF SameLeg
  <2>2. CASE requests[l] = NoRequest
    <3>1. requests'[l] = requests[l]
      BY <1>3, <1>4, <2>2
    <3> QED
      BY <2>1, <3>1
  <2>3. CASE requests[l] \in Request /\ requests'[l] = t(l)
    <3> DEFINE q == requests[l]
    <3>1. q \in Request /\ requests'[l] = [q EXCEPT !.intercepted = TRUE]
      BY <2>3
    <3> HIDE DEF q
    <3>2. /\ requests'[l] \in Request /\ SameLeg(q, requests'[l]) /\ (Raw(q) => Raw(requests'[l]))
          /\ requests'[l].requestInfo = q.requestInfo /\ requests'[l].responseInfo = q.responseInfo
      BY <3>1, Marked
    <3> QED
      BY <3>2 DEF q, SameLeg
  <2> QED
    BY <1>0, <1>4, <2>1, <2>2, <2>3
<1>6. requests' \in [Legs -> {NoRequest} \cup Request]
  <2>1. requests' = [l \in Legs |-> requests'[l]]
    BY <1>1
  <2> QED
    BY <1>5, <2>1
<1> QED
  BY <1>2, <1>5, <1>6

LEMMA Intercepted ==
  ASSUME NetworkInv, NEW id \in Ids, markAsIntercepted(id)
  PROVE  NetworkInv'
<1>0. /\ NetworkTyped /\ InStep(requests, requestsById, builders, inflight, done)
      /\ inflight \in [Ids -> 0..MaxLegs] /\ builders \in [Dispatchers -> [Ids -> Builder]]
  BY DEF NetworkInv, NetworkTyped, MapsTyped
<1>1. /\ UNCHANGED <<requestsById, builders, inflight, removed, backEnd>>
      /\ requests' \in [Legs -> {NoRequest} \cup Request]
      /\ \A l \in Legs : requests'[l].manager # NoDispatcher <=> requests[l].manager # NoDispatcher
      /\ \A l \in Legs : requests[l].manager # NoDispatcher =>
           SameLeg(requests[l], requests'[l]) /\ (Raw(requests[l]) => Raw(requests'[l]))
  BY LegsAreMarked
<1>2. \A d \in Dispatchers, j \in Ids : SameLegs(builders[d][j], builders[d][j])
  BY DEF SameLegs
<1>3. InStep(requests', requestsById, builders, inflight, done)
  BY <1>0, <1>1, <1>2, QuietlyInStep
<1>4. InStep(requests', requestsById', builders', inflight', done')
  BY <1>1, <1>3 DEF backEnd
<1> QED
  BY <1>0, <1>1, <1>4, InStepKept DEF backEnd, NetworkTyped

(* The last leg of a load that is over gets a bundle.                      *)
LEMMA BundleInStep ==
  ASSUME NetworkTyped, NEW rs, NEW byId, NEW bs, NEW fl, NEW dn, InStep(rs, byId, bs, fl, dn),
         NEW id \in Ids, sent[id] # 0, id \in dn, NEW v \in BOOLEAN, NEW rt,
         rt = [rs EXCEPT ![<<id, sent[id]>>].bundle = v]
  PROVE  InStep(rt, byId, bs, fl, dn)
<1> DEFINE l == <<id, sent[id]>>
<1>1. l \in Legs /\ rs[l] \in Request /\ rs \in [Legs -> {NoRequest} \cup Request]
  BY KnownLegExists DEF InStep, MapsTyped
<1>2. [rs[l] EXCEPT !.bundle = v] \in Request
  BY <1>1 DEF Request
<1> DEFINE s == [rs[l] EXCEPT !.bundle = v]
<1>3. /\ s.manager = rs[l].manager /\ s.source = rs[l].source /\ s.suffix = rs[l].suffix
      /\ s.finished = rs[l].finished /\ s.bundle = v
      /\ s.requestInfo = rs[l].requestInfo /\ s.responseInfo = rs[l].responseInfo
      /\ s.requestHeaders = rs[l].requestHeaders /\ s.responseHeaders = rs[l].responseHeaders
      /\ s.intercepted = rs[l].intercepted
  BY <1>1 DEF Request
<1>4. rt = [rs EXCEPT ![l] = s]
  BY <1>1
<1> HIDE DEF s
<1>5. /\ rt \in [Legs -> {NoRequest} \cup Request]
      /\ \A m \in Legs : rt[m] = IF m = l THEN s ELSE rs[m]
  <2> HIDE DEF l
  <2> QED
    BY <1>1, <1>2, <1>4 DEF s
<1>6. MapsTyped(rt, byId, bs)
  BY <1>5 DEF InStep, MapsTyped
<1>7. ASSUME NEW j \in Ids, NEW k \in 1..MaxLegs
      PROVE  /\ rt[<<j, k>>].manager = rs[<<j, k>>].manager
             /\ rt[<<j, k>>].source = rs[<<j, k>>].source
             /\ rt[<<j, k>>].suffix = rs[<<j, k>>].suffix
             /\ <<j, k>> # l => rt[<<j, k>>] = rs[<<j, k>>]
  <2>1. <<j, k>> \in Legs
    BY DEF Legs
  <2> QED
    BY <1>3, <1>5, <2>1
<1>8. LegsInOrder(rt, dn)
  <2> SUFFICES ASSUME NEW j \in Ids, NEW k \in 1..MaxLegs
               PROVE /\ rt[<<j, k>>].manager # NoDispatcher <=> k <= sent[j]
                     /\ k <= sent[j] =>
                         /\ rt[<<j, k>>].source = k - 1
                         /\ rt[<<j, k>>].suffix = IF k < sent[j] THEN k - 1 ELSE -1
                         /\ k < sent[j] => rt[<<j, k>>].finished
                         /\ rt[<<j, k>>].bundle => k = sent[j] /\ j \in dn
                         /\ k = sent[j] /\ rt[<<j, k>>].finished => j \in dn
    BY DEF LegsInOrder
  <2>1. rt[<<j, k>>].finished = rs[<<j, k>>].finished
    <3>1. <<j, k>> \in Legs
      BY DEF Legs
    <3> QED
      BY <1>3, <1>5, <3>1
  <2>2. <<j, k>> # l => rt[<<j, k>>].bundle = rs[<<j, k>>].bundle
    BY <1>7
  <2>3. <<j, k>> = l => j = id /\ k = sent[j]
    OBVIOUS
  <2>4. /\ rs[<<j, k>>].manager # NoDispatcher <=> k <= sent[j]
        /\ k <= sent[j] =>
            /\ rs[<<j, k>>].source = k - 1
            /\ rs[<<j, k>>].suffix = IF k < sent[j] THEN k - 1 ELSE -1
            /\ k < sent[j] => rs[<<j, k>>].finished
            /\ rs[<<j, k>>].bundle => k = sent[j] /\ j \in dn
            /\ k = sent[j] /\ rs[<<j, k>>].finished => j \in dn
    BY DEF InStep, LegsInOrder
  <2>5. /\ rt[<<j, k>>].manager # NoDispatcher <=> k <= sent[j]
        /\ k <= sent[j] =>
            /\ rt[<<j, k>>].source = k - 1
            /\ rt[<<j, k>>].suffix = IF k < sent[j] THEN k - 1 ELSE -1
    BY <1>7, <2>4
  <2>6. k <= sent[j] => /\ k < sent[j] => rt[<<j, k>>].finished
                        /\ k = sent[j] /\ rt[<<j, k>>].finished => j \in dn
    BY <2>1, <2>4
  <2>7. k <= sent[j] => (rt[<<j, k>>].bundle => k = sent[j] /\ j \in dn)
    <3> HIDE DEF l
    <3> QED
      BY <2>2, <2>3, <2>4
  <2> QED
    BY <2>5, <2>6, <2>7
<1>9. RawIsRaw(rt)
  <2>1. \A m \in Legs : rt[m].manager = rs[m].manager
    BY <1>3, <1>5
  <2>2. Raw(rs[l]) <=> Raw(s)
    BY <1>3 DEF Raw
  <2> HIDE DEF l
  <2> QED
    BY <1>5, <2>1, <2>2 DEF InStep, RawIsRaw
<1>10. ASSUME NEW j \in Ids, sent[j] # 0
       PROVE  /\ rt[<<j, sent[j]>>].manager = rs[<<j, sent[j]>>].manager
              /\ rt[<<j, sent[j]>>].finished = rs[<<j, sent[j]>>].finished
  <2>1. <<j, sent[j]>> \in Legs
    BY <1>10, KnownLegExists
  <2> QED
    BY <1>3, <1>5, <2>1
<1>11. LastLegKnown(rt, byId)
  BY <1>10 DEF InStep, LastLegKnown
<1>12. InflightKnown(rt, byId, fl)
  BY <1>10 DEF InStep, InflightKnown
<1>13. BuildersInOrder(byId, bs, dn)
  BY DEF InStep
<1>14. FirstKnows(rt, byId, bs, dn)
  BY <1>7 DEF InStep, FirstKnows
<1> QED
  BY <1>6, <1>8, <1>9, <1>11, <1>12, <1>13, <1>14 DEF InStep

LEMMA ResponseReceived ==
  ASSUME NetworkInv, NEW id \in Ids, responseReceived(id)
  PROVE  NetworkInv'
<1> DEFINE k == requestsById[home[id]][id]
           l == <<id, k>>
           r == requests[l]
<1>0. /\ NetworkTyped /\ InStep(requests, requestsById, builders, inflight, done)
      /\ requests \in [Legs -> {NoRequest} \cup Request]
      /\ builders \in [Dispatchers -> [Ids -> Builder]]
      /\ inflight \in [Ids -> 0..MaxLegs] /\ home[id] \in Dispatchers
  BY DEF NetworkInv, NetworkTyped, MapsTyped
<1>1. /\ k # 0 /\ requests' = [requests EXCEPT ![l] = Responded(r)]
      /\ UNCHANGED <<requestsById, builders, inflight, removed, backEnd>>
  BY DEF responseReceived
<1>2. l \in Legs /\ r \in Request
  <2>1. k = sent[id] /\ sent[id] # 0
    BY <1>0, <1>1 DEF InStep, LastLegKnown
  <2> QED
    BY <1>0, <2>1, KnownLegExists
<1>3. /\ Responded(r) \in Request /\ SameLeg(r, Responded(r)) /\ (Raw(r) => Raw(Responded(r)))
  BY <1>2, RespondedKeeps
<1> HIDE DEF l
<1>4. /\ requests' \in [Legs -> {NoRequest} \cup Request]
      /\ \A m \in Legs : requests'[m] = IF m = l THEN Responded(r) ELSE requests[m]
  BY <1>0, <1>1, <1>3
<1>5. \A m \in Legs : requests'[m].manager # NoDispatcher <=> requests[m].manager # NoDispatcher
  BY <1>2, <1>3, <1>4, Records
<1>6. \A m \in Legs : requests[m].manager # NoDispatcher =>
        SameLeg(requests[m], requests'[m]) /\ (Raw(requests[m]) => Raw(requests'[m]))
  BY <1>3, <1>4 DEF SameLeg
<1>7. \A d \in Dispatchers, j \in Ids : SameLegs(builders[d][j], builders[d][j])
  BY DEF SameLegs
<1>8. InStep(requests', requestsById, builders, inflight, done)
  BY <1>0, <1>4, <1>5, <1>6, <1>7, QuietlyInStep
<1> QED
  BY <1>0, <1>1, <1>8, InStepKept DEF backEnd, NetworkTyped

(* The web bundle, which the final request shows.                          *)
LEMMA WebBundle ==
  ASSUME NetworkInv, NEW id \in Ids, webBundle(id)
  PROVE  NetworkInv'
<1> DEFINE d == home[id]
           b == builders[d][id]
           c == [b EXCEPT !.bundle = TRUE]
           l == <<id, b.requests[Len(b.requests)]>>
<1>0. /\ NetworkTyped /\ InStep(requests, requestsById, builders, inflight, done)
      /\ requests \in [Legs -> {NoRequest} \cup Request]
      /\ builders \in [Dispatchers -> [Ids -> Builder]]
      /\ inflight \in [Ids -> 0..MaxLegs] /\ d \in Dispatchers /\ b \in Builder
  BY DEF NetworkInv, NetworkTyped, MapsTyped
<1>1. /\ builders' = [builders EXCEPT ![d][id] = c]
      /\ requests' = IF hasFinal(c) THEN [requests EXCEPT ![l].bundle = TRUE] ELSE requests
      /\ UNCHANGED <<requestsById, inflight, removed, backEnd>>
  BY <1>0 DEF webBundle, updateFinal, Builder
<1>2. c \in Builder /\ SameLegs(b, c)
  BY <1>0 DEF Builder, SameLegs
<1>3. builders' \in [Dispatchers -> [Ids -> Builder]]
  BY <1>0, <1>1, <1>2
<1>4. ASSUME NEW e \in Dispatchers, NEW j \in Ids
      PROVE  SameLegs(builders[e][j], builders'[e][j])
  <2>1. builders'[e][j] = IF e = d /\ j = id THEN c ELSE builders[e][j]
    BY <1>0, <1>1
  <2> QED
    BY <1>2, <2>1 DEF SameLegs
<1>5. \A e \in Dispatchers, j \in Ids : SameLegs(builders[e][j], builders[e][j])
  BY DEF SameLegs
<1>6. InStep(requests, requestsById, builders', inflight, done)
  BY <1>0, <1>3, <1>4, QuietlyInStep DEF SameLeg
<1>7. InStep(requests', requestsById, builders', inflight, done)
  <2>1. CASE ~hasFinal(c)
    BY <1>1, <1>6, <2>1
  <2>2. CASE hasFinal(c)
    <3>1. b.finished /\ b.requests # <<>> /\ b.requests \in Seq(Nat)
      BY <1>0, <1>2, <2>2 DEF hasFinal, SameLegs, Builder
    <3>2. Len(b.requests) = sent[id] /\ id \in done /\ sent[id] # 0
      BY <1>0, <3>1 DEF InStep, BuildersInOrder
    <3>3. Len(b.requests) \in 1..Len(b.requests)
      BY <3>1
    <3>4. b.requests[Len(b.requests)] = Len(b.requests)
      BY <1>0, <3>3 DEF InStep, BuildersInOrder
    <3>5. l = <<id, sent[id]>>
      BY <3>2, <3>4
    <3>6. l \in Legs /\ requests[l] \in Request
      BY <1>0, <3>2, <3>5, KnownLegExists
    <3>7. requests' = [requests EXCEPT ![l].bundle = TRUE]
      BY <1>1, <2>2
    <3> HIDE DEF l
    <3> QED
      BY <1>6, <3>2, <3>5, <3>6, <3>7, <1>0, BundleInStep
  <2> QED
    BY <2>1, <2>2
<1> QED
  BY <1>0, <1>1, <1>7, InStepKept DEF backEnd, NetworkTyped

(* What is in step stays so when more loads are over.                      *)
LEMMA DoneInStep ==
  ASSUME NEW rs, NEW byId, NEW bs, NEW fl, NEW dn, InStep(rs, byId, bs, fl, dn),
         NEW id \in Ids
  PROVE  InStep(rs, byId, bs, fl, dn \cup {id})
<1>1. LegsInOrder(rs, dn \cup {id})
  BY DEF InStep, LegsInOrder
<1>2. BuildersInOrder(byId, bs, dn \cup {id})
  BY DEF InStep, BuildersInOrder
<1>3. FirstKnows(rs, byId, bs, dn \cup {id})
  BY DEF InStep, FirstKnows
<1> QED
  BY <1>1, <1>2, <1>3 DEF InStep

(* Another dispatcher adopts the request of a navigation in flight.        *)
LEMMA Adopted ==
  ASSUME NetworkInv, NEW id \in Ids, id \notin done
  PROVE  InStep(RequestsAfter(home[id], id), ByIdAfter(home[id], id),
                BuildersAfter(home[id], id), inflight, done)
<1> DEFINE d == home[id]
           k == sent[id]
           l == <<id, k>>
           old == requests[l].manager
           rt == RequestsAfter(d, id)
           byId == ByIdAfter(d, id)
           bt == BuildersAfter(d, id)
<1>0. /\ NetworkTyped /\ InStep(requests, requestsById, builders, inflight, done)
      /\ MapsTyped(requests, requestsById, builders) /\ d \in Dispatchers
  BY DEF NetworkInv, NetworkTyped
<1>1. CASE ~adopts(d, id)
  BY <1>0, <1>1 DEF RequestsAfter, ByIdAfter, BuildersAfter
<1>2. CASE adopts(d, id)
  <2>1. /\ requestsById[d][id] = 0 /\ inflight[id] = k /\ k # 0
        /\ requestsById[old][id] = k
    BY <1>0, <1>2 DEF adopts, InStep, InflightKnown
  <2>2. /\ l \in Legs /\ requests[l] \in Request /\ old \in Dispatchers /\ old # d
        /\ k \in 1..MaxLegs
    BY <1>0, <2>1, KnownLegExists, Records
  <2>3. home[id] # first
    BY <1>0, <2>1, <2>2 DEF InStep, FirstKnows
  <2>4. builders[old][id].requests # <<>> /\ builders[old][id] # NoBuilder
    BY <1>0, <2>1, <2>2, NoBuilderIsOne DEF InStep, BuildersInOrder
  <2>5. /\ rt = [requests EXCEPT ![l].manager = d]
        /\ byId = [requestsById EXCEPT ![old][id] = 0, ![d][id] = k]
        /\ bt = [builders EXCEPT ![d][id] = builders[old][id], ![old][id] = NoBuilder]
    BY <1>2, <2>1, <2>4 DEF RequestsAfter, ByIdAfter, BuildersAfter
  <2> DEFINE s == [requests[l] EXCEPT !.manager = d]
  <2>6. /\ s \in Request /\ s.manager = d /\ s.source = requests[l].source
        /\ s.suffix = requests[l].suffix /\ s.finished = requests[l].finished
        /\ s.bundle = requests[l].bundle /\ (Raw(requests[l]) <=> Raw(s))
    <3>1. s \in Request
      BY <1>0, <2>2 DEF Request
    <3>2. /\ s.manager = d /\ s.source = requests[l].source
          /\ s.suffix = requests[l].suffix /\ s.finished = requests[l].finished
          /\ s.bundle = requests[l].bundle
      BY <2>2 DEF Request
    <3>3. Raw(requests[l]) <=> Raw(s)
      BY <2>2 DEF Request, Raw
    <3> QED
      BY <3>1, <3>2, <3>3
  <2>7. /\ rt \in [Legs -> {NoRequest} \cup Request]
        /\ \A m \in Legs : rt[m] = IF m = l THEN s ELSE requests[m]
    <3>1. rt = [requests EXCEPT ![l] = s]
      BY <2>5
    <3> HIDE DEF l, s, rt
    <3> QED
      BY <1>0, <2>6, <3>1 DEF MapsTyped
  <2>8. /\ byId \in [Dispatchers -> [Ids -> 0..MaxLegs]]
        /\ \A e \in Dispatchers, j \in Ids : byId[e][j] =
             IF j # id THEN requestsById[e][j]
             ELSE IF e = d THEN k ELSE IF e = old THEN 0 ELSE requestsById[e][j]
    <3>1. 0 \in 0..MaxLegs /\ k \in 0..MaxLegs
      BY <2>2, NetworkConstants
    <3> HIDE DEF l, k, old, d, byId
    <3> QED
      BY <1>0, <2>2, <2>5, <3>1 DEF MapsTyped
  <2>9. /\ bt \in [Dispatchers -> [Ids -> Builder]]
        /\ \A e \in Dispatchers, j \in Ids : bt[e][j] =
             IF j # id THEN builders[e][j]
             ELSE IF e = d THEN builders[old][id] ELSE IF e = old THEN NoBuilder ELSE builders[e][j]
    <3> DEFINE c == builders[old][id]
    <3>1. c \in Builder /\ NoBuilder \in Builder
      BY <1>0, <2>2, NoBuilderIsOne DEF MapsTyped
    <3>2. bt = [builders EXCEPT ![d][id] = c, ![old][id] = NoBuilder]
      BY <2>5
    <3>3. builders \in [Dispatchers -> [Ids -> Builder]]
      BY <1>0 DEF MapsTyped
    <3> HIDE DEF l, k, old, d, bt, c
    <3>4. /\ bt \in [Dispatchers -> [Ids -> Builder]]
          /\ \A e \in Dispatchers, j \in Ids : bt[e][j] =
               IF j # id THEN builders[e][j]
               ELSE IF e = d THEN c ELSE IF e = old THEN NoBuilder ELSE builders[e][j]
      BY <1>0, <2>2, <3>1, <3>2, <3>3
    <3> QED
      BY <3>4 DEF c
  <2> HIDE DEF s, rt, byId, bt
  <2>10. MapsTyped(rt, byId, bt)
    BY <2>7, <2>8, <2>9 DEF MapsTyped
  <2>11. ASSUME NEW m \in Legs
         PROVE  /\ rt[m].manager # NoDispatcher <=> requests[m].manager # NoDispatcher
                /\ rt[m].source = requests[m].source /\ rt[m].suffix = requests[m].suffix
                /\ rt[m].finished = requests[m].finished /\ rt[m].bundle = requests[m].bundle
                /\ m # l => rt[m].manager = requests[m].manager
    <3> HIDE DEF l
    <3>1. rt[m].manager # NoDispatcher <=> requests[m].manager # NoDispatcher
      BY <1>0, <2>2, <2>6, <2>7, Records
    <3> QED
      BY <2>6, <2>7, <3>1
  <2>12. LegsInOrder(rt, done)
    <3> SUFFICES ASSUME NEW j \in Ids, NEW n \in 1..MaxLegs
                 PROVE /\ rt[<<j, n>>].manager # NoDispatcher <=> n <= sent[j]
                       /\ n <= sent[j] =>
                           /\ rt[<<j, n>>].source = n - 1
                           /\ rt[<<j, n>>].suffix = IF n < sent[j] THEN n - 1 ELSE -1
                           /\ n < sent[j] => rt[<<j, n>>].finished
                           /\ rt[<<j, n>>].bundle => n = sent[j] /\ j \in done
                           /\ n = sent[j] /\ rt[<<j, n>>].finished => j \in done
      BY DEF LegsInOrder
    <3>1. <<j, n>> \in Legs
      BY DEF Legs
    <3>2. /\ requests[<<j, n>>].manager # NoDispatcher <=> n <= sent[j]
          /\ n <= sent[j] =>
              /\ requests[<<j, n>>].source = n - 1
              /\ requests[<<j, n>>].suffix = IF n < sent[j] THEN n - 1 ELSE -1
              /\ n < sent[j] => requests[<<j, n>>].finished
              /\ requests[<<j, n>>].bundle => n = sent[j] /\ j \in done
              /\ n = sent[j] /\ requests[<<j, n>>].finished => j \in done
      BY <1>0 DEF InStep, LegsInOrder
    <3>3. /\ rt[<<j, n>>].manager # NoDispatcher <=> n <= sent[j]
          /\ n <= sent[j] =>
              /\ rt[<<j, n>>].source = n - 1
              /\ rt[<<j, n>>].suffix = IF n < sent[j] THEN n - 1 ELSE -1
      BY <2>11, <3>1, <3>2
    <3>4. rt[<<j, n>>].finished = requests[<<j, n>>].finished
      BY <2>11, <3>1
    <3>5. rt[<<j, n>>].bundle = requests[<<j, n>>].bundle
      BY <2>11, <3>1
    <3> QED
      BY <3>2, <3>3, <3>4, <3>5
  <2>13. RawIsRaw(rt)
    <3> HIDE DEF l
    <3> QED
      BY <1>0, <2>2, <2>6, <2>7, <2>11 DEF InStep, RawIsRaw
  <2>14. ASSUME NEW j \in Ids, j # id, sent[j] # 0
         PROVE  rt[<<j, sent[j]>>] = requests[<<j, sent[j]>>]
    <3>1. <<j, sent[j]>> \in Legs /\ <<j, sent[j]>> # l
      BY <1>0, <2>14, KnownLegExists
    <3> QED
      BY <2>7, <3>1
  <2>15. rt[l] = s
    BY <2>2, <2>7
  <2>16. LastLegKnown(rt, byId)
    <3> SUFFICES ASSUME NEW e \in Dispatchers, NEW j \in Ids, byId[e][j] # 0
                 PROVE  byId[e][j] = sent[j] /\ rt[<<j, sent[j]>>].manager = e
      BY DEF LastLegKnown
    <3>1. CASE j = id
      <4>1. e = d \/ (e # old /\ requestsById[e][id] # 0)
        BY <2>8, <3>1
      <4>2. e = d
        BY <1>0, <4>1 DEF InStep, LastLegKnown
      <4> QED
        BY <2>6, <2>8, <2>15, <3>1, <4>2
    <3>2. CASE j # id
      <4>1. byId[e][j] = requestsById[e][j]
        BY <2>8, <3>2
      <4>2. requestsById[e][j] = sent[j] /\ requests[<<j, sent[j]>>].manager = e
        BY <1>0, <4>1 DEF InStep, LastLegKnown
      <4> QED
        BY <2>14, <3>2, <4>1, <4>2
    <3> QED
      BY <3>1, <3>2
  <2>17. InflightKnown(rt, byId, inflight)
    <3> SUFFICES ASSUME NEW j \in Ids, inflight[j] # 0
                 PROVE  /\ j \in Main /\ inflight[j] = sent[j] /\ ~rt[<<j, sent[j]>>].finished
                        /\ byId[rt[<<j, sent[j]>>].manager][j] = sent[j]
      BY DEF InflightKnown
    <3>1. /\ j \in Main /\ inflight[j] = sent[j] /\ ~requests[<<j, sent[j]>>].finished
          /\ requestsById[requests[<<j, sent[j]>>].manager][j] = sent[j]
      BY <1>0 DEF InStep, InflightKnown
    <3>2. CASE j = id
      <4>1. byId[d][id] = k /\ s.manager = d
        BY <1>0, <2>6, <2>8
      <4>2. ~s.finished
        BY <2>6, <3>1, <3>2
      <4> QED
        BY <2>15, <3>1, <3>2, <4>1, <4>2
    <3>3. CASE j # id
      <4>1. rt[<<j, sent[j]>>] = requests[<<j, sent[j]>>]
        BY <2>14, <3>1, <3>3
      <4>2. requests[<<j, sent[j]>>] \in Request
        BY <1>0, <3>1, KnownLegExists
      <4>3. requests[<<j, sent[j]>>].manager \in Dispatchers
        BY <4>2, Records
      <4> QED
        BY <2>8, <3>1, <3>3, <4>1, <4>3
    <3> QED
      BY <3>2, <3>3
  <2>18. BuildersInOrder(byId, bt, done)
    <3> SUFFICES ASSUME NEW e \in Dispatchers, NEW j \in Ids, NEW c, c = bt[e][j]
                 PROVE  /\ c.requests # <<>> => Len(c.requests) = sent[j]
                        /\ \A i \in 1..Len(c.requests) : c.requests[i] = i
                        /\ c.finished => j \in done
                        /\ j \notin done /\ byId[e][j] # 0 => c.requests # <<>>
      BY DEF BuildersInOrder
    <3>1. CASE j = id /\ e = d
      <4>1. c = builders[old][id]
        BY <2>9, <3>1
      <4> QED
        BY <1>0, <2>2, <2>4, <3>1, <4>1 DEF InStep, BuildersInOrder
    <3>2. CASE j = id /\ e = old
      <4>1. c = NoBuilder /\ byId[e][j] = 0
        BY <2>2, <2>8, <2>9, <3>2
      <4> QED
        BY <4>1, NoBuilderIsOne
    <3>3. CASE j # id \/ (e # d /\ e # old)
      <4>1. c = builders[e][j] /\ byId[e][j] = requestsById[e][j]
        BY <2>8, <2>9, <3>3
      <4> QED
        BY <1>0, <4>1 DEF InStep, BuildersInOrder
    <3> QED
      BY <3>1, <3>2, <3>3
  <2>19. FirstKnows(rt, byId, bt, done)
    <3> SUFFICES ASSUME NEW j \in Ids, home[j] = first
                 PROVE  /\ j \notin done => byId[first][j] = sent[j]
                        /\ \A n \in 1..MaxLegs : n <= sent[j] => rt[<<j, n>>].manager = first
                        /\ \A e \in Dispatchers \ {first} : bt[e][j].requests = <<>>
      BY DEF FirstKnows
    <3>1. j # id
      BY <2>3
    <3>2. /\ j \notin done => requestsById[first][j] = sent[j]
          /\ \A n \in 1..MaxLegs : n <= sent[j] => requests[<<j, n>>].manager = first
          /\ \A e \in Dispatchers \ {first} : builders[e][j].requests = <<>>
      BY <1>0 DEF InStep, FirstKnows
    <3>3. \A n \in 1..MaxLegs : <<j, n>> \in Legs /\ <<j, n>> # l
      BY <3>1 DEF Legs
    <3>4. \A n \in 1..MaxLegs : rt[<<j, n>>].manager = requests[<<j, n>>].manager
      BY <2>11, <3>3
    <3> QED
      BY <2>8, <2>9, <3>1, <3>2, <3>4, NetworkConstants
  <2> QED
    BY <2>10, <2>12, <2>13, <2>16, <2>17, <2>18, <2>19 DEF InStep, rt, byId, bt
<1> QED
  BY <1>1, <1>2

LEMMA DataReceived ==
  ASSUME NetworkInv, NEW id \in Ids, dataReceived(id)
  PROVE  NetworkInv'
<1>1. /\ id \notin done /\ requestsById' = ByIdAfter(home[id], id)
      /\ builders' = BuildersAfter(home[id], id) /\ requests' = RequestsAfter(home[id], id)
      /\ UNCHANGED <<inflight, removed, backEnd>>
  BY DEF dataReceived
<1>2. InStep(requests', requestsById', builders', inflight, done)
  BY <1>1, Adopted
<1> QED
  BY <1>1, <1>2, InStepKept DEF backEnd, NetworkInv, NetworkTyped

(* The last leg of a load is over, for the dispatcher that knows it.       *)
LEMMA OverInStep ==
  ASSUME NetworkTyped, NEW rs, NEW byId, NEW bs, NEW fl \in [Ids -> 0..MaxLegs], NEW dn,
         InStep(rs, byId, bs, fl, dn),
         NEW d \in Dispatchers, NEW id \in Ids, id \in dn, byId[d][id] # 0,
         NEW rt, rt = [rs EXCEPT ![<<id, sent[id]>>].finished = TRUE],
         NEW bt, bt = [bs EXCEPT ![d][id] = [bs[d][id] EXCEPT !.finished = TRUE]]
  PROVE  InStep(rt, byId, bt, [fl EXCEPT ![id] = 0], dn)
<1> DEFINE l == <<id, sent[id]>>
           s == [rs[l] EXCEPT !.finished = TRUE]
           c == [bs[d][id] EXCEPT !.finished = TRUE]
           ft == [fl EXCEPT ![id] = 0]
<1>1. sent[id] # 0 /\ rs[l].manager = d
  BY DEF InStep, LastLegKnown
<1>2. /\ l \in Legs /\ rs[l] \in Request /\ sent[id] \in 1..MaxLegs
  BY <1>1, KnownLegExists
<1>3. /\ rs \in [Legs -> {NoRequest} \cup Request]
      /\ bs \in [Dispatchers -> [Ids -> Builder]]
  BY DEF InStep, MapsTyped
<1>4. /\ s \in Request /\ s.manager = rs[l].manager /\ s.source = rs[l].source
      /\ s.suffix = rs[l].suffix /\ s.finished /\ s.bundle = rs[l].bundle
      /\ Raw(rs[l]) => Raw(s)
  <2>1. s \in Request /\ s.finished
    BY <1>2 DEF Request
  <2>2. /\ s.manager = rs[l].manager /\ s.source = rs[l].source
        /\ s.suffix = rs[l].suffix /\ s.bundle = rs[l].bundle
    BY <1>2 DEF Request
  <2>3. Raw(rs[l]) => Raw(s)
    BY <1>2 DEF Request, Raw
  <2> QED
    BY <2>1, <2>2, <2>3
<1>5. /\ rt \in [Legs -> {NoRequest} \cup Request]
      /\ \A m \in Legs : rt[m] = IF m = l THEN s ELSE rs[m]
  <2>1. rt = [rs EXCEPT ![l] = s]
    OBVIOUS
  <2> HIDE DEF l, s
  <2> QED
    BY <1>3, <1>4, <2>1
<1>6. c \in Builder /\ c.requests = bs[d][id].requests
  <2>1. bs[d][id] \in Builder
    BY <1>3
  <2> QED
    BY <2>1 DEF Builder
<1> HIDE DEF s, c
<1>7. /\ bt \in [Dispatchers -> [Ids -> Builder]]
      /\ \A e \in Dispatchers, j \in Ids : bt[e][j] = IF e = d /\ j = id THEN c ELSE bs[e][j]
  BY <1>3, <1>6 DEF c
<1>8. MapsTyped(rt, byId, bt)
  BY <1>5, <1>7 DEF InStep, MapsTyped
<1>9. ASSUME NEW m \in Legs
      PROVE  /\ rt[m].manager = rs[m].manager /\ rt[m].source = rs[m].source
             /\ rt[m].suffix = rs[m].suffix /\ rt[m].bundle = rs[m].bundle
  BY <1>4, <1>5
<1>10. LegsInOrder(rt, dn)
  <2> SUFFICES ASSUME NEW j \in Ids, NEW n \in 1..MaxLegs
               PROVE /\ rt[<<j, n>>].manager # NoDispatcher <=> n <= sent[j]
                     /\ n <= sent[j] =>
                         /\ rt[<<j, n>>].source = n - 1
                         /\ rt[<<j, n>>].suffix = IF n < sent[j] THEN n - 1 ELSE -1
                         /\ n < sent[j] => rt[<<j, n>>].finished
                         /\ rt[<<j, n>>].bundle => n = sent[j] /\ j \in dn
                         /\ n = sent[j] /\ rt[<<j, n>>].finished => j \in dn
    BY DEF LegsInOrder
  <2>1. <<j, n>> \in Legs
    BY DEF Legs
  <2>2. /\ rs[<<j, n>>].manager # NoDispatcher <=> n <= sent[j]
        /\ n <= sent[j] =>
            /\ rs[<<j, n>>].source = n - 1
            /\ rs[<<j, n>>].suffix = IF n < sent[j] THEN n - 1 ELSE -1
            /\ n < sent[j] => rs[<<j, n>>].finished
            /\ rs[<<j, n>>].bundle => n = sent[j] /\ j \in dn
            /\ n = sent[j] /\ rs[<<j, n>>].finished => j \in dn
    BY DEF InStep, LegsInOrder
  <2>3. /\ rt[<<j, n>>].manager # NoDispatcher <=> n <= sent[j]
        /\ n <= sent[j] =>
            /\ rt[<<j, n>>].source = n - 1
            /\ rt[<<j, n>>].suffix = IF n < sent[j] THEN n - 1 ELSE -1
    BY <1>9, <2>1, <2>2
  <2>4. rt[<<j, n>>].bundle = rs[<<j, n>>].bundle
    BY <1>9, <2>1
  <2>5. n <= sent[j] => /\ n < sent[j] => rt[<<j, n>>].finished
                        /\ n = sent[j] /\ rt[<<j, n>>].finished => j \in dn
    <3>1. CASE <<j, n>> = l
      <4>1. j = id /\ rt[<<j, n>>].finished
        BY <1>2, <1>4, <1>5, <3>1
      <4> QED
        BY <4>1
    <3>2. CASE <<j, n>> # l
      <4>1. rt[<<j, n>>] = rs[<<j, n>>]
        BY <1>5, <2>1, <3>2
      <4> QED
        BY <2>2, <4>1
    <3> QED
      BY <3>1, <3>2
  <2> QED
    BY <2>2, <2>3, <2>4, <2>5
<1>11. RawIsRaw(rt)
  <2> HIDE DEF l
  <2> QED
    BY <1>2, <1>4, <1>5, <1>9 DEF InStep, RawIsRaw
<1>12. ASSUME NEW j \in Ids, sent[j] # 0
       PROVE  /\ rt[<<j, sent[j]>>].manager = rs[<<j, sent[j]>>].manager
              /\ j # id => rt[<<j, sent[j]>>] = rs[<<j, sent[j]>>]
  <2>1. <<j, sent[j]>> \in Legs
    BY <1>12, KnownLegExists
  <2> QED
    BY <1>5, <1>9, <2>1
<1>13. LastLegKnown(rt, byId)
  BY <1>12 DEF InStep, LastLegKnown
<1>14. InflightKnown(rt, byId, ft)
  <2> SUFFICES ASSUME NEW j \in Ids, ft[j] # 0
               PROVE  /\ j \in Main /\ ft[j] = sent[j] /\ ~rt[<<j, sent[j]>>].finished
                      /\ byId[rt[<<j, sent[j]>>].manager][j] = sent[j]
    BY DEF InflightKnown
  <2>1. j # id /\ ft[j] = fl[j]
    OBVIOUS
  <2>2. /\ j \in Main /\ fl[j] = sent[j] /\ ~rs[<<j, sent[j]>>].finished
        /\ byId[rs[<<j, sent[j]>>].manager][j] = sent[j]
    BY <2>1 DEF InStep, InflightKnown
  <2>3. rt[<<j, sent[j]>>] = rs[<<j, sent[j]>>]
    BY <1>12, <2>1, <2>2
  <2> QED
    BY <2>1, <2>2, <2>3
<1>15. BuildersInOrder(byId, bt, dn)
  <2> SUFFICES ASSUME NEW e \in Dispatchers, NEW j \in Ids
               PROVE  /\ bt[e][j].requests # <<>> => Len(bt[e][j].requests) = sent[j]
                      /\ \A i \in 1..Len(bt[e][j].requests) : bt[e][j].requests[i] = i
                      /\ bt[e][j].finished => j \in dn
                      /\ j \notin dn /\ byId[e][j] # 0 => bt[e][j].requests # <<>>
    BY DEF BuildersInOrder
  <2>1. bt[e][j].requests = bs[e][j].requests
    BY <1>6, <1>7
  <2>2. j # id => bt[e][j] = bs[e][j]
    BY <1>7
  <2>3. /\ bs[e][j].requests # <<>> => Len(bs[e][j].requests) = sent[j]
        /\ \A i \in 1..Len(bs[e][j].requests) : bs[e][j].requests[i] = i
        /\ bs[e][j].finished => j \in dn
        /\ j \notin dn /\ byId[e][j] # 0 => bs[e][j].requests # <<>>
    BY DEF InStep, BuildersInOrder
  <2>4. bt[e][j].finished => j \in dn
    BY <2>2, <2>3
  <2> QED
    BY <2>1, <2>3, <2>4
<1>16. FirstKnows(rt, byId, bt, dn)
  <2> SUFFICES ASSUME NEW j \in Ids, home[j] = first
               PROVE  /\ j \notin dn => byId[first][j] = sent[j]
                      /\ \A n \in 1..MaxLegs : n <= sent[j] => rt[<<j, n>>].manager = first
                      /\ \A e \in Dispatchers \ {first} : bt[e][j].requests = <<>>
    BY DEF FirstKnows
  <2>1. /\ j \notin dn => byId[first][j] = sent[j]
        /\ \A n \in 1..MaxLegs : n <= sent[j] => rs[<<j, n>>].manager = first
        /\ \A e \in Dispatchers \ {first} : bs[e][j].requests = <<>>
    BY DEF InStep, FirstKnows
  <2>2. \A n \in 1..MaxLegs : <<j, n>> \in Legs
    BY DEF Legs
  <2>3. \A e \in Dispatchers : bt[e][j].requests = bs[e][j].requests
    BY <1>6, <1>7
  <2> QED
    BY <1>9, <2>1, <2>2, <2>3
<1> QED
  BY <1>8, <1>10, <1>11, <1>13, <1>14, <1>15, <1>16 DEF InStep

LEMMA LoadingOver ==
  ASSUME NetworkInv, NEW id \in Ids, NEW mayAdopt \in BOOLEAN, loadingOver(id, mayAdopt)
  PROVE  NetworkInv'
<1> DEFINE d == home[id]
           byId == IF mayAdopt THEN ByIdAfter(d, id) ELSE requestsById
           bs == IF mayAdopt THEN BuildersAfter(d, id) ELSE builders
           rs == IF mayAdopt THEN RequestsAfter(d, id) ELSE requests
           k == byId[d][id]
           b == [bs[d][id] EXCEPT !.finished = TRUE]
           dn == done \cup {id}
<1>0. /\ NetworkTyped /\ InStep(requests, requestsById, builders, inflight, done)
      /\ inflight \in [Ids -> 0..MaxLegs] /\ d \in Dispatchers
  BY DEF NetworkInv, NetworkTyped
<1>1. /\ id \notin done /\ done' = dn /\ requestsById' = byId
      /\ UNCHANGED <<removed, home, sent, requestInfos, responseInfos>>
  BY DEF loadingOver
<1>2. IF k = 0 THEN builders' = bs /\ requests' = rs /\ inflight' = inflight
      ELSE /\ builders' = [bs EXCEPT ![d][id] = b]
           /\ requests' = [rs EXCEPT ![<<id, k>>].finished = TRUE,
                ![<<id, b.requests[Len(b.requests)]>>].bundle = b.bundle]
           /\ inflight' = [inflight EXCEPT ![id] = 0]
  BY DEF loadingOver, InflightAfter
<1>3. InStep(rs, byId, bs, inflight, done)
  BY <1>0, <1>1, Adopted
<1>4. InStep(rs, byId, bs, inflight, dn)
  BY <1>3, DoneInStep
<1> HIDE DEF byId, bs, rs
<1>5. InStep(requests', requestsById', builders', inflight', done')
  <2>1. CASE k = 0
    BY <1>1, <1>2, <1>4, <2>1
  <2>2. CASE k # 0
    <3> DEFINE rt == [rs EXCEPT ![<<id, sent[id]>>].finished = TRUE]
    <3>1. k = sent[id] /\ sent[id] # 0
      BY <1>0, <1>3, <2>2 DEF InStep, LastLegKnown
    <3>2. bs[d][id] \in Builder
      BY <1>0, <1>3 DEF InStep, MapsTyped
    <3>3. b.requests = bs[d][id].requests /\ b.bundle \in BOOLEAN /\ b.requests \in Seq(Nat)
      BY <3>2 DEF Builder
    <3>4. b.requests # <<>> /\ Len(b.requests) = sent[id]
      BY <1>0, <1>1, <1>3, <2>2, <3>3 DEF InStep, BuildersInOrder
    <3>5. Len(b.requests) \in 1..Len(b.requests)
      BY <3>3, <3>4
    <3>6. b.requests[Len(b.requests)] = sent[id]
      BY <1>0, <1>3, <3>3, <3>4, <3>5 DEF InStep, BuildersInOrder
    <3> DEFINE v == b.bundle
    <3>7. /\ builders' = [bs EXCEPT ![d][id] = b] /\ inflight' = [inflight EXCEPT ![id] = 0]
          /\ requests' = [rt EXCEPT ![<<id, sent[id]>>].bundle = v]
      BY <1>2, <2>2, <3>1, <3>6
    <3>8. InStep(rt, byId, builders', inflight', dn)
      <4>1. builders' = [bs EXCEPT ![d][id] = [bs[d][id] EXCEPT !.finished = TRUE]]
        BY <3>7
      <4>2. rt = [rs EXCEPT ![<<id, sent[id]>>].finished = TRUE] /\ id \in dn
        OBVIOUS
      <4>3. byId[d][id] # 0 /\ NetworkTyped /\ inflight \in [Ids -> 0..MaxLegs]
        BY <1>0, <2>2
      <4> HIDE DEF rt, dn, b, k
      <4>4. InStep(rt, byId, builders', [inflight EXCEPT ![id] = 0], dn)
        BY <1>0, <1>4, <4>1, <4>2, <4>3, OverInStep
      <4> QED
        BY <3>7, <4>4
    <3>9. InStep(requests', byId, builders', inflight', dn)
      <4>1. v \in BOOLEAN /\ id \in dn
        BY <3>3
      <4> HIDE DEF rt, v
      <4> QED
        BY <1>0, <3>1, <3>7, <3>8, <4>1, BundleInStep
    <3> QED
      BY <1>1, <3>9
  <2> QED
    BY <2>1, <2>2
<1>6. inflight' \in [Ids -> 0..MaxLegs]
  <2>1. 0 \in 0..MaxLegs
    BY NetworkConstants
  <2>2. inflight' = inflight \/ inflight' = [inflight EXCEPT ![id] = 0]
    BY <1>2
  <2> QED
    BY <1>0, <2>1, <2>2
<1> QED
  BY <1>0, <1>1, <1>5, <1>6, InStepKept DEF NetworkInv, NetworkTyped

LEMMA ClearRequests ==
  ASSUME NetworkInv, NEW d \in Dispatchers, clearRequests(d)
  PROVE  NetworkInv'
<1> DEFINE forgets(j) == requestsById[d][j] # 0 /\ Cleared(<<j, requestsById[d][j]>>)
<1>0. /\ NetworkTyped /\ InStep(requests, requestsById, builders, inflight, done)
      /\ MapsTyped(requests, requestsById, builders)
  BY DEF NetworkInv, NetworkTyped
<1>1. /\ requestsById' = [requestsById EXCEPT ![d] = [j \in Ids |->
           IF @[j] # 0 /\ Cleared(<<j, @[j]>>) THEN 0 ELSE @[j]]]
      /\ builders' = [builders EXCEPT ![d] = [j \in Ids |->
           IF @[j].finished THEN NoBuilder ELSE @[j]]]
      /\ UNCHANGED <<requests, inflight, removed, backEnd>>
  BY DEF clearRequests
<1>2. /\ requestsById' \in [Dispatchers -> [Ids -> 0..MaxLegs]]
      /\ \A e \in Dispatchers, j \in Ids :
           requestsById'[e][j] = IF e = d /\ forgets(j) THEN 0 ELSE requestsById[e][j]
  <2>1. 0 \in 0..MaxLegs
    BY NetworkConstants
  <2> QED
    BY <1>0, <1>1, <2>1 DEF MapsTyped
<1>3. /\ builders' \in [Dispatchers -> [Ids -> Builder]]
      /\ \A e \in Dispatchers, j \in Ids : builders'[e][j] =
           IF e = d /\ builders[d][j].finished THEN NoBuilder ELSE builders[e][j]
  BY <1>0, <1>1, NoBuilderIsOne DEF MapsTyped
<1>4. ASSUME NEW j \in Ids, forgets(j)
      PROVE  /\ requestsById[d][j] = sent[j] /\ requests[<<j, sent[j]>>].finished
             /\ requests[<<j, sent[j]>>].manager = d /\ j \in done
  <2>1. requestsById[d][j] = sent[j] /\ sent[j] # 0 /\ requests[<<j, sent[j]>>].manager = d
    BY <1>0, <1>4 DEF InStep, LastLegKnown
  <2>2. requests[<<j, sent[j]>>].finished
    BY <1>4, <2>1 DEF Cleared
  <2>3. sent[j] \in 1..MaxLegs
    BY <1>0, <2>1, KnownLegExists
  <2>4. j \in done
    BY <1>0, <2>2, <2>3 DEF InStep, LegsInOrder
  <2> QED
    BY <2>1, <2>2, <2>4
<1> HIDE DEF forgets
<1>5. MapsTyped(requests, requestsById', builders')
  BY <1>0, <1>2, <1>3 DEF MapsTyped
<1>6. LastLegKnown(requests, requestsById')
  BY <1>0, <1>2 DEF InStep, LastLegKnown
<1>7. InflightKnown(requests, requestsById', inflight)
  <2> SUFFICES ASSUME NEW j \in Ids, inflight[j] # 0
               PROVE  /\ j \in Main /\ inflight[j] = sent[j] /\ ~requests[<<j, sent[j]>>].finished
                      /\ requestsById'[requests[<<j, sent[j]>>].manager][j] = sent[j]
    BY DEF InflightKnown
  <2>1. /\ j \in Main /\ inflight[j] = sent[j] /\ ~requests[<<j, sent[j]>>].finished
        /\ requestsById[requests[<<j, sent[j]>>].manager][j] = sent[j]
    BY <1>0 DEF InStep, InflightKnown
  <2>2. requests[<<j, sent[j]>>].manager \in Dispatchers
    BY <1>0, <2>1, KnownLegExists, Records
  <2> QED
    BY <1>2, <1>4, <2>1, <2>2
<1>8. BuildersInOrder(requestsById', builders', done)
  <2> SUFFICES ASSUME NEW e \in Dispatchers, NEW j \in Ids
               PROVE  /\ builders'[e][j].requests # <<>> => Len(builders'[e][j].requests) = sent[j]
                      /\ \A i \in 1..Len(builders'[e][j].requests) : builders'[e][j].requests[i] = i
                      /\ builders'[e][j].finished => j \in done
                      /\ j \notin done /\ requestsById'[e][j] # 0 => builders'[e][j].requests # <<>>
    BY DEF BuildersInOrder
  <2>1. /\ builders[e][j].requests # <<>> => Len(builders[e][j].requests) = sent[j]
        /\ \A i \in 1..Len(builders[e][j].requests) : builders[e][j].requests[i] = i
        /\ builders[e][j].finished => j \in done
        /\ j \notin done /\ requestsById[e][j] # 0 => builders[e][j].requests # <<>>
    BY <1>0 DEF InStep, BuildersInOrder
  <2>2. CASE e = d /\ builders[d][j].finished
    <3>1. builders'[e][j] = NoBuilder /\ j \in done
      BY <1>3, <2>1, <2>2
    <3> QED
      BY <3>1, NoBuilderIsOne
  <2>3. CASE ~(e = d /\ builders[d][j].finished)
    <3>1. builders'[e][j] = builders[e][j]
      BY <1>3, <2>3
    <3>2. requestsById'[e][j] # 0 => requestsById[e][j] # 0
      BY <1>2
    <3> QED
      BY <2>1, <3>1, <3>2
  <2> QED
    BY <2>2, <2>3
<1>9. FirstKnows(requests, requestsById', builders', done)
  <2> SUFFICES ASSUME NEW j \in Ids, home[j] = first
               PROVE  /\ j \notin done => requestsById'[first][j] = sent[j]
                      /\ \A n \in 1..MaxLegs : n <= sent[j] => requests[<<j, n>>].manager = first
                      /\ \A e \in Dispatchers \ {first} : builders'[e][j].requests = <<>>
    BY DEF FirstKnows
  <2>1. /\ j \notin done => requestsById[first][j] = sent[j]
        /\ \A n \in 1..MaxLegs : n <= sent[j] => requests[<<j, n>>].manager = first
        /\ \A e \in Dispatchers \ {first} : builders[e][j].requests = <<>>
    BY <1>0 DEF InStep, FirstKnows
  <2>2. j \notin done => requestsById'[first][j] = sent[j]
    <3>1. j \notin done => ~forgets(j)
      BY <1>4
    <3> QED
      BY <1>2, <2>1, <3>1, NetworkConstants
  <2>3. \A e \in Dispatchers \ {first} : builders'[e][j].requests = <<>>
    BY <1>3, <2>1, NoBuilderIsOne
  <2> QED
    BY <2>1, <2>2, <2>3
<1>10. InStep(requests, requestsById', builders', inflight, done)
  BY <1>0, <1>5, <1>6, <1>7, <1>8, <1>9 DEF InStep
<1> QED
  BY <1>0, <1>1, <1>10, InStepKept DEF backEnd, NetworkTyped

LEMMA DispatcherRemoved ==
  ASSUME NetworkInv, NEW d \in Dispatchers, modelRemoved(d)
  PROVE  NetworkInv'
<1>0. /\ NetworkTyped /\ InStep(requests, requestsById, builders, inflight, done)
      /\ inflight \in [Ids -> 0..MaxLegs]
  BY DEF NetworkInv, NetworkTyped
<1>1. /\ removed' = removed \cup {d} /\ UNCHANGED <<requests, requestsById, builders, backEnd>>
      /\ inflight' = [id \in Ids |->
           IF inflight[id] # 0 /\ requests[<<id, inflight[id]>>].manager = d
             THEN 0 ELSE inflight[id]]
  BY DEF modelRemoved
<1>2. inflight' \in [Ids -> 0..MaxLegs] /\ \A j \in Ids : inflight'[j] \in {0, inflight[j]}
  <2>1. 0 \in 0..MaxLegs
    BY NetworkConstants
  <2> QED
    BY <1>0, <1>1, <2>1
<1>3. InflightKnown(requests, requestsById, inflight')
  <2> SUFFICES ASSUME NEW j \in Ids, inflight'[j] # 0
               PROVE  /\ j \in Main /\ inflight'[j] = sent[j]
                      /\ ~requests[<<j, sent[j]>>].finished
                      /\ requestsById[requests[<<j, sent[j]>>].manager][j] = sent[j]
    BY DEF InflightKnown
  <2>1. inflight'[j] = inflight[j]
    BY <1>2
  <2> QED
    BY <1>0, <2>1 DEF InStep, InflightKnown
<1>4. InStep(requests, requestsById, builders, inflight', done)
  BY <1>0, <1>3 DEF InStep
<1>5. InStep(requests', requestsById', builders', inflight', done')
  BY <1>1, <1>4 DEF backEnd
<1> QED
  BY <1>0, <1>1, <1>2, <1>5, InStepKept DEF backEnd, NetworkTyped

LEMMA Commit ==
  ASSUME NetworkInv, NEW id \in Ids, NEW d \in Dispatchers, commit(id, d)
  PROVE  NetworkInv'
<1>1. /\ d # first /\ home' = [home EXCEPT ![id] = d]
      /\ UNCHANGED <<requests, requestsById, builders, inflight, removed, sent, requestInfos,
                     responseInfos, done>>
  BY DEF commit
<1>2. NetworkTyped'
  BY <1>1 DEF NetworkInv, NetworkTyped, MapsTyped
<1>3. /\ MapsTyped(requests, requestsById, builders)' /\ LegsInOrder(requests, done)'
      /\ RawIsRaw(requests)' /\ LastLegKnown(requests, requestsById)'
      /\ InflightKnown(requests, requestsById, inflight)'
      /\ BuildersInOrder(requestsById, builders, done)'
  <2>1. MapsTyped(requests, requestsById, builders)'
    BY <1>1 DEF NetworkInv, InStep, MapsTyped
  <2>2. LegsInOrder(requests, done)'
    BY <1>1 DEF NetworkInv, InStep, LegsInOrder
  <2>3. RawIsRaw(requests)'
    BY <1>1 DEF NetworkInv, InStep, RawIsRaw, Raw
  <2>4. LastLegKnown(requests, requestsById)'
    BY <1>1 DEF NetworkInv, InStep, LastLegKnown
  <2>5. InflightKnown(requests, requestsById, inflight)'
    BY <1>1 DEF NetworkInv, InStep, InflightKnown
  <2>6. BuildersInOrder(requestsById, builders, done)'
    BY <1>1 DEF NetworkInv, InStep, BuildersInOrder
  <2> QED
    BY <2>1, <2>2, <2>3, <2>4, <2>5, <2>6
<1>4. FirstKnows(requests, requestsById, builders, done)'
  <2>1. \A j \in Ids : home'[j] = first => home[j] = first
    BY <1>1 DEF NetworkInv, NetworkTyped
  <2> QED
    BY <1>1, <2>1 DEF NetworkInv, InStep, FirstKnows
<1> QED
  BY <1>2, <1>3, <1>4 DEF NetworkInv, InStep

(* The next leg of a load, the last one redirected to it.                  *)
NewLegOf(id) ==
  LET b == builders[first][id] k == sent[id] + 1 IN
  /\ requests' \in [Legs -> {NoRequest} \cup Request]
  /\ <<id, k>> \in Legs /\ requests'[<<id, k>>] \in Request
  /\ requests'[<<id, k>>].manager = first /\ requests'[<<id, k>>].source = sent[id]
  /\ requests'[<<id, k>>].suffix = -1 /\ ~requests'[<<id, k>>].finished
  /\ ~requests'[<<id, k>>].bundle /\ Raw(requests'[<<id, k>>])
  /\ requests'[<<id, k>>].requestInfo = At(b.requestInfo, k)
  /\ requests'[<<id, k>>].responseInfo = At(b.responseInfo, k)
RedirectedLegOf(id) ==
  LET l == <<id, sent[id]>> IN
  sent[id] # 0 =>
    /\ requests'[l].manager = first /\ requests'[l].source = sent[id] - 1
    /\ requests'[l].suffix = sent[id] - 1 /\ requests'[l].finished
    /\ ~requests'[l].bundle /\ Raw(requests'[l])
    /\ requests'[l].requestInfo = requests[l].requestInfo
    /\ requests'[l].responseInfo = requests[l].responseInfo
NextBuilderOf(id) ==
  LET b == builders[first][id] k == sent[id] + 1 c == builders'[first][id] IN
  /\ builders' \in [Dispatchers -> [Ids -> Builder]]
  /\ c.requests = Append(b.requests, k) /\ Len(b.requests) = sent[id] /\ c.finished = b.finished
  /\ c.requestInfo = take(b.requestInfo, k) /\ c.responseInfo = take(b.responseInfo, k)
  /\ \A d \in Dispatchers, j \in Ids :
       d # first \/ j # id => builders'[d][j] = builders[d][j]

LEMMA NewRequest ==
  ASSUME NEW old \in 0..MaxLegs, NEW b \in Builder, NEW k \in Nat,
         NEW r, r = newRequest(first, old), NEW s, s = WithInfos(r, b, k)
  PROVE  /\ s \in Request /\ s.manager = first /\ s.source = old /\ s.suffix = -1
         /\ ~s.finished /\ ~s.bundle /\ Raw(s)
         /\ s.requestInfo = At(b.requestInfo, k) /\ s.responseInfo = At(b.responseInfo, k)
<1>1. r \in Request /\ Raw(r) /\ old \in Int
  BY NetworkConstants DEF newRequest, Request, Raw
<1>2. /\ r.manager = first /\ r.source = old /\ r.suffix = -1 /\ ~r.finished
      /\ ~r.bundle /\ r.requestInfo = 0 /\ r.responseInfo = 0
  BY DEF newRequest
<1>3. /\ s \in Request /\ SameLeg(r, s) /\ Raw(s)
      /\ s.requestInfo = IF At(b.requestInfo, k) = Taken THEN 0 ELSE At(b.requestInfo, k)
      /\ s.responseInfo = IF At(b.responseInfo, k) = Taken THEN 0 ELSE At(b.responseInfo, k)
  BY <1>1, <1>2, WithInfosKeeps
<1>4. s.requestInfo = At(b.requestInfo, k) /\ s.responseInfo = At(b.responseInfo, k)
  BY <1>3 DEF Taken
<1>5. /\ s.manager = first /\ s.source = old /\ s.suffix = -1
  BY <1>2, <1>3 DEF SameLeg
<1>6. ~s.finished /\ ~s.bundle
  BY <1>2, <1>3 DEF SameLeg
<1> QED
  BY <1>3, <1>4, <1>5, <1>6

LEMMA LegIsSent ==
  ASSUME NetworkInv, NEW id \in Ids, requestWillBeSent(id)
  PROVE  /\ home[id] = first /\ id \notin done /\ sent[id] + 1 \in 1..MaxLegs
         /\ sent' = [sent EXCEPT ![id] = sent[id] + 1]
         /\ requestsById' = [requestsById EXCEPT ![first][id] = sent[id] + 1]
         /\ inflight' = IF id \in Main THEN [inflight EXCEPT ![id] = sent[id] + 1] ELSE inflight
         /\ UNCHANGED <<removed, home, requestInfos, responseInfos, done>>
         /\ NewLegOf(id) /\ RedirectedLegOf(id) /\ NextBuilderOf(id)
         /\ \A l \in Legs : l \notin {<<id, sent[id]>>, <<id, sent[id] + 1>>} =>
              requests'[l] = requests[l]
<1> DEFINE old == requestsById[first][id]
           k == sent[id] + 1
           b == builders[first][id]
           e == [b EXCEPT !.requests = Append(@, k)]
           l == <<id, k>>
           m == <<id, old>>
           o == [Responded(requests[m]) EXCEPT !.suffix = markedAs(m), !.finished = TRUE]
           rd == IF old = 0 THEN requests ELSE [requests EXCEPT ![m] = o]
           rs == [rd EXCEPT ![l] = newRequest(first, old)]
<1>0. /\ NetworkTyped /\ InStep(requests, requestsById, builders, inflight, done)
      /\ requests \in [Legs -> {NoRequest} \cup Request]
      /\ builders \in [Dispatchers -> [Ids -> Builder]]
      /\ b \in Builder /\ sent[id] \in 0..MaxLegs /\ first \in Dispatchers
  BY NetworkConstants DEF NetworkInv, NetworkTyped, MapsTyped
<1>1. /\ home[id] = first /\ id \notin done /\ k <= MaxLegs
      /\ sent' = [sent EXCEPT ![id] = k] /\ requestsById' = [requestsById EXCEPT ![first][id] = k]
      /\ inflight' = IF id \in Main THEN [inflight EXCEPT ![id] = k] ELSE inflight
      /\ sync(first, id, e, Len(b.requests) + 1, rs)
      /\ UNCHANGED <<removed, home, requestInfos, responseInfos, done>>
  BY DEF requestWillBeSent
<1>2. k \in 1..MaxLegs /\ k \in Nat /\ l \in Legs
  BY <1>0, <1>1, NetworkConstants DEF Legs
<1>3. old = sent[id]
  BY <1>0, <1>1 DEF InStep, FirstKnows
<1>4. b.requests \in Seq(Nat) /\ Len(b.requests) = old
  <2>1. b.requests \in Seq(Nat)
    BY <1>0 DEF Builder
  <2>2. /\ b.requests # <<>> => Len(b.requests) = old
        /\ old # 0 => b.requests # <<>>
    BY <1>0, <1>1, <1>3 DEF InStep, BuildersInOrder
  <2>3. b.requests = <<>> => Len(b.requests) = 0
    OBVIOUS
  <2> QED
    BY <2>1, <2>2, <2>3
<1>5. /\ Append(b.requests, k) \in Seq(Nat) /\ Len(Append(b.requests, k)) = k
      /\ Append(b.requests, k)[k] = k
  BY <1>0, <1>2, <1>3, <1>4
<1>6. /\ e \in Builder /\ e.requests = Append(b.requests, k) /\ e.finished = b.finished
      /\ e.requestInfo = b.requestInfo /\ e.responseInfo = b.responseInfo
  <2>1. e \in Builder /\ e.requests = Append(b.requests, k)
    BY <1>0, <1>5 DEF Builder
  <2>2. e.finished = b.finished /\ e.requestInfo = b.requestInfo /\ e.responseInfo = b.responseInfo
    BY <1>0 DEF Builder
  <2> QED
    BY <2>1, <2>2
<1> HIDE DEF e, rs
<1>7. There(e, k) /\ e.requests[k] = k /\ Len(b.requests) + 1 = k
  BY <1>2, <1>3, <1>4, <1>5, <1>6 DEF There
<1> DEFINE c == [e EXCEPT !.requestInfo = take(@, k), !.responseInfo = take(@, k)]
           n == WithInfos(rs[l], e, k)
<1>8. /\ builders' = [builders EXCEPT ![first][id] = c]
      /\ requests' = [rs EXCEPT ![l] = n]
  BY <1>1, <1>7 DEF sync
<1>9. NextBuilderOf(id)
  <2>1. /\ c \in Builder /\ SameLegs(e, c)
        /\ c.requestInfo = take(b.requestInfo, k) /\ c.responseInfo = take(b.responseInfo, k)
    <3>1. c = [e EXCEPT !.requestInfo = take(@, k), !.responseInfo = take(@, k)]
      OBVIOUS
    <3> HIDE DEF c, k, b
    <3>2. /\ c \in Builder /\ SameLegs(e, c)
          /\ c.requestInfo = take(e.requestInfo, k) /\ c.responseInfo = take(e.responseInfo, k)
      BY <1>2, <1>6, <3>1, SyncBuilder
    <3> QED
      BY <1>6, <3>2
  <2>2. c.requests = Append(b.requests, k) /\ c.finished = b.finished
    BY <1>6, <2>1 DEF SameLegs
  <2> HIDE DEF c, k
  <2>3. /\ builders' \in [Dispatchers -> [Ids -> Builder]] /\ builders'[first][id] = c
        /\ \A d \in Dispatchers, j \in Ids :
             d # first \/ j # id => builders'[d][j] = builders[d][j]
    BY <1>0, <1>8, <2>1
  <2> QED
    BY <1>3, <1>4, <2>1, <2>2, <2>3 DEF NextBuilderOf, k
<1>10. old # 0 => /\ m \in Legs /\ requests[m] \in Request /\ requests[m].manager = first
                  /\ requests[m].source = old - 1 /\ ~requests[m].bundle /\ Raw(requests[m])
                  /\ markedAs(m) = old - 1 /\ m # l
  <2> HAVE old # 0
  <2>1. m \in Legs /\ requests[m] \in Request /\ old \in 1..MaxLegs
    BY <1>0, <1>3, KnownLegExists
  <2>2. requests[m].manager = first
    BY <1>0, <1>1, <1>3, <2>1 DEF InStep, FirstKnows
  <2>3. \A i \in 1..old : requests[<<id, i>>].source = i - 1
    <3>1. \A i \in 1..old : i \in 1..MaxLegs /\ i <= sent[id]
      BY <1>3, <2>1, NetworkConstants
    <3> QED
      BY <1>0, <3>1 DEF InStep, LegsInOrder
  <2>4. ~requests[m].bundle /\ requests[m].source = old - 1
    BY <1>0, <1>1, <1>3, <2>1 DEF InStep, LegsInOrder
  <2>5. Raw(requests[m])
    BY <1>0, <2>1, <2>2, NetworkConstants DEF InStep, RawIsRaw
  <2>6. markedAs(m) = old - 1
    <3> HIDE DEF old
    <3> QED
      BY <2>1, <2>3, ChainOfSources DEF markedAs
  <2>7. m # l
    BY <1>0, <1>3, NetworkConstants
  <2> QED
    BY <2>1, <2>2, <2>4, <2>5, <2>6, <2>7
<1>11. old # 0 => /\ o \in Request /\ o.manager = first /\ o.source = old - 1
                  /\ o.suffix = old - 1 /\ o.finished /\ ~o.bundle /\ Raw(o)
                  /\ o.requestInfo = requests[m].requestInfo
                  /\ o.responseInfo = requests[m].responseInfo
  <2> HAVE old # 0
  <2> DEFINE p == Responded(requests[m])
  <2>1. /\ p \in Request /\ SameLeg(requests[m], p) /\ Raw(p)
        /\ p.requestInfo = requests[m].requestInfo /\ p.responseInfo = requests[m].responseInfo
    BY <1>10, RespondedKeeps
  <2>2. /\ markedAs(m) = old - 1 /\ old - 1 \in Int
        /\ o = [p EXCEPT !.suffix = old - 1, !.finished = TRUE]
    <3>1. markedAs(m) = old - 1 /\ old - 1 \in Int
      BY <1>0, <1>3, <1>10, NetworkConstants
    <3>2. o = [p EXCEPT !.suffix = markedAs(m), !.finished = TRUE]
      OBVIOUS
    <3> HIDE DEF p, o, old, m
    <3> QED
      BY <3>1, <3>2
  <2> HIDE DEF p, o, old
  <2>3. o \in Request /\ o.suffix = old - 1 /\ o.finished
    BY <2>1, <2>2 DEF Request
  <2>4. /\ o.manager = p.manager /\ o.source = p.source /\ o.bundle = p.bundle
        /\ o.requestInfo = p.requestInfo /\ o.responseInfo = p.responseInfo
        /\ o.requestHeaders = p.requestHeaders /\ o.responseHeaders = p.responseHeaders
        /\ o.intercepted = p.intercepted
    BY <2>1, <2>2 DEF Request
  <2>5. Raw(o)
    BY <2>1, <2>4 DEF Raw
  <2>6. ~o.bundle
    BY <1>10, <2>1, <2>4 DEF SameLeg
  <2>7. o.manager = first /\ o.source = old - 1
    BY <1>10, <2>1, <2>4 DEF SameLeg
  <2> QED
    BY <2>1, <2>3, <2>4, <2>5, <2>6, <2>7
<1> HIDE DEF o
<1>12. /\ rd \in [Legs -> {NoRequest} \cup Request]
       /\ \A x \in Legs : rd[x] = IF old # 0 /\ x = m THEN o ELSE requests[x]
  <2> HIDE DEF m, old
  <2> QED
    BY <1>0, <1>10, <1>11
<1>13. rs[l] = newRequest(first, old)
  BY <1>2, <1>12 DEF rs
<1>14. /\ n \in Request /\ n.manager = first /\ n.source = old /\ n.suffix = -1
       /\ ~n.finished /\ ~n.bundle /\ Raw(n)
       /\ n.requestInfo = At(b.requestInfo, k) /\ n.responseInfo = At(b.responseInfo, k)
  <2>1. old \in 0..MaxLegs
    BY <1>0, <1>3
  <2>3. n = WithInfos(rs[l], e, k)
    OBVIOUS
  <2> HIDE DEF old, l, b, n, k
  <2>2. /\ n \in Request /\ n.manager = first /\ n.source = old /\ n.suffix = -1
        /\ ~n.finished /\ ~n.bundle /\ Raw(n)
        /\ n.requestInfo = At(e.requestInfo, k) /\ n.responseInfo = At(e.responseInfo, k)
    BY <1>2, <1>6, <1>13, <2>1, <2>3, NewRequest
  <2> QED
    BY <1>6, <2>2
<1> HIDE DEF n, rd
<1>15. /\ requests' \in [Legs -> {NoRequest} \cup Request]
       /\ \A x \in Legs : requests'[x] = IF x = l THEN n ELSE rd[x]
  <2>1. \A x \in Legs : x # l => rs[x] = rd[x]
    BY <1>12 DEF rs
  <2>2. requests' = [x \in Legs |-> IF x = l THEN n ELSE rd[x]]
    <3>1. requests' = [[rd EXCEPT ![l] = newRequest(first, old)] EXCEPT ![l] = n]
      BY <1>8 DEF rs
    <3> HIDE DEF l, old
    <3> QED
      BY <1>12, <3>1
  <2> HIDE DEF l
  <2> QED
    BY <1>12, <1>14, <2>2
<1>16. NewLegOf(id)
  <2>1. requests'[l] = n
    BY <1>2, <1>15
  <2> QED
    BY <1>2, <1>3, <1>14, <1>15, <2>1 DEF NewLegOf
<1>17. RedirectedLegOf(id)
  <2> SUFFICES ASSUME old # 0 PROVE RedirectedLegOf(id)
    BY <1>3 DEF RedirectedLegOf
  <2>1. requests'[m] = o
    BY <1>10, <1>12, <1>15
  <2>2. m = <<id, sent[id]>>
    BY <1>3
  <2> HIDE DEF m, old
  <2> QED
    BY <1>3, <1>11, <2>1, <2>2 DEF RedirectedLegOf
<1>18. \A x \in Legs : x \notin {<<id, sent[id]>>, <<id, k>>} => requests'[x] = requests[x]
  BY <1>3, <1>12, <1>15
<1> QED
  BY <1>1, <1>2, <1>9, <1>16, <1>17, <1>18

LEMMA RequestWillBeSent ==
  ASSUME NetworkInv, NEW id \in Ids, requestWillBeSent(id)
  PROVE  NetworkInv'
<1> DEFINE k == sent[id] + 1
           l == <<id, k>>
           m == <<id, sent[id]>>
           b == builders[first][id]
           c == builders'[first][id]
<1>0. /\ NetworkTyped /\ InStep(requests, requestsById, builders, inflight, done)
      /\ MapsTyped(requests, requestsById, builders) /\ sent \in [Ids -> 0..MaxLegs]
      /\ inflight \in [Ids -> 0..MaxLegs] /\ first \in Dispatchers /\ MaxLegs \in Nat
  BY NetworkConstants DEF NetworkInv, NetworkTyped
<1>1. /\ home[id] = first /\ id \notin done /\ k \in 1..MaxLegs
      /\ sent' = [sent EXCEPT ![id] = k]
      /\ requestsById' = [requestsById EXCEPT ![first][id] = k]
      /\ inflight' = IF id \in Main THEN [inflight EXCEPT ![id] = k] ELSE inflight
      /\ UNCHANGED <<removed, home, requestInfos, responseInfos, done>>
      /\ NewLegOf(id) /\ RedirectedLegOf(id) /\ NextBuilderOf(id)
      /\ \A x \in Legs : x \notin {m, l} => requests'[x] = requests[x]
  BY LegIsSent
<1>2. /\ sent' \in [Ids -> 0..MaxLegs] /\ sent'[id] = k
      /\ \A j \in Ids : j # id => sent'[j] = sent[j]
  BY <1>0, <1>1
<1>3. /\ requestsById' \in [Dispatchers -> [Ids -> 0..MaxLegs]]
      /\ \A d \in Dispatchers, j \in Ids :
           requestsById'[d][j] = IF d = first /\ j = id THEN k ELSE requestsById[d][j]
  <2>1. k \in 0..MaxLegs
    BY <1>0, <1>1
  <2> HIDE DEF k
  <2> QED
    BY <1>0, <1>1, <2>1 DEF MapsTyped
<1>4. /\ inflight' \in [Ids -> 0..MaxLegs]
      /\ \A j \in Ids : inflight'[j] = IF j = id /\ id \in Main THEN k ELSE inflight[j]
  <2>1. k \in 0..MaxLegs
    BY <1>0, <1>1
  <2> HIDE DEF k
  <2> QED
    BY <1>0, <1>1, <2>1
<1>5. MapsTyped(requests, requestsById, builders)'
  BY <1>1, <1>3 DEF MapsTyped, NewLegOf, NextBuilderOf
<1>6. NetworkTyped'
  BY <1>0, <1>1, <1>2, <1>4, <1>5 DEF NetworkTyped
<1>7. /\ l \in Legs /\ requests'[l] \in Request /\ requests'[l].manager = first
      /\ requests'[l].source = k - 1 /\ requests'[l].suffix = -1
      /\ ~requests'[l].finished /\ ~requests'[l].bundle /\ Raw(requests'[l])
  BY <1>0, <1>1 DEF NewLegOf
<1>8. sent[id] # 0 =>
      /\ requests'[m].manager = first /\ requests'[m].source = sent[id] - 1
      /\ requests'[m].suffix = sent[id] - 1 /\ requests'[m].finished
      /\ ~requests'[m].bundle /\ Raw(requests'[m])
  BY <1>1 DEF RedirectedLegOf
<1>9. /\ c.requests = Append(b.requests, k) /\ Len(b.requests) = sent[id]
      /\ c.finished = b.finished
      /\ \A d \in Dispatchers, j \in Ids :
           d # first \/ j # id => builders'[d][j] = builders[d][j]
  BY <1>1 DEF NextBuilderOf
<1>10. LegsInOrder(requests, done)'
  <2> SUFFICES ASSUME NEW j \in Ids, NEW n \in 1..MaxLegs
               PROVE /\ requests'[<<j, n>>].manager # NoDispatcher <=> n <= sent'[j]
                     /\ n <= sent'[j] =>
                         /\ requests'[<<j, n>>].source = n - 1
                         /\ requests'[<<j, n>>].suffix = IF n < sent'[j] THEN n - 1 ELSE -1
                         /\ n < sent'[j] => requests'[<<j, n>>].finished
                         /\ requests'[<<j, n>>].bundle => n = sent'[j] /\ j \in done
                         /\ n = sent'[j] /\ requests'[<<j, n>>].finished => j \in done
    BY <1>1 DEF LegsInOrder
  <2>1. <<j, n>> \in Legs
    BY DEF Legs
  <2>2. /\ requests[<<j, n>>].manager # NoDispatcher <=> n <= sent[j]
        /\ n <= sent[j] =>
            /\ requests[<<j, n>>].source = n - 1
            /\ requests[<<j, n>>].suffix = IF n < sent[j] THEN n - 1 ELSE -1
            /\ n < sent[j] => requests[<<j, n>>].finished
            /\ requests[<<j, n>>].bundle => n = sent[j] /\ j \in done
            /\ n = sent[j] /\ requests[<<j, n>>].finished => j \in done
    BY <1>0 DEF InStep, LegsInOrder
  <2>3. CASE j # id
    <3>1. requests'[<<j, n>>] = requests[<<j, n>>] /\ sent'[j] = sent[j]
      BY <1>1, <1>2, <2>1, <2>3
    <3> QED
      BY <2>2, <3>1
  <2>4. CASE j = id /\ n = k
    <3>1. <<j, n>> = l /\ n = sent'[j]
      BY <1>2, <2>4
    <3>2. requests'[<<j, n>>].manager # NoDispatcher
      BY <1>7, <3>1, NetworkConstants
    <3>3. ~requests'[<<j, n>>].finished /\ ~requests'[<<j, n>>].bundle
      BY <1>7, <3>1
    <3>4. requests'[<<j, n>>].source = n - 1 /\ requests'[<<j, n>>].suffix = -1
      BY <1>7, <2>4
    <3> QED
      BY <1>0, <1>1, <3>1, <3>2, <3>3, <3>4
  <2>5. CASE j = id /\ n = sent[id]
    <3>1. <<j, n>> = m /\ sent[id] # 0 /\ n < sent'[j]
      BY <1>0, <1>2, <2>5
    <3>2. requests'[<<j, n>>].manager # NoDispatcher
      BY <1>8, <3>1, NetworkConstants
    <3>3. requests'[<<j, n>>].finished /\ ~requests'[<<j, n>>].bundle
      BY <1>8, <3>1
    <3>4. requests'[<<j, n>>].source = n - 1 /\ requests'[<<j, n>>].suffix = n - 1
      BY <1>8, <2>5, <3>1
    <3> QED
      BY <1>0, <1>2, <3>1, <3>2, <3>3, <3>4
  <2>6. CASE j = id /\ n # sent[id] /\ n # k
    <3>1. requests'[<<j, n>>] = requests[<<j, n>>]
      BY <1>1, <2>1, <2>6
    <3>2. /\ n <= sent'[j] <=> n <= sent[j]
          /\ n # sent'[j] /\ (n <= sent[j] => n < sent[j] /\ n < sent'[j])
      BY <1>0, <1>1, <1>2, <2>6
    <3>3. ~(n <= sent[j] /\ requests[<<j, n>>].bundle)
      BY <2>2, <3>2, <2>6
    <3> QED
      BY <2>2, <3>1, <3>2, <3>3
  <2> QED
    BY <2>3, <2>4, <2>5, <2>6
<1>11. RawIsRaw(requests)'
  <2> SUFFICES ASSUME NEW x \in Legs, requests'[x].manager # NoDispatcher
               PROVE  Raw(requests'[x])
    BY DEF RawIsRaw, Raw
  <2>1. CASE x = l
    BY <1>7, <2>1
  <2>2. CASE x = m /\ sent[id] # 0
    BY <1>8, <2>2
  <2>3. CASE x # l /\ (x # m \/ sent[id] = 0)
    <3>1. x # m
      BY <1>0, <2>3 DEF Legs
    <3>2. requests'[x] = requests[x]
      BY <1>1, <2>3, <3>1
    <3> QED
      BY <1>0, <3>2 DEF InStep, RawIsRaw
  <2> QED
    BY <2>1, <2>2, <2>3
<1>12. ASSUME NEW d \in Dispatchers, requestsById[d][id] # 0
       PROVE  d = first
  <2>1. sent[id] # 0 /\ requests[m].manager = d
    BY <1>0, <1>12 DEF InStep, LastLegKnown
  <2>2. sent[id] \in 1..MaxLegs /\ sent[id] <= sent[id]
    BY <1>0, <2>1
  <2> QED
    BY <1>0, <1>1, <2>1, <2>2 DEF InStep, FirstKnows
<1>13. ASSUME NEW j \in Ids, j # id
       PROVE  /\ sent'[j] = sent[j]
              /\ \A n : <<j, n>> \in Legs => requests'[<<j, n>>] = requests[<<j, n>>]
  BY <1>1, <1>2, <1>13
<1>14. LastLegKnown(requests, requestsById)'
  <2> SUFFICES ASSUME NEW d \in Dispatchers, NEW j \in Ids, requestsById'[d][j] # 0
               PROVE  /\ requestsById'[d][j] = sent'[j]
                      /\ requests'[<<j, sent'[j]>>].manager = d
    BY DEF LastLegKnown
  <2>1. CASE j = id
    <3>1. d = first
      BY <1>3, <1>12, <2>1
    <3> QED
      BY <1>2, <1>3, <1>7, <2>1, <3>1
  <2>2. CASE j # id
    <3>1. requestsById[d][j] # 0 /\ requestsById'[d][j] = requestsById[d][j]
      BY <1>3, <2>2
    <3>2. /\ requestsById[d][j] = sent[j] /\ sent[j] # 0
          /\ requests[<<j, sent[j]>>].manager = d
      BY <1>0, <3>1 DEF InStep, LastLegKnown
    <3>3. <<j, sent[j]>> \in Legs
      BY <1>0, <3>2, KnownLegExists
    <3> QED
      BY <1>13, <2>2, <3>1, <3>2, <3>3
  <2> QED
    BY <2>1, <2>2
<1>15. InflightKnown(requests, requestsById, inflight)'
  <2> SUFFICES ASSUME NEW j \in Ids, inflight'[j] # 0
               PROVE  /\ j \in Main /\ inflight'[j] = sent'[j]
                      /\ ~requests'[<<j, sent'[j]>>].finished
                      /\ requestsById'[requests'[<<j, sent'[j]>>].manager][j] = sent'[j]
    BY DEF InflightKnown
  <2>1. CASE j = id
    <3>1. id \in Main
      BY <1>0, <1>4, <2>1 DEF InStep, InflightKnown
    <3>2. inflight'[j] = k /\ sent'[j] = k
      BY <1>2, <1>4, <2>1, <3>1
    <3>3. ~requests'[<<j, sent'[j]>>].finished
      BY <1>7, <2>1, <3>2
    <3>4. requestsById'[requests'[<<j, sent'[j]>>].manager][j] = k
      BY <1>0, <1>3, <1>7, <2>1, <3>2
    <3> QED
      BY <2>1, <3>1, <3>2, <3>3, <3>4
  <2>2. CASE j # id
    <3>1. inflight'[j] = inflight[j]
      BY <1>4, <2>2
    <3>2. /\ j \in Main /\ inflight[j] = sent[j] /\ ~requests[<<j, sent[j]>>].finished
          /\ requestsById[requests[<<j, sent[j]>>].manager][j] = sent[j]
      BY <1>0, <3>1 DEF InStep, InflightKnown
    <3>3. <<j, sent[j]>> \in Legs /\ requests[<<j, sent[j]>>] \in Request
      BY <1>0, <3>1, <3>2, KnownLegExists
    <3>4. requests[<<j, sent[j]>>].manager \in Dispatchers
      BY <3>3, Records
    <3>5. requests'[<<j, sent[j]>>] = requests[<<j, sent[j]>>] /\ sent'[j] = sent[j]
      BY <1>13, <2>2, <3>3
    <3> QED
      BY <1>3, <2>2, <3>1, <3>2, <3>4, <3>5
  <2> QED
    BY <2>1, <2>2
<1>16. BuildersInOrder(requestsById, builders, done)'
  <2> SUFFICES ASSUME NEW d \in Dispatchers, NEW j \in Ids
               PROVE  /\ builders'[d][j].requests # <<>> => Len(builders'[d][j].requests) = sent'[j]
                      /\ \A i \in 1..Len(builders'[d][j].requests) : builders'[d][j].requests[i] = i
                      /\ builders'[d][j].finished => j \in done'
                      /\ j \notin done' /\ requestsById'[d][j] # 0 => builders'[d][j].requests # <<>>
    BY DEF BuildersInOrder
  <2>1. /\ builders[d][j].requests # <<>> => Len(builders[d][j].requests) = sent[j]
        /\ \A i \in 1..Len(builders[d][j].requests) : builders[d][j].requests[i] = i
        /\ builders[d][j].finished => j \in done
        /\ j \notin done /\ requestsById[d][j] # 0 => builders[d][j].requests # <<>>
    BY <1>0 DEF InStep, BuildersInOrder
  <2>2. CASE j # id
    <3>1. /\ builders'[d][j] = builders[d][j] /\ requestsById'[d][j] = requestsById[d][j]
          /\ sent'[j] = sent[j] /\ done' = done
      BY <1>1, <1>2, <1>3, <1>9, <2>2
    <3> QED
      BY <2>1, <3>1
  <2>3. CASE j = id /\ d # first
    <3>1. builders[d][j].requests = <<>>
      BY <1>0, <1>1, <2>3 DEF InStep, FirstKnows
    <3>2. builders'[d][j] = builders[d][j] /\ requestsById'[d][j] = 0 /\ done' = done
      BY <1>1, <1>3, <1>9, <1>12, <2>3
    <3> QED
      BY <2>1, <3>1, <3>2
  <2>4. CASE j = id /\ d = first
    <3>1. b.requests \in Seq(Nat) /\ k \in Nat
      <4>1. b \in Builder
        BY <1>0, <2>4 DEF MapsTyped
      <4> QED
        BY <1>1, <4>1 DEF Builder
    <3>2. /\ Len(c.requests) = k /\ c.requests # <<>>
          /\ \A i \in 1..k : c.requests[i] = IF i = k THEN k ELSE b.requests[i]
      BY <1>9, <3>1
    <3>3. \A i \in 1..k : c.requests[i] = i
      BY <1>9, <2>1, <2>4, <3>1, <3>2
    <3>4. ~c.finished
      BY <1>1, <1>9, <2>1, <2>4
    <3> QED
      BY <1>2, <2>4, <3>2, <3>3, <3>4
  <2> QED
    BY <2>2, <2>3, <2>4
<1>17. FirstKnows(requests, requestsById, builders, done)'
  <2> SUFFICES ASSUME NEW j \in Ids, home[j] = first
               PROVE  /\ j \notin done => requestsById'[first][j] = sent'[j]
                      /\ \A n \in 1..MaxLegs : n <= sent'[j] => requests'[<<j, n>>].manager = first
                      /\ \A d \in Dispatchers \ {first} : builders'[d][j].requests = <<>>
    BY <1>1 DEF FirstKnows
  <2>1. /\ j \notin done => requestsById[first][j] = sent[j]
        /\ \A n \in 1..MaxLegs : n <= sent[j] => requests[<<j, n>>].manager = first
        /\ \A d \in Dispatchers \ {first} : builders[d][j].requests = <<>>
    BY <1>0 DEF InStep, FirstKnows
  <2>2. j \notin done => requestsById'[first][j] = sent'[j]
    BY <1>0, <1>2, <1>3, <2>1
  <2>3. \A d \in Dispatchers \ {first} : builders'[d][j].requests = <<>>
    BY <1>9, <2>1
  <2>4. ASSUME NEW n \in 1..MaxLegs, n <= sent'[j] PROVE requests'[<<j, n>>].manager = first
    <3>1. <<j, n>> \in Legs
      BY DEF Legs
    <3>2. CASE <<j, n>> = l
      BY <1>7, <3>2
    <3>3. CASE <<j, n>> = m
      <4>1. sent[id] # 0
        BY <1>0, <3>3
      <4> QED
        BY <1>8, <3>3, <4>1
    <3>4. CASE <<j, n>> # l /\ <<j, n>> # m
      <4>1. requests'[<<j, n>>] = requests[<<j, n>>]
        BY <1>1, <3>1, <3>4
      <4>2. n <= sent[j]
        BY <1>0, <1>2, <2>4, <3>4
      <4> QED
        BY <2>1, <4>1, <4>2
    <3> QED
      BY <3>2, <3>3, <3>4
  <2> QED
    BY <2>2, <2>3, <2>4
<1> QED
  BY <1>5, <1>6, <1>10, <1>11, <1>14, <1>15, <1>16, <1>17 DEF NetworkInv, InStep

LEMMA InitNetwork == Init => NetworkInv
<1> SUFFICES ASSUME Init PROVE NetworkInv
  OBVIOUS
<1>0. 0 \in 0..MaxLegs /\ MaxLegs \in Nat /\ first \in Dispatchers
  BY NetworkConstants
<1>1. /\ \A l \in Legs : requests[l] = NoRequest /\ requests[l].manager = NoDispatcher
      /\ \A d \in Dispatchers, id \in Ids : requestsById[d][id] = 0 /\ builders[d][id] = NoBuilder
      /\ \A id \in Ids : inflight[id] = 0 /\ sent[id] = 0
  BY Records DEF Init
<1>2. NetworkTyped
  BY <1>0, NoBuilderIsOne DEF Init, NetworkTyped, MapsTyped
<1>3. LegsInOrder(requests, done)
  <2> SUFFICES ASSUME NEW id \in Ids, NEW k \in 1..MaxLegs
               PROVE requests[<<id, k>>].manager = NoDispatcher /\ ~(k <= sent[id])
    BY DEF LegsInOrder
  <2> QED
    BY <1>0, <1>1 DEF Legs
<1>4. RawIsRaw(requests)
  BY <1>1 DEF RawIsRaw
<1>5. LastLegKnown(requests, requestsById)
  BY <1>1 DEF LastLegKnown
<1>6. InflightKnown(requests, requestsById, inflight)
  BY <1>1 DEF InflightKnown
<1>7. BuildersInOrder(requestsById, builders, done)
  <2>1. \A d \in Dispatchers, id \in Ids :
          /\ builders[d][id].requests = <<>> /\ ~builders[d][id].finished
          /\ Len(builders[d][id].requests) = 0 /\ requestsById[d][id] = 0
    BY <1>1, NoBuilderIsOne
  <2> QED
    BY <2>1 DEF BuildersInOrder
<1>8. FirstKnows(requests, requestsById, builders, done)
  <2>1. \A d \in Dispatchers, id \in Ids : builders[d][id].requests = <<>>
    BY <1>1, NoBuilderIsOne
  <2>2. \A id \in Ids, k \in 1..MaxLegs : ~(k <= sent[id])
    BY <1>0, <1>1
  <2> QED
    BY <1>0, <1>1, <2>1, <2>2 DEF FirstKnows
<1> QED
  BY <1>2, <1>3, <1>4, <1>5, <1>6, <1>7, <1>8 DEF NetworkInv, InStep, NetworkTyped

LEMMA StepNetwork == NetworkInv /\ [Next]_vars => NetworkInv'
<1> SUFFICES ASSUME NetworkInv, [Next]_vars PROVE NetworkInv'
  OBVIOUS
<1>1. CASE Next
  BY <1>1, RequestWillBeSent, ExtraInfoComes, ResponseReceived, DataReceived, WebBundle,
     LoadingOver, Commit, ClearRequests, DispatcherRemoved, Intercepted DEF Next
<1>2. CASE UNCHANGED vars
  <2>1. /\ NetworkTyped /\ InStep(requests, requestsById, builders, inflight, done)
        /\ UNCHANGED <<requests, requestsById, builders, inflight, removed, home, sent,
                       requestInfos, responseInfos, done>>
    BY <1>2 DEF NetworkInv, vars
  <2>2. InStep(requests', requestsById', builders', inflight', done')
    BY <2>1
  <2> QED
    BY <2>1, <2>2, InStepKept DEF NetworkTyped
<1> QED
  BY <1>1, <1>2

(* A request is known to one dispatcher, its manager, and a navigation in  *)
(* flight is there to be adopted (NetworkManager.ts:952), whatever targets *)
(* come and go.                                                            *)
THEOREM NavigationsKeepTheirHands == SdkSpec => []NavigationsChangeHands
<1>1. NetworkInv => NavigationsChangeHands
  <2> SUFFICES ASSUME NetworkInv PROVE NavigationsChangeHands
    OBVIOUS
  <2>1. OneDispatcherKnows
    BY DEF NetworkInv, InStep, LastLegKnown, OneDispatcherKnows
  <2>2. InflightCanBeAdopted
    BY DEF NetworkInv, InStep, InflightKnown, InflightCanBeAdopted
  <2> QED
    BY <2>1, <2>2 DEF NavigationsChangeHands
<1> QED
  BY SdkStarts, SdkStep, InitNetwork, StepNetwork, <1>1, PTL DEF SdkSpec, sdkVars

(* A step that brings no info: what it shows of the legs stays, and what   *)
(* waits in the builders stays or is forgotten with a load that is over.   *)
LEMMA InfosStay ==
  ASSUME NetworkInv, InfosInOrder, UNCHANGED <<sent, requestInfos, responseInfos>>,
         \A id \in Ids : home'[id] = first => home[id] = first,
         \A l \in Legs : /\ requests'[l].requestInfo = requests[l].requestInfo
                         /\ requests'[l].responseInfo = requests[l].responseInfo,
         \A id \in Ids : home[id] = first /\ id \in done => id \in done',
         \A id \in Ids : home[id] = first =>
           \/ builders'[first][id] = builders[first][id]
           \/ id \in done' /\ builders'[first][id] = NoBuilder
           \/ /\ id \notin done \/ builders[first][id] # NoBuilder
              /\ builders'[first][id].requests = builders[first][id].requests
              /\ builders'[first][id].requestInfo = builders[first][id].requestInfo
              /\ builders'[first][id].responseInfo = builders[first][id].responseInfo
  PROVE  InfosInOrder'
<1> SUFFICES ASSUME NEW id \in Ids
             PROVE  /\ ToldInOrder(requestInfos[id]) /\ ToldInOrder(responseInfos[id])
                    /\ home'[id] = first =>
                         /\ \A k \in 1..MaxLegs : k <= sent[id] =>
                              /\ requests'[<<id, k>>].requestInfo = At(requestInfos[id], k)
                              /\ requests'[<<id, k>>].responseInfo = At(responseInfos[id], k)
                         /\ \/ id \in done' /\ builders'[first][id] = NoBuilder
                            \/ /\ InPlace(requestInfos[id], sent[id], builders'[first][id].requestInfo)
                               /\ InPlace(responseInfos[id], sent[id],
                                          builders'[first][id].responseInfo)
                               /\ sent[id] = Len(builders'[first][id].requests)
  BY DEF InfosInOrder, ToldInOrder, ToldOf, Placed, InPlace, At
<1>0. ToldInOrder(requestInfos[id]) /\ ToldInOrder(responseInfos[id])
  BY DEF InfosInOrder
<1> SUFFICES ASSUME home'[id] = first
             PROVE  /\ \A k \in 1..MaxLegs : k <= sent[id] =>
                         /\ requests'[<<id, k>>].requestInfo = At(requestInfos[id], k)
                         /\ requests'[<<id, k>>].responseInfo = At(responseInfos[id], k)
                    /\ \/ id \in done' /\ builders'[first][id] = NoBuilder
                       \/ /\ InPlace(requestInfos[id], sent[id], builders'[first][id].requestInfo)
                          /\ InPlace(responseInfos[id], sent[id], builders'[first][id].responseInfo)
                          /\ sent[id] = Len(builders'[first][id].requests)
  BY <1>0
<1>1. /\ \A k \in 1..MaxLegs : k <= sent[id] =>
           /\ requests[<<id, k>>].requestInfo = At(requestInfos[id], k)
           /\ requests[<<id, k>>].responseInfo = At(responseInfos[id], k)
      /\ \/ id \in done /\ builders[first][id] = NoBuilder
         \/ /\ InPlace(requestInfos[id], sent[id], builders[first][id].requestInfo)
            /\ InPlace(responseInfos[id], sent[id], builders[first][id].responseInfo)
            /\ sent[id] = Len(builders[first][id].requests)
  BY DEF InfosInOrder, Placed
<1>2. \A k \in 1..MaxLegs : <<id, k>> \in Legs
  BY DEF Legs
<1>3. \/ id \in done' /\ builders'[first][id] = NoBuilder
      \/ /\ InPlace(requestInfos[id], sent[id], builders'[first][id].requestInfo)
         /\ InPlace(responseInfos[id], sent[id], builders'[first][id].responseInfo)
         /\ sent[id] = Len(builders'[first][id].requests)
  BY <1>1
<1> QED
  BY <1>1, <1>2, <1>3

(* Adoption leaves the loads of the first dispatcher alone.                *)
LEMMA AdoptionKeeps ==
  ASSUME NetworkInv, NEW id \in Ids
  PROVE  /\ \A l \in Legs :
              /\ RequestsAfter(home[id], id)[l].requestInfo = requests[l].requestInfo
              /\ RequestsAfter(home[id], id)[l].responseInfo = requests[l].responseInfo
         /\ \A j \in Ids : home[j] = first =>
              BuildersAfter(home[id], id)[first][j] = builders[first][j]
         /\ home[id] = first =>
              /\ BuildersAfter(first, id) = builders
              /\ id \notin done => ByIdAfter(first, id)[first][id] = sent[id]
<1> DEFINE l == <<id, inflight[id]>>
           d == home[id]
           old == requests[l].manager
<1>0. /\ NetworkTyped /\ InStep(requests, requestsById, builders, inflight, done)
      /\ requests \in [Legs -> {NoRequest} \cup Request]
      /\ builders \in [Dispatchers -> [Ids -> Builder]]
      /\ requestsById \in [Dispatchers -> [Ids -> 0..MaxLegs]]
      /\ d \in Dispatchers /\ first \in Dispatchers
  BY NetworkConstants DEF NetworkInv, NetworkTyped, MapsTyped
<1>1. CASE ~adopts(d, id)
  <2>1. /\ RequestsAfter(d, id) = requests /\ BuildersAfter(d, id) = builders
        /\ ByIdAfter(d, id) = requestsById
    BY <1>1 DEF RequestsAfter, BuildersAfter, ByIdAfter
  <2>2. home[id] = first /\ id \notin done => requestsById[first][id] = sent[id]
    BY <1>0 DEF InStep, FirstKnows
  <2> QED
    BY <2>1, <2>2
<1>2. CASE adopts(d, id)
  <2>1. /\ inflight[id] = sent[id] /\ sent[id] # 0 /\ requestsById[old][id] = sent[id]
        /\ requestsById[d][id] = 0
    <3>1. inflight[id] # 0 /\ requestsById[d][id] = 0
      BY <1>2 DEF adopts
    <3>2. /\ inflight[id] = sent[id]
          /\ requestsById[requests[<<id, sent[id]>>].manager][id] = sent[id]
      BY <1>0, <3>1 DEF InStep, InflightKnown
    <3>3. old = requests[<<id, sent[id]>>].manager
      BY <3>2
    <3> HIDE DEF old, d
    <3> QED
      BY <3>1, <3>2, <3>3
  <2>2. /\ l \in Legs /\ requests[l] \in Request /\ old \in Dispatchers
        /\ sent[id] \in 1..MaxLegs /\ old # d
    BY <1>0, <2>1, KnownLegExists, Records
  <2>3. home[id] # first
    BY <1>0, <2>1, <2>2 DEF InStep, FirstKnows
  <2>4. ASSUME NEW m \in Legs
        PROVE  /\ RequestsAfter(d, id)[m].requestInfo = requests[m].requestInfo
               /\ RequestsAfter(d, id)[m].responseInfo = requests[m].responseInfo
    <3> DEFINE s == [requests[l] EXCEPT !.manager = d]
    <3>1. RequestsAfter(d, id) = [requests EXCEPT ![l] = s]
      BY <1>2 DEF RequestsAfter
    <3>2. s.requestInfo = requests[l].requestInfo /\ s.responseInfo = requests[l].responseInfo
      BY <2>2 DEF Request
    <3> HIDE DEF s, l
    <3>3. RequestsAfter(d, id)[m] = IF m = l THEN s ELSE requests[m]
      BY <1>0, <2>2, <3>1
    <3> QED
      BY <3>2, <3>3
  <2>5. ASSUME NEW j \in Ids, home[j] = first
        PROVE  BuildersAfter(d, id)[first][j] = builders[first][j]
    <3>1. j # id
      BY <2>3, <2>5
    <3>2. \/ BuildersAfter(d, id) = builders
          \/ BuildersAfter(d, id) =
               [builders EXCEPT ![d][id] = builders[old][id], ![old][id] = NoBuilder]
      BY DEF BuildersAfter
    <3> HIDE DEF d, old
    <3> QED
      BY <1>0, <2>2, <3>1, <3>2
  <2> QED
    BY <2>3, <2>4, <2>5
<1> QED
  BY <1>1, <1>2

(* The steps that bring no info and no leg.                                *)
QuietStep ==
  \/ \E id \in Ids :
       \/ responseReceived(id) \/ dataReceived(id) \/ webBundle(id) \/ markAsIntercepted(id)
       \/ \E mayAdopt \in BOOLEAN : loadingOver(id, mayAdopt)
       \/ \E d \in Dispatchers : commit(id, d)
  \/ \E d \in Dispatchers : clearRequests(d) \/ modelRemoved(d)

LEMMA QuietInfos ==
  ASSUME NetworkInv, InfosInOrder, QuietStep
  PROVE  InfosInOrder'
<1>0. /\ NetworkTyped /\ InStep(requests, requestsById, builders, inflight, done)
      /\ requests \in [Legs -> {NoRequest} \cup Request]
      /\ builders \in [Dispatchers -> [Ids -> Builder]] /\ first \in Dispatchers
      /\ home \in [Ids -> Dispatchers]
  BY NetworkConstants DEF NetworkInv, NetworkTyped, MapsTyped
<1>1. ASSUME NEW id \in Ids, responseReceived(id) PROVE InfosInOrder'
  <2> DEFINE l == <<id, requestsById[home[id]][id]>>
  <2>1. /\ requests' = [requests EXCEPT ![l] = Responded(requests[l])]
        /\ UNCHANGED <<builders, backEnd>>
    BY <1>1 DEF responseReceived
  <2>2. Responded(requests[l]).requestInfo = requests[l].requestInfo /\
        Responded(requests[l]).responseInfo = requests[l].responseInfo
    <3>1. requestsById[home[id]][id] = sent[id] /\ sent[id] # 0
      BY <1>0, <1>1 DEF responseReceived, InStep, LastLegKnown
    <3> QED
      BY <1>0, <3>1, KnownLegExists, RespondedKeeps
  <2> HIDE DEF l
  <2>3. \A m \in Legs : requests'[m] = IF m = l THEN Responded(requests[l]) ELSE requests[m]
    BY <1>0, <2>1
  <2>4. \A m \in Legs : /\ requests'[m].requestInfo = requests[m].requestInfo
                        /\ requests'[m].responseInfo = requests[m].responseInfo
    BY <2>2, <2>3
  <2> QED
    BY <2>1, <2>4, InfosStay DEF backEnd
<1>2. ASSUME NEW id \in Ids, dataReceived(id) PROVE InfosInOrder'
  <2>1. /\ builders' = BuildersAfter(home[id], id) /\ requests' = RequestsAfter(home[id], id)
        /\ UNCHANGED backEnd
    BY <1>2 DEF dataReceived
  <2> QED
    BY <2>1, AdoptionKeeps, InfosStay DEF backEnd
<1>3. ASSUME NEW id \in Ids, webBundle(id) PROVE InfosInOrder'
  <2> DEFINE d == home[id]
             b == builders[d][id]
             c == [b EXCEPT !.bundle = TRUE]
             l == <<id, b.requests[Len(b.requests)]>>
  <2>1. /\ b # NoBuilder /\ builders' = [builders EXCEPT ![d][id] = c]
        /\ requests' = requests \/ requests' = [requests EXCEPT ![l].bundle = TRUE]
        /\ UNCHANGED backEnd /\ d \in Dispatchers
    BY <1>0, <1>3 DEF webBundle, updateFinal, Builder
  <2>2. \A m \in Legs : /\ requests'[m].requestInfo = requests[m].requestInfo
                        /\ requests'[m].responseInfo = requests[m].responseInfo
    <3>1. CASE requests' = [requests EXCEPT ![l].bundle = TRUE]
      <4> HIDE DEF l
      <4>1. \A m \in Legs : requests'[m] =
              IF m = l THEN [requests[l] EXCEPT !.bundle = TRUE] ELSE requests[m]
        BY <1>0, <3>1
      <4> QED
        BY <1>0, <4>1 DEF Request, NoRequest
    <3> QED
      BY <2>1, <3>1
  <2>3. /\ c.requests = b.requests /\ c.requestInfo = b.requestInfo
        /\ c.responseInfo = b.responseInfo
    BY <1>0, <2>1 DEF Builder
  <2> HIDE DEF c
  <2>4. ASSUME NEW j \in Ids, home[j] = first
        PROVE  \/ builders'[first][j] = builders[first][j]
               \/ /\ builders[first][j] # NoBuilder
                  /\ builders'[first][j].requests = builders[first][j].requests
                  /\ builders'[first][j].requestInfo = builders[first][j].requestInfo
                  /\ builders'[first][j].responseInfo = builders[first][j].responseInfo
    <3>1. builders'[first][j] = IF j = id /\ d = first THEN c ELSE builders[first][j]
      BY <1>0, <2>1
    <3> QED
      BY <2>1, <2>3, <3>1
  <2> QED
    BY <2>1, <2>2, <2>4, InfosStay DEF backEnd
<1>4. ASSUME NEW id \in Ids, NEW mayAdopt \in BOOLEAN, loadingOver(id, mayAdopt)
      PROVE  InfosInOrder'
  <2> DEFINE d == home[id]
             byId == IF mayAdopt THEN ByIdAfter(d, id) ELSE requestsById
             bs == IF mayAdopt THEN BuildersAfter(d, id) ELSE builders
             rs == IF mayAdopt THEN RequestsAfter(d, id) ELSE requests
             k == byId[d][id]
             b == [bs[d][id] EXCEPT !.finished = TRUE]
             x == <<id, k>>
             y == <<id, b.requests[Len(b.requests)]>>
  <2>1. /\ id \notin done /\ done' = done \cup {id}
        /\ UNCHANGED <<home, sent, requestInfos, responseInfos>>
        /\ \/ builders' = bs /\ requests' = rs
           \/ /\ builders' = [bs EXCEPT ![d][id] = b]
              /\ requests' = [rs EXCEPT ![x].finished = TRUE, ![y].bundle = b.bundle]
    BY <1>4 DEF loadingOver
  <2>2. InStep(rs, byId, bs, inflight, done)
    BY <1>0, <2>1, Adopted
  <2>3. /\ rs \in [Legs -> {NoRequest} \cup Request] /\ bs \in [Dispatchers -> [Ids -> Builder]]
        /\ d \in Dispatchers
    BY <1>0, <2>2 DEF InStep, MapsTyped
  <2>4. /\ \A l \in Legs : /\ rs[l].requestInfo = requests[l].requestInfo
                           /\ rs[l].responseInfo = requests[l].responseInfo
        /\ \A j \in Ids : home[j] = first => bs[first][j] = builders[first][j]
    BY AdoptionKeeps
  <2> HIDE DEF bs, rs
  <2>5. \A m \in Legs : /\ requests'[m].requestInfo = requests[m].requestInfo
                        /\ requests'[m].responseInfo = requests[m].responseInfo
    <3>1. CASE requests' = [rs EXCEPT ![x].finished = TRUE, ![y].bundle = b.bundle]
      <4> DEFINE v == b.bundle
                 rt == [rs EXCEPT ![x].finished = TRUE]
      <4>1. requests' = [rt EXCEPT ![y].bundle = v]
        BY <3>1
      <4> HIDE DEF x, y, v
      <4>2. /\ rt \in [Legs -> {NoRequest} \cup Request]
            /\ \A m \in Legs : rt[m] = IF m = x THEN [rs[x] EXCEPT !.finished = TRUE] ELSE rs[m]
        <5>1. \A r \in Request : [r EXCEPT !.finished = TRUE] \in Request
          BY DEF Request
        <5>2. [NoRequest EXCEPT !.finished = TRUE] = NoRequest
          BY DEF NoRequest
        <5> QED
          BY <2>3, <5>1, <5>2
      <4>3. \A m \in Legs : /\ rt[m].requestInfo = rs[m].requestInfo
                            /\ rt[m].responseInfo = rs[m].responseInfo
        <5>1. \A r \in {NoRequest} \cup Request :
                /\ [r EXCEPT !.finished = TRUE].requestInfo = r.requestInfo
                /\ [r EXCEPT !.finished = TRUE].responseInfo = r.responseInfo
          BY DEF Request, NoRequest
        <5> QED
          BY <2>3, <4>2, <5>1
      <4> HIDE DEF rt
      <4>4. \A m \in Legs : requests'[m] = IF m = y THEN [rt[y] EXCEPT !.bundle = v] ELSE rt[m]
        BY <4>1, <4>2
      <4>5. \A m \in Legs : /\ requests'[m].requestInfo = rt[m].requestInfo
                            /\ requests'[m].responseInfo = rt[m].responseInfo
        <5>1. \A r \in {NoRequest} \cup Request :
                /\ [r EXCEPT !.bundle = v].requestInfo = r.requestInfo
                /\ [r EXCEPT !.bundle = v].responseInfo = r.responseInfo
          BY DEF Request, NoRequest
        <5> SUFFICES ASSUME NEW m \in Legs
                     PROVE  /\ requests'[m].requestInfo = rt[m].requestInfo
                            /\ requests'[m].responseInfo = rt[m].responseInfo
          OBVIOUS
        <5>2. CASE m = y
          <6>1. rt[y] \in {NoRequest} \cup Request /\ requests'[m] = [rt[y] EXCEPT !.bundle = v]
            BY <4>2, <4>4, <5>2
          <6> DEFINE r == rt[y]
          <6>2. r \in {NoRequest} \cup Request /\ requests'[m] = [r EXCEPT !.bundle = v]
            BY <6>1
          <6> HIDE DEF r
          <6>3. requests'[m].requestInfo = r.requestInfo /\ requests'[m].responseInfo = r.responseInfo
            BY <5>1, <6>2
          <6> QED
            BY <5>2, <6>3 DEF r
        <5>3. CASE m # y
          BY <4>4, <5>3
        <5> QED
          BY <5>2, <5>3
      <4> QED
        BY <2>4, <4>3, <4>5
    <3> QED
      BY <2>1, <2>4, <3>1
  <2>6. /\ b.requests = bs[d][id].requests /\ b.requestInfo = bs[d][id].requestInfo
        /\ b.responseInfo = bs[d][id].responseInfo
    <3>1. bs[d][id] \in Builder
      BY <2>3
    <3> QED
      BY <3>1 DEF Builder
  <2> HIDE DEF b
  <2>7. ASSUME NEW j \in Ids, home[j] = first
        PROVE  \/ builders'[first][j] = builders[first][j]
               \/ /\ j \notin done
                  /\ builders'[first][j].requests = builders[first][j].requests
                  /\ builders'[first][j].requestInfo = builders[first][j].requestInfo
                  /\ builders'[first][j].responseInfo = builders[first][j].responseInfo
    <3>1. bs[first][j] = builders[first][j]
      BY <2>4, <2>7
    <3>2. CASE builders' = [bs EXCEPT ![d][id] = b]
      <4>1. builders'[first][j] = IF d = first /\ j = id THEN b ELSE bs[first][j]
        BY <1>0, <2>3, <3>2
      <4> QED
        BY <2>1, <2>6, <3>1, <4>1
    <3> QED
      BY <2>1, <3>1, <3>2
  <2> QED
    BY <2>1, <2>5, <2>7, InfosStay
<1>5. ASSUME NEW id \in Ids, NEW d \in Dispatchers, commit(id, d) PROVE InfosInOrder'
  <2>1. /\ d # first /\ home' = [home EXCEPT ![id] = d]
        /\ UNCHANGED <<requests, builders, sent, requestInfos, responseInfos, done>>
    BY <1>5 DEF commit
  <2>2. \A j \in Ids : home'[j] = first => home[j] = first
    BY <1>0, <2>1
  <2> QED
    BY <2>1, <2>2, InfosStay
<1>6. ASSUME NEW d \in Dispatchers, clearRequests(d) PROVE InfosInOrder'
  <2>1. /\ builders' = [builders EXCEPT ![d] = [j \in Ids |->
             IF @[j].finished THEN NoBuilder ELSE @[j]]]
        /\ UNCHANGED <<requests, backEnd>>
    BY <1>6 DEF clearRequests
  <2>2. \A j \in Ids : builders'[first][j] =
          IF first = d /\ builders[d][j].finished THEN NoBuilder ELSE builders[first][j]
    BY <1>0, <2>1
  <2>3. \A j \in Ids : builders[first][j].finished => j \in done
    BY <1>0 DEF InStep, BuildersInOrder
  <2> QED
    BY <2>1, <2>2, <2>3, InfosStay DEF backEnd
<1>7. ASSUME NEW d \in Dispatchers, modelRemoved(d) PROVE InfosInOrder'
  <2>1. UNCHANGED <<requests, builders, backEnd>>
    BY <1>7 DEF modelRemoved
  <2> QED
    BY <2>1, InfosStay DEF backEnd
<1>8. ASSUME NEW id \in Ids, markAsIntercepted(id) PROVE InfosInOrder'
  <2>1. /\ UNCHANGED <<builders, backEnd>>
        /\ \A l \in Legs : /\ requests'[l].requestInfo = requests[l].requestInfo
                           /\ requests'[l].responseInfo = requests[l].responseInfo
    BY <1>8, LegsAreMarked
  <2> QED
    BY <2>1, InfosStay DEF backEnd
<1> QED
  BY <1>1, <1>2, <1>3, <1>4, <1>5, <1>6, <1>7, <1>8 DEF QuietStep

(* What happens in the places of a builder whose infos were told.          *)
LEMMA NextPlace ==
  ASSUME NEW legs \in Seq(Nat), NEW s \in Seq(Nat), NEW n \in Nat, InPlace(legs, n, s)
  PROVE  At(s, n + 1) = At(legs, n + 1) /\ InPlace(legs, n + 1, take(s, n + 1))
<1>1. /\ Len(s) = Len(legs) /\ Len(legs) \in Nat
      /\ \A i \in 1..Len(s) : s[i] = IF i <= n THEN Taken ELSE legs[i]
  BY DEF InPlace
<1>2. At(s, n + 1) = At(legs, n + 1)
  BY <1>1 DEF At
<1>3. /\ Len(take(s, n + 1)) = Len(s)
      /\ \A i \in 1..Len(s) : take(s, n + 1)[i] = IF i = n + 1 THEN Taken ELSE s[i]
  BY TakeKeeps
<1>4. \A i \in 1..Len(s) : i <= n + 1 <=> i = n + 1 \/ i <= n
  OBVIOUS
<1>5. \A i \in 1..Len(s) : take(s, n + 1)[i] = IF i <= n + 1 THEN Taken ELSE legs[i]
  BY <1>1, <1>3, <1>4
<1> QED
  BY <1>1, <1>2, <1>3, <1>5 DEF InPlace

LEMMA GonePlace ==
  ASSUME NEW legs \in Seq(Nat), NEW s \in Seq(Nat), NEW n \in Nat, InPlace(legs, n, s),
         NEW p \in 1..n
  PROVE  At(s, p) = Taken /\ InPlace(legs, n, take(s, p))
<1>1. /\ Len(s) = Len(legs)
      /\ \A i \in 1..Len(s) : s[i] = IF i <= n THEN Taken ELSE legs[i]
  BY DEF InPlace
<1>2. At(s, p) = Taken
  BY <1>1 DEF At
<1>3. /\ Len(take(s, p)) = Len(s)
      /\ \A i \in 1..Len(s) : take(s, p)[i] = IF i = p THEN Taken ELSE s[i]
  BY TakeKeeps
<1> QED
  BY <1>1, <1>2, <1>3 DEF InPlace

LEMMA NewPlace ==
  ASSUME NEW legs \in Seq(Nat), NEW s \in Seq(Nat), NEW n \in Nat, InPlace(legs, n, s),
         NEW k \in Nat
  PROVE  LET p == Len(s) + 1 IN
         /\ p \in Nat /\ At(Append(s, k), p) = k /\ At(Append(legs, k), p) = k
         /\ \A i \in Nat : i # p => At(Append(legs, k), i) = At(legs, i)
         /\ p <= n => InPlace(Append(legs, k), n, take(Append(s, k), p))
         /\ ~(p <= n) => InPlace(Append(legs, k), n, Append(s, k))
<1> DEFINE p == Len(s) + 1
           t == Append(s, k)
           u == Append(legs, k)
<1>1. /\ Len(s) = Len(legs) /\ Len(s) \in Nat
      /\ \A i \in 1..Len(s) : s[i] = IF i <= n THEN Taken ELSE legs[i]
  BY DEF InPlace
<1>2. /\ t \in Seq(Nat) /\ u \in Seq(Nat) /\ Len(t) = p /\ Len(u) = p /\ p \in Nat
      /\ t[p] = k /\ u[p] = k
      /\ \A i \in 1..Len(s) : t[i] = s[i] /\ u[i] = legs[i]
  BY <1>1
<1>3. At(t, p) = k /\ At(u, p) = k
  BY <1>1, <1>2 DEF At
<1>4. \A i \in Nat : i # p => At(u, i) = At(legs, i)
  <2> HIDE DEF u
  <2>1. \A i \in Nat : i # p => (i \in 1..Len(u) <=> i \in 1..Len(legs))
    BY <1>1, <1>2
  <2> QED
    BY <1>1, <1>2, <2>1 DEF At
<1> HIDE DEF t, u
<1>5. ASSUME p <= n PROVE InPlace(u, n, take(t, p))
  <2>1. /\ Len(take(t, p)) = Len(t)
        /\ \A i \in 1..Len(t) : take(t, p)[i] = IF i = p THEN Taken ELSE t[i]
    BY <1>2, TakeKeeps
  <2>2. \A i \in 1..Len(t) : take(t, p)[i] = IF i <= n THEN Taken ELSE u[i]
    <3> SUFFICES ASSUME NEW i \in 1..Len(t)
                 PROVE  take(t, p)[i] = IF i <= n THEN Taken ELSE u[i]
      OBVIOUS
    <3>1. i <= n /\ (i # p => i \in 1..Len(s))
      BY <1>1, <1>2, <1>5
    <3> QED
      BY <1>1, <1>2, <2>1, <3>1
  <2> QED
    BY <1>2, <2>1, <2>2 DEF InPlace
<1>6. ASSUME ~(p <= n) PROVE InPlace(u, n, t)
  <2>1. \A i \in 1..Len(t) : t[i] = IF i <= n THEN Taken ELSE u[i]
    <3> SUFFICES ASSUME NEW i \in 1..Len(t) PROVE t[i] = IF i <= n THEN Taken ELSE u[i]
      OBVIOUS
    <3>1. i = p \/ i \in 1..Len(s)
      BY <1>1, <1>2
    <3> QED
      BY <1>1, <1>2, <1>6, <3>1
  <2> QED
    BY <1>2, <2>1 DEF InPlace
<1> QED
  BY <1>2, <1>3, <1>4, <1>5, <1>6 DEF t, u

(* The order of what was told, when another leg is told of.                *)
LEMMA ToldStaysInOrder ==
  ASSUME NEW legs, ToldInOrder(legs), NEW k \in 1..MaxLegs, \A i \in 1..Len(legs) : legs[i] < k
  PROVE  ToldInOrder(Append(legs, k)) /\ Len(legs) + 1 <= k
<1> DEFINE u == Append(legs, k)
           n == Len(legs)
<1>1. legs \in Seq(1..MaxLegs) /\ n \in Nat /\ MaxLegs \in Nat /\ k \in Nat
  BY NetworkConstants DEF ToldInOrder
<1>2. /\ u \in Seq(1..MaxLegs) /\ Len(u) = n + 1 /\ u[n + 1] = k
      /\ \A i \in 1..n : u[i] = legs[i]
  BY <1>1
<1>3. \A i \in 1..n : legs[i] \in Nat /\ legs[i] >= i
  BY <1>1 DEF ToldInOrder
<1>4. n + 1 <= k
  <2>1. CASE n = 0
    BY <2>1, <1>1
  <2>2. CASE n # 0
    <3>1. n \in 1..n
      BY <1>1, <2>2
    <3>2. legs[n] >= n /\ legs[n] < k /\ legs[n] \in Nat
      BY <1>3, <3>1
    <3> QED
      BY <1>1, <3>2
  <2> QED
    BY <2>1, <2>2
<1> HIDE DEF u
<1>5. ASSUME NEW j \in Nat, j \notin ToldOf(legs), j # k PROVE j \notin ToldOf(u)
  <2>1. \A i \in 1..Len(u) : i = n + 1 \/ i \in 1..n
    BY <1>1, <1>2
  <2> QED
    BY <1>2, <1>5, <2>1 DEF ToldOf
<1>6. ASSUME NEW i \in 1..n, legs[i] # i PROVE \E j \in 1..i : j \notin ToldOf(u)
  <2>1. PICK j \in 1..i : j \notin ToldOf(legs)
    BY <1>6 DEF ToldInOrder
  <2>2. j \in Nat /\ j # k
    BY <1>1, <1>4
  <2> QED
    BY <1>5, <2>1, <2>2
<1>7. ASSUME k # n + 1 PROVE \E j \in 1..n + 1 : j \notin ToldOf(u)
  <2>1. CASE \E i \in 1..n : legs[i] # i
    <3>1. PICK i \in 1..n : legs[i] # i
      BY <2>1
    <3>2. PICK j \in 1..i : j \notin ToldOf(u)
      BY <1>6, <3>1
    <3>3. j \in 1..n + 1
      BY <1>1
    <3> QED
      BY <3>2, <3>3
  <2>2. CASE \A i \in 1..n : legs[i] = i
    <3>1. n + 1 \notin ToldOf(legs) /\ n + 1 \in Nat /\ n + 1 \in 1..n + 1
      BY <1>1, <2>2 DEF ToldOf
    <3> QED
      BY <1>5, <1>7, <3>1
  <2> QED
    BY <2>1, <2>2
<1>8. ASSUME NEW i \in 1..Len(u)
      PROVE  u[i] >= i /\ (u[i] = i \/ \E j \in 1..i : j \notin ToldOf(u))
  <2>1. CASE i = n + 1
    BY <1>1, <1>2, <1>4, <1>7, <2>1
  <2>2. CASE i # n + 1
    <3>1. i \in 1..n
      BY <1>1, <1>2, <2>2
    <3> QED
      BY <1>2, <1>3, <1>6, <3>1
  <2> QED
    BY <2>1, <2>2
<1> QED
  BY <1>2, <1>4, <1>8 DEF ToldInOrder, u

(* What holds of the load whose leg or info comes; the others are left.    *)
LEMMA OneLoadPlaced ==
  ASSUME NetworkInv, InfosInOrder, NEW id \in Ids, UNCHANGED <<home, done>>,
         ToldInOrder(requestInfos'[id]), ToldInOrder(responseInfos'[id]),
         home[id] = first => Placed(id, requests, builders[first][id])',
         \A j \in Ids : j # id =>
           /\ sent'[j] = sent[j] /\ requestInfos'[j] = requestInfos[j]
           /\ responseInfos'[j] = responseInfos[j] /\ builders'[first][j] = builders[first][j],
         \A l \in Legs : l[1] # id => requests'[l] = requests[l]
  PROVE  InfosInOrder'
<1> SUFFICES ASSUME NEW j \in Ids
             PROVE  /\ ToldInOrder(requestInfos'[j]) /\ ToldInOrder(responseInfos'[j])
                    /\ home[j] = first => Placed(j, requests, builders[first][j])'
  BY DEF InfosInOrder, ToldInOrder, ToldOf
<1>1. CASE j = id
  BY <1>1
<1>2. CASE j # id
  <2>1. ToldInOrder(requestInfos'[j]) /\ ToldInOrder(responseInfos'[j])
    BY <1>2 DEF InfosInOrder
  <2>2. ASSUME home[j] = first PROVE Placed(j, requests, builders[first][j])'
    <3>1. Placed(j, requests, builders[first][j])
      BY <2>2 DEF InfosInOrder
    <3>2. \A n \in 1..MaxLegs : requests'[<<j, n>>] = requests[<<j, n>>]
      BY <1>2 DEF Legs
    <3>3. /\ sent'[j] = sent[j] /\ requestInfos'[j] = requestInfos[j]
          /\ responseInfos'[j] = responseInfos[j] /\ builders'[first][j] = builders[first][j]
      BY <1>2
    <3> QED
      BY <3>1, <3>2, <3>3 DEF Placed, InPlace, At
  <2> QED
    BY <2>1, <2>2
<1> QED
  BY <1>1, <1>2

(* The next leg takes what waits in its place.                             *)
LEMMA LegTakesInfos ==
  ASSUME NetworkInv, InfosInOrder, NEW id \in Ids, requestWillBeSent(id)
  PROVE  InfosInOrder'
<1> DEFINE k == sent[id] + 1
           l == <<id, k>>
           m == <<id, sent[id]>>
           b == builders[first][id]
           c == builders'[first][id]
<1>0. /\ NetworkTyped /\ sent[id] \in 0..MaxLegs /\ MaxLegs \in Nat /\ b \in Builder
      /\ sent \in [Ids -> 0..MaxLegs] /\ first \in Dispatchers
      /\ requestInfos[id] \in Seq(Nat) /\ responseInfos[id] \in Seq(Nat)
  <2>1. /\ NetworkTyped /\ sent[id] \in 0..MaxLegs /\ MaxLegs \in Nat /\ b \in Builder
        /\ sent \in [Ids -> 0..MaxLegs] /\ first \in Dispatchers
        /\ requestInfos[id] \in Seq(1..MaxLegs) /\ responseInfos[id] \in Seq(1..MaxLegs)
    BY NetworkConstants DEF NetworkInv, NetworkTyped, MapsTyped
  <2>2. 1..MaxLegs \subseteq Nat
    BY <2>1
  <2> QED
    BY <2>1, <2>2
<1>1. /\ home[id] = first /\ id \notin done /\ k \in 1..MaxLegs
      /\ sent' = [sent EXCEPT ![id] = k]
      /\ UNCHANGED <<home, requestInfos, responseInfos, done>>
      /\ NewLegOf(id) /\ RedirectedLegOf(id) /\ NextBuilderOf(id)
      /\ \A x \in Legs : x \notin {m, l} => requests'[x] = requests[x]
  BY LegIsSent
<1>2. sent'[id] = k /\ \A j \in Ids : j # id => sent'[j] = sent[j]
  BY <1>0, <1>1
<1>3. /\ \A n \in 1..MaxLegs : n <= sent[id] =>
           /\ requests[<<id, n>>].requestInfo = At(requestInfos[id], n)
           /\ requests[<<id, n>>].responseInfo = At(responseInfos[id], n)
      /\ InPlace(requestInfos[id], sent[id], b.requestInfo)
      /\ InPlace(responseInfos[id], sent[id], b.responseInfo)
      /\ sent[id] = Len(b.requests)
  BY <1>1 DEF InfosInOrder, Placed
<1>4. /\ c.requests = Append(b.requests, k)
      /\ c.requestInfo = take(b.requestInfo, k) /\ c.responseInfo = take(b.responseInfo, k)
      /\ \A d \in Dispatchers, j \in Ids :
           d # first \/ j # id => builders'[d][j] = builders[d][j]
  BY <1>1 DEF NextBuilderOf
<1>5. /\ b.requestInfo \in Seq(Nat) /\ b.responseInfo \in Seq(Nat) /\ b.requests \in Seq(Nat)
      /\ sent[id] \in Nat
  BY <1>0 DEF Builder
<1>6. /\ At(b.requestInfo, k) = At(requestInfos[id], k)
      /\ InPlace(requestInfos[id], k, take(b.requestInfo, k))
  BY <1>0, <1>3, <1>5, NextPlace
<1>7. /\ At(b.responseInfo, k) = At(responseInfos[id], k)
      /\ InPlace(responseInfos[id], k, take(b.responseInfo, k))
  BY <1>0, <1>3, <1>5, NextPlace
<1>8. ASSUME NEW n \in 1..MaxLegs, n <= k
      PROVE  /\ requests'[<<id, n>>].requestInfo = At(requestInfos[id], n)
             /\ requests'[<<id, n>>].responseInfo = At(responseInfos[id], n)
  <2>1. CASE n = k
    <3>1. /\ requests'[l].requestInfo = At(b.requestInfo, k)
          /\ requests'[l].responseInfo = At(b.responseInfo, k)
      BY <1>1 DEF NewLegOf
    <3> QED
      BY <1>6, <1>7, <2>1, <3>1
  <2>2. CASE n # k /\ n = sent[id]
    <3>1. /\ requests'[m].requestInfo = requests[m].requestInfo
          /\ requests'[m].responseInfo = requests[m].responseInfo
      BY <1>0, <1>1, <2>2 DEF RedirectedLegOf
    <3> QED
      BY <1>3, <2>2, <3>1
  <2>3. CASE n # k /\ n # sent[id]
    <3>1. <<id, n>> \in Legs /\ n <= sent[id]
      BY <1>0, <1>8, <2>3 DEF Legs
    <3> QED
      BY <1>1, <1>3, <2>3, <3>1
  <2> QED
    BY <2>1, <2>2, <2>3
<1>9. Len(c.requests) = k
  <2> HIDE DEF b, c
  <2> QED
    BY <1>3, <1>4, <1>5
<1>10. Placed(id, requests, builders[first][id])'
  <2>1. /\ InPlace(requestInfos'[id], sent'[id], c.requestInfo)
        /\ InPlace(responseInfos'[id], sent'[id], c.responseInfo)
    BY <1>1, <1>2, <1>4, <1>6, <1>7
  <2>2. \A n \in 1..MaxLegs : n <= sent'[id] =>
          /\ requests'[<<id, n>>].requestInfo = At(requestInfos'[id], n)
          /\ requests'[<<id, n>>].responseInfo = At(responseInfos'[id], n)
    BY <1>1, <1>2, <1>8
  <2>3. sent'[id] = Len(c.requests)
    BY <1>2, <1>9
  <2> QED
    BY <2>1, <2>2, <2>3 DEF Placed, InPlace, At
<1>11. \A x \in Legs : x[1] # id => requests'[x] = requests[x]
  BY <1>1
<1>12. ToldInOrder(requestInfos'[id]) /\ ToldInOrder(responseInfos'[id])
  BY <1>1 DEF InfosInOrder
<1> QED
  BY <1>0, <1>1, <1>2, <1>4, <1>10, <1>11, <1>12, OneLoadPlaced

(* An info that comes goes to the leg in its place, or waits for it.  What *)
(* there is of the other kind of the leg was given before.                 *)
LEMMA InfoFindsItsLeg ==
  ASSUME NetworkInv, InfosInOrder, NEW id \in Ids, NEW k \in 1..MaxLegs,
         requestWillBeSentExtraInfo(id, k) \/ responseReceivedExtraInfo(id, k)
  PROVE  InfosInOrder'
<1> DEFINE d == home[id]
           b == builders[d][id]
           c == builders'[d][id]
           n == sent[id]
<1>0. /\ NetworkTyped /\ InStep(requests, requestsById, builders, inflight, done)
      /\ requests \in [Legs -> {NoRequest} \cup Request]
      /\ builders \in [Dispatchers -> [Ids -> Builder]]
      /\ b \in Builder /\ d \in Dispatchers /\ first \in Dispatchers
      /\ sent \in [Ids -> 0..MaxLegs] /\ MaxLegs \in Nat /\ n \in Nat /\ n <= MaxLegs
      /\ requestInfos \in [Ids -> Seq(1..MaxLegs)] /\ responseInfos \in [Ids -> Seq(1..MaxLegs)]
      /\ k \in Nat
  BY NetworkConstants DEF NetworkInv, NetworkTyped, MapsTyped
<1>1. /\ b.requestInfo \in Seq(Nat) /\ b.responseInfo \in Seq(Nat) /\ b.requests \in Seq(Nat)
      /\ requestInfos[id] \in Seq(Nat) /\ responseInfos[id] \in Seq(Nat)
  <2>1. 1..MaxLegs \subseteq Nat
    BY <1>0
  <2>2. requestInfos[id] \in Seq(1..MaxLegs) /\ responseInfos[id] \in Seq(1..MaxLegs)
    BY <1>0
  <2> QED
    BY <1>0, <2>1, <2>2 DEF Builder
<1>2. d # first \/ b # NoBuilder \/ id \notin done
  BY DEF requestWillBeSentExtraInfo, responseReceivedExtraInfo, infoComes
<1>3. UNCHANGED <<home, sent, done>>
  BY DEF requestWillBeSentExtraInfo, responseReceivedExtraInfo
<1>4. d = first =>
        /\ \A i \in 1..MaxLegs : i <= n =>
             /\ requests[<<id, i>>].requestInfo = At(requestInfos[id], i)
             /\ requests[<<id, i>>].responseInfo = At(responseInfos[id], i)
        /\ InPlace(requestInfos[id], n, b.requestInfo)
        /\ InPlace(responseInfos[id], n, b.responseInfo)
        /\ n = Len(b.requests)
  BY <1>2 DEF InfosInOrder, Placed
<1>5. \A i \in 1..Len(b.requests) : b.requests[i] = i
  BY <1>0 DEF InStep, BuildersInOrder
<1>6. ToldInOrder(requestInfos[id]) /\ ToldInOrder(responseInfos[id])
  BY DEF InfosInOrder
(* What a sync in place p does.                                            *)
<1>7. ASSUME NEW e \in Builder, e.requests = b.requests, NEW p \in Nat,
             sync(d, id, e, p, requests)
      PROVE  /\ \A j \in Ids : j # id => builders'[first][j] = builders[first][j]
             /\ \A x \in Legs : x[1] # id => requests'[x] = requests[x]
             /\ ~(p \in 1..Len(b.requests)) => c = e /\ requests' = requests
             /\ p \in 1..Len(b.requests) =>
                  /\ c.requests = b.requests
                  /\ c.requestInfo = take(e.requestInfo, p)
                  /\ c.responseInfo = take(e.responseInfo, p)
                  /\ \A x \in Legs : x # <<id, p>> => requests'[x] = requests[x]
                  /\ <<id, p>> \in Legs => requests'[<<id, p>>] = WithInfos(requests[<<id, p>>], e, p)
  <2> DEFINE l == <<id, p>>
             f == [e EXCEPT !.requestInfo = take(@, p), !.responseInfo = take(@, p)]
  <2>1. There(e, p) <=> p \in 1..Len(b.requests)
    BY <1>7 DEF There
  <2>2. builders' = [builders EXCEPT ![d][id] = IF There(e, p) THEN f ELSE e]
    BY <1>7 DEF sync
  <2>3. requests' = IF There(e, p) THEN [requests EXCEPT ![l] = WithInfos(requests[l], e, p)]
                    ELSE requests
    <3>1. There(e, p) => e.requests[p] = p
      BY <1>5, <1>7, <2>1
    <3> QED
      BY <1>7, <3>1 DEF sync
  <2>4. /\ \A j \in Ids : j # id => builders'[first][j] = builders[first][j]
        /\ c = IF There(e, p) THEN f ELSE e
    <3> HIDE DEF d, f
    <3> QED
      BY <1>0, <2>2
  <2>5. /\ \A x \in Legs : x # l => requests'[x] = requests[x]
        /\ There(e, p) /\ l \in Legs => requests'[l] = WithInfos(requests[l], e, p)
    <3> HIDE DEF l
    <3> QED
      BY <1>0, <2>3
  <2>6. f.requests = e.requests /\ f.requestInfo = take(e.requestInfo, p)
        /\ f.responseInfo = take(e.responseInfo, p)
    BY <1>7 DEF Builder
  <2> HIDE DEF f
  <2>7. ~(p \in 1..Len(b.requests)) => c = e /\ requests' = requests
    BY <2>1, <2>3, <2>4
  <2>8. p \in 1..Len(b.requests) =>
          /\ c.requests = b.requests
          /\ c.requestInfo = take(e.requestInfo, p) /\ c.responseInfo = take(e.responseInfo, p)
          /\ \A x \in Legs : x # l => requests'[x] = requests[x]
          /\ l \in Legs => requests'[l] = WithInfos(requests[l], e, p)
    BY <1>7, <2>1, <2>4, <2>5, <2>6
  <2>9. \A x \in Legs : x[1] # id => requests'[x] = requests[x]
    BY <2>5
  <2> QED
    BY <2>4, <2>7, <2>8, <2>9
(* A leg of the load that exists is a request.                             *)
<1>8. ASSUME NEW p \in 1..n PROVE <<id, p>> \in Legs /\ requests[<<id, p>>] \in Request
  <2>1. p \in 1..MaxLegs /\ <<id, p>> \in Legs
    BY <1>0 DEF Legs
  <2>2. requests[<<id, p>>].manager # NoDispatcher
    BY <1>0, <2>1 DEF InStep, LegsInOrder
  <2> QED
    BY <1>0, <2>1, <2>2, Records
<1>9. CASE requestWillBeSentExtraInfo(id, k)
  <2> DEFINE p == Len(b.requestInfo) + 1
             e == [b EXCEPT !.requestInfo = Append(@, k)]
             ts == Append(requestInfos[id], k)
  <2>1. /\ requestInfos' = [requestInfos EXCEPT ![id] = ts] /\ responseInfos' = responseInfos
        /\ sync(d, id, e, p, requests) /\ \A i \in 1..Len(requestInfos[id]) : requestInfos[id][i] < k
    BY <1>9 DEF requestWillBeSentExtraInfo, infoComes
  <2>2. /\ e \in Builder /\ e.requests = b.requests /\ e.requestInfo = Append(b.requestInfo, k)
        /\ e.responseInfo = b.responseInfo /\ p \in Nat /\ p # 0
    <3>1. e \in Builder /\ SameLegs(b, e)
      BY <1>0, InfoAppended
    <3>2. e.requestInfo = Append(b.requestInfo, k) /\ e.responseInfo = b.responseInfo
      BY <1>0 DEF Builder
    <3> QED
      BY <1>1, <3>1, <3>2 DEF SameLegs
  <2>3. /\ requestInfos'[id] = ts /\ responseInfos'[id] = responseInfos[id]
        /\ \A j \in Ids : j # id => requestInfos'[j] = requestInfos[j]
    BY <1>0, <2>1
  <2>4. ToldInOrder(ts)
    BY <1>6, <2>1, ToldStaysInOrder
  <2> HIDE DEF e, ts, b, c, d
  <2>5. ASSUME d = first PROVE Placed(id, requests, builders[first][id])'
    <3>1. /\ At(e.requestInfo, p) = k /\ At(ts, p) = k
          /\ \A i \in Nat : i # p => At(ts, i) = At(requestInfos[id], i)
          /\ p <= n => InPlace(ts, n, take(e.requestInfo, p))
          /\ ~(p <= n) => InPlace(ts, n, e.requestInfo)
      BY <1>0, <1>1, <1>4, <2>2, <2>5, NewPlace DEF ts
    <3>2. CASE p <= n
      <4>1. /\ p \in 1..n /\ p \in 1..Len(b.requests)
        BY <1>0, <1>4, <2>2, <2>5, <3>2
      <4>2. /\ c.requests = b.requests
            /\ c.requestInfo = take(e.requestInfo, p) /\ c.responseInfo = take(e.responseInfo, p)
            /\ \A x \in Legs : x # <<id, p>> => requests'[x] = requests[x]
            /\ requests'[<<id, p>>] = WithInfos(requests[<<id, p>>], e, p)
        BY <1>7, <1>8, <2>1, <2>2, <4>1
      <4>3. /\ At(b.responseInfo, p) = Taken
            /\ InPlace(responseInfos[id], n, take(b.responseInfo, p))
        BY <1>0, <1>1, <1>4, <2>5, <4>1, GonePlace
      <4>4. /\ requests'[<<id, p>>].requestInfo = k
            /\ requests'[<<id, p>>].responseInfo = requests[<<id, p>>].responseInfo
        <5> DEFINE q == requests[<<id, p>>]
        <5>1. q \in Request /\ k # Taken
          BY <1>8, <4>1 DEF Taken
        <5>2. /\ WithInfos(q, e, p).requestInfo =
                   IF At(e.requestInfo, p) = Taken THEN q.requestInfo ELSE At(e.requestInfo, p)
              /\ WithInfos(q, e, p).responseInfo =
                   IF At(e.responseInfo, p) = Taken THEN q.responseInfo ELSE At(e.responseInfo, p)
          <6> HIDE DEF q, p
          <6> QED
            BY <2>2, <5>1, WithInfosKeeps
        <5> QED
          BY <2>2, <3>1, <4>2, <4>3, <5>1, <5>2
      <4>5. ASSUME NEW i \in 1..MaxLegs, i <= n
            PROVE  /\ requests'[<<id, i>>].requestInfo = At(ts, i)
                   /\ requests'[<<id, i>>].responseInfo = At(responseInfos[id], i)
        <5>1. <<id, i>> \in Legs /\ i \in Nat
          BY <1>0 DEF Legs
        <5>2. /\ requests[<<id, i>>].requestInfo = At(requestInfos[id], i)
              /\ requests[<<id, i>>].responseInfo = At(responseInfos[id], i)
          BY <1>4, <2>5, <4>5
        <5>3. i # p => requests'[<<id, i>>] = requests[<<id, i>>]
          BY <4>2, <5>1
        <5> HIDE DEF p
        <5> QED
          BY <3>1, <4>4, <5>1, <5>2, <5>3
      <4>6. c.requestInfo = take(e.requestInfo, p) /\ c.responseInfo = take(b.responseInfo, p)
        BY <2>2, <4>2
      <4>7. /\ InPlace(ts, n, c.requestInfo) /\ InPlace(responseInfos[id], n, c.responseInfo)
            /\ n = Len(c.requests)
        BY <1>4, <2>5, <3>1, <3>2, <4>2, <4>3, <4>6
      <4>8. c = builders'[first][id]
        BY <2>5 DEF c
      <4> QED
        BY <1>3, <2>3, <4>5, <4>7, <4>8 DEF Placed, InPlace, At
    <3>3. CASE ~(p <= n)
      <4>0. p \notin 1..Len(b.requests)
        BY <1>0, <1>4, <2>2, <2>5, <3>3
      <4>1. c = e /\ requests' = requests
        BY <1>7, <2>1, <2>2, <4>0
      <4>2. ASSUME NEW i \in 1..MaxLegs, i <= n
            PROVE  /\ requests'[<<id, i>>].requestInfo = At(ts, i)
                   /\ requests'[<<id, i>>].responseInfo = At(responseInfos[id], i)
        <5>1. i \in Nat /\ i # p
          BY <1>0, <3>3, <4>2
        <5>2. /\ requests[<<id, i>>].requestInfo = At(requestInfos[id], i)
              /\ requests[<<id, i>>].responseInfo = At(responseInfos[id], i)
          BY <1>4, <2>5, <4>2
        <5> HIDE DEF p
        <5> QED
          BY <3>1, <4>1, <5>1, <5>2
      <4>3. /\ InPlace(ts, n, c.requestInfo) /\ InPlace(responseInfos[id], n, c.responseInfo)
            /\ n = Len(c.requests)
        BY <1>4, <2>2, <2>5, <3>1, <3>3, <4>1
      <4>4. c = builders'[first][id]
        BY <2>5 DEF c
      <4> QED
        BY <1>3, <2>3, <4>2, <4>3, <4>4 DEF Placed, InPlace, At
    <3> QED
      BY <3>2, <3>3
  <2>6. /\ \A j \in Ids : j # id => builders'[first][j] = builders[first][j]
        /\ \A x \in Legs : x[1] # id => requests'[x] = requests[x]
    BY <1>7, <2>1, <2>2
  <2> QED
    BY <1>3, <1>6, <2>1, <2>3, <2>4, <2>5, <2>6, OneLoadPlaced DEF d
<1>10. CASE responseReceivedExtraInfo(id, k)
  <2> DEFINE p == Len(b.responseInfo) + 1
             e == [b EXCEPT !.responseInfo = Append(@, k)]
             ts == Append(responseInfos[id], k)
  <2>1. /\ responseInfos' = [responseInfos EXCEPT ![id] = ts] /\ requestInfos' = requestInfos
        /\ sync(d, id, e, p, requests) /\ \A i \in 1..Len(responseInfos[id]) : responseInfos[id][i] < k
    BY <1>10 DEF responseReceivedExtraInfo, infoComes
  <2>2. /\ e \in Builder /\ e.requests = b.requests /\ e.responseInfo = Append(b.responseInfo, k)
        /\ e.requestInfo = b.requestInfo /\ p \in Nat /\ p # 0
    <3>1. e \in Builder /\ SameLegs(b, e)
      BY <1>0, InfoAppended
    <3>2. e.responseInfo = Append(b.responseInfo, k) /\ e.requestInfo = b.requestInfo
      BY <1>0 DEF Builder
    <3>3. e.requests = b.requests
      BY <3>1 DEF SameLegs
    <3>4. p \in Nat /\ p # 0
      BY <1>1
    <3> HIDE DEF e, p
    <3> QED
      BY <3>1, <3>2, <3>3, <3>4
  <2>3. /\ responseInfos'[id] = ts /\ requestInfos'[id] = requestInfos[id]
        /\ \A j \in Ids : j # id => responseInfos'[j] = responseInfos[j]
    BY <1>0, <2>1
  <2>4. ToldInOrder(ts)
    BY <1>6, <2>1, ToldStaysInOrder
  <2> HIDE DEF e, ts, b, c, d
  <2>5. ASSUME d = first PROVE Placed(id, requests, builders[first][id])'
    <3>1. /\ At(e.responseInfo, p) = k /\ At(ts, p) = k
          /\ \A i \in Nat : i # p => At(ts, i) = At(responseInfos[id], i)
          /\ p <= n => InPlace(ts, n, take(e.responseInfo, p))
          /\ ~(p <= n) => InPlace(ts, n, e.responseInfo)
      BY <1>0, <1>1, <1>4, <2>2, <2>5, NewPlace DEF ts
    <3>2. CASE p <= n
      <4>1. /\ p \in 1..n /\ p \in 1..Len(b.requests)
        BY <1>0, <1>4, <2>2, <2>5, <3>2
      <4>2. /\ c.requests = b.requests
            /\ c.responseInfo = take(e.responseInfo, p) /\ c.requestInfo = take(e.requestInfo, p)
            /\ \A x \in Legs : x # <<id, p>> => requests'[x] = requests[x]
            /\ requests'[<<id, p>>] = WithInfos(requests[<<id, p>>], e, p)
        BY <1>7, <1>8, <2>1, <2>2, <4>1
      <4>3. /\ At(b.requestInfo, p) = Taken /\ InPlace(requestInfos[id], n, take(b.requestInfo, p))
        BY <1>0, <1>1, <1>4, <2>5, <4>1, GonePlace
      <4>4. /\ requests'[<<id, p>>].responseInfo = k
            /\ requests'[<<id, p>>].requestInfo = requests[<<id, p>>].requestInfo
        <5> DEFINE q == requests[<<id, p>>]
        <5>1. q \in Request /\ k # Taken
          BY <1>8, <4>1 DEF Taken
        <5>2. /\ WithInfos(q, e, p).responseInfo =
                   IF At(e.responseInfo, p) = Taken THEN q.responseInfo ELSE At(e.responseInfo, p)
              /\ WithInfos(q, e, p).requestInfo =
                   IF At(e.requestInfo, p) = Taken THEN q.requestInfo ELSE At(e.requestInfo, p)
          <6> HIDE DEF q, p
          <6> QED
            BY <2>2, <5>1, WithInfosKeeps
        <5> QED
          BY <2>2, <3>1, <4>2, <4>3, <5>1, <5>2
      <4>5. ASSUME NEW i \in 1..MaxLegs, i <= n
            PROVE  /\ requests'[<<id, i>>].responseInfo = At(ts, i)
                   /\ requests'[<<id, i>>].requestInfo = At(requestInfos[id], i)
        <5>1. <<id, i>> \in Legs /\ i \in Nat
          BY <1>0 DEF Legs
        <5>2. /\ requests[<<id, i>>].responseInfo = At(responseInfos[id], i)
              /\ requests[<<id, i>>].requestInfo = At(requestInfos[id], i)
          BY <1>4, <2>5, <4>5
        <5>3. i # p => requests'[<<id, i>>] = requests[<<id, i>>]
          BY <4>2, <5>1
        <5> HIDE DEF p
        <5> QED
          BY <3>1, <4>4, <5>1, <5>2, <5>3
      <4>6. c.responseInfo = take(e.responseInfo, p) /\ c.requestInfo = take(b.requestInfo, p)
        BY <2>2, <4>2
      <4>7. /\ InPlace(ts, n, c.responseInfo) /\ InPlace(requestInfos[id], n, c.requestInfo)
            /\ n = Len(c.requests)
        BY <1>4, <2>5, <3>1, <3>2, <4>2, <4>3, <4>6
      <4>8. c = builders'[first][id]
        BY <2>5 DEF c
      <4> QED
        BY <1>3, <2>3, <4>5, <4>7, <4>8 DEF Placed, InPlace, At
    <3>3. CASE ~(p <= n)
      <4>0. p \notin 1..Len(b.requests)
        BY <1>0, <1>4, <2>2, <2>5, <3>3
      <4>1. c = e /\ requests' = requests
        BY <1>7, <2>1, <2>2, <4>0
      <4>2. ASSUME NEW i \in 1..MaxLegs, i <= n
            PROVE  /\ requests'[<<id, i>>].responseInfo = At(ts, i)
                   /\ requests'[<<id, i>>].requestInfo = At(requestInfos[id], i)
        <5>1. i \in Nat /\ i # p
          BY <1>0, <3>3, <4>2
        <5>2. /\ requests[<<id, i>>].responseInfo = At(responseInfos[id], i)
              /\ requests[<<id, i>>].requestInfo = At(requestInfos[id], i)
          BY <1>4, <2>5, <4>2
        <5> HIDE DEF p
        <5> QED
          BY <3>1, <4>1, <5>1, <5>2
      <4>3. /\ InPlace(ts, n, c.responseInfo) /\ InPlace(requestInfos[id], n, c.requestInfo)
            /\ n = Len(c.requests)
        BY <1>4, <2>2, <2>5, <3>1, <3>3, <4>1
      <4>4. c = builders'[first][id]
        BY <2>5 DEF c
      <4> QED
        BY <1>3, <2>3, <4>2, <4>3, <4>4 DEF Placed, InPlace, At
    <3> QED
      BY <3>2, <3>3
  <2>6. /\ \A j \in Ids : j # id => builders'[first][j] = builders[first][j]
        /\ \A x \in Legs : x[1] # id => requests'[x] = requests[x]
    BY <1>7, <2>1, <2>2
  <2> QED
    BY <1>3, <1>6, <2>1, <2>3, <2>4, <2>5, <2>6, OneLoadPlaced DEF d
<1> QED
  BY <1>9, <1>10

LEMMA InitInfos == Init => InfosInOrder
<1> SUFFICES ASSUME Init, NEW id \in Ids
             PROVE  /\ ToldInOrder(requestInfos[id]) /\ ToldInOrder(responseInfos[id])
                    /\ \A k \in 1..MaxLegs : ~(k <= sent[id])
                    /\ InPlace(requestInfos[id], sent[id], builders[first][id].requestInfo)
                    /\ InPlace(responseInfos[id], sent[id], builders[first][id].responseInfo)
                    /\ sent[id] = Len(builders[first][id].requests)
  BY DEF InfosInOrder, Placed
<1>1. /\ sent[id] = 0 /\ requestInfos[id] = <<>> /\ responseInfos[id] = <<>>
      /\ builders[first][id] = NoBuilder
  BY NetworkConstants DEF Init
<1>2. Len(<<>>) = 0 /\ <<>> \in Seq(1..MaxLegs)
  OBVIOUS
<1> QED
  BY <1>1, <1>2, NoBuilderIsOne, NetworkConstants DEF InPlace, ToldInOrder

LEMMA StepInfos == NetworkInv /\ InfosInOrder /\ [Next]_vars => InfosInOrder'
<1> SUFFICES ASSUME NetworkInv, InfosInOrder, [Next]_vars PROVE InfosInOrder'
  OBVIOUS
<1>1. CASE QuietStep
  BY <1>1, QuietInfos
<1>2. ASSUME NEW id \in Ids, requestWillBeSent(id) PROVE InfosInOrder'
  BY <1>2, LegTakesInfos
<1>3. ASSUME NEW id \in Ids, NEW k \in 1..MaxLegs,
             requestWillBeSentExtraInfo(id, k) \/ responseReceivedExtraInfo(id, k)
      PROVE  InfosInOrder'
  BY <1>3, InfoFindsItsLeg
<1>4. CASE UNCHANGED vars
  BY <1>4, InfosStay DEF vars
<1> QED
  BY <1>1, <1>2, <1>3, <1>4 DEF Next, QuietStep

(* Where the legs up to k were all told of, the k-th that was told of is   *)
(* k, and a leg that was told of is in a place up to its own.              *)
LEMMA ToldOfAll ==
  ASSUME NEW legs, ToldInOrder(legs), NEW k \in 1..MaxLegs
  PROVE  /\ 1..k \subseteq ToldOf(legs) => At(legs, k) = k
         /\ At(legs, k) # 0 => At(legs, k) >= k
         /\ k \in ToldOf(legs) => \E i \in 1..k : At(legs, i) = k
<1>1. legs \in Seq(1..MaxLegs) /\ MaxLegs \in Nat /\ k \in Nat /\ Len(legs) \in Nat
  BY NetworkConstants DEF ToldInOrder
<1>2. \A i \in 1..Len(legs) : legs[i] >= i /\ legs[i] \in Nat /\ legs[i] # 0
  BY <1>1 DEF ToldInOrder
<1>3. ASSUME k \in ToldOf(legs) PROVE \E i \in 1..k : i \in 1..Len(legs) /\ legs[i] = k
  <2>1. PICK i \in 1..Len(legs) : legs[i] = k
    BY <1>3 DEF ToldOf
  <2>2. i \in 1..k
    BY <1>1, <1>2, <2>1
  <2> QED
    BY <2>1, <2>2
<1>4. ASSUME 1..k \subseteq ToldOf(legs) PROVE At(legs, k) = k
  <2>1. k \in ToldOf(legs)
    BY <1>1, <1>4
  <2>2. PICK i \in 1..k : i \in 1..Len(legs) /\ legs[i] = k
    BY <1>3, <2>1
  <2>3. legs[i] = i
    <3>1. legs[i] = i \/ \E j \in 1..i : j \notin ToldOf(legs)
      BY <2>2 DEF ToldInOrder
    <3>2. \A j \in 1..i : j \in 1..k
      BY <1>1
    <3> QED
      BY <1>4, <3>1, <3>2
  <2> QED
    BY <2>2, <2>3 DEF At
<1>5. At(legs, k) # 0 => At(legs, k) >= k
  BY <1>1, <1>2 DEF At, Taken
<1>6. k \in ToldOf(legs) => \E i \in 1..k : At(legs, i) = k
  BY <1>3 DEF At
<1> QED
  BY <1>4, <1>5, <1>6

(* What belongs to a leg stays with it (NetworkManager.ts:1814), in        *)
(* whatever order the events of a load come and however many redirects,    *)
(* targets and loads there are, whichever legs the network stack tells of  *)
(* and whatever is intercepted.                                            *)
THEOREM InfosStayWithTheirLegs == SdkSpec => []LegsKeepTheirInfos
<1>1. NetworkInv /\ InfosInOrder => LegsKeepTheirInfos
  <2> SUFFICES ASSUME NetworkInv, InfosInOrder PROVE LegsKeepTheirInfos
    OBVIOUS
  <2>0. /\ NetworkTyped /\ InStep(requests, requestsById, builders, inflight, done)
        /\ MaxLegs \in Nat \ {0}
    BY NetworkConstants DEF NetworkInv
  <2>1. ASSUME NEW id \in Ids, NEW k \in 1..MaxLegs, Exists(<<id, k>>)
        PROVE  /\ k <= sent[id] /\ requests[<<id, k>>].source = k - 1
               /\ requests[<<id, k>>].suffix = IF k < sent[id] THEN k - 1 ELSE -1
               /\ k < sent[id] => requests[<<id, k>>].finished
               /\ requests[<<id, k>>].bundle => k = sent[id] /\ id \in done
               /\ sent[id] \in 0..MaxLegs
               /\ <<id, k>> \in Legs /\ requests[<<id, k>>] \in Request
    <3>1. k <= sent[id] /\ sent[id] \in 0..MaxLegs
      BY <2>0, <2>1 DEF InStep, LegsInOrder, Exists, NetworkTyped
    <3>2. /\ requests[<<id, k>>].source = k - 1
          /\ requests[<<id, k>>].suffix = IF k < sent[id] THEN k - 1 ELSE -1
          /\ k < sent[id] => requests[<<id, k>>].finished
          /\ requests[<<id, k>>].bundle => k = sent[id] /\ id \in done
      BY <2>0, <3>1 DEF InStep, LegsInOrder
    <3>3. <<id, k>> \in Legs
      BY DEF Legs
    <3> QED
      BY <2>0, <2>1, <3>1, <3>2, <3>3, ExistingLeg
  <2>2. TypeOK
    <3>1. ASSUME NEW l \in Legs, Exists(l)
          PROVE  /\ requests[l].manager \in Dispatchers /\ requests[l].source \in 0..MaxLegs
                 /\ requests[l].suffix \in -1..MaxLegs - 2
      <4>1. PICK id \in Ids, k \in 1..MaxLegs : l = <<id, k>>
        BY DEF Legs
      <4>2. requests[l].manager \in Dispatchers
        BY <2>1, <3>1, <4>1, Records
      <4>3. /\ requests[l].source = k - 1 /\ k <= sent[id] /\ sent[id] \in 0..MaxLegs
            /\ requests[l].suffix = IF k < sent[id] THEN k - 1 ELSE -1
        BY <2>1, <3>1, <4>1
      <4>4. requests[l].source \in 0..MaxLegs /\ requests[l].suffix \in -1..MaxLegs - 2
        BY <2>0, <4>3
      <4> QED
        BY <4>2, <4>4
    <3> QED
      BY <2>0, <3>1 DEF TypeOK, NetworkTyped, MapsTyped
  <2>3. ASSUME NEW l \in Legs, Exists(l), ToldOne(l)
        PROVE  /\ l = <<l[1], l[2]>> /\ l[1] \in Ids /\ l[2] \in 1..MaxLegs
               /\ \A k \in 1..l[2] :
                    /\ requests[<<l[1], k>>].requestInfo = At(requestInfos[l[1]], k)
                    /\ requests[<<l[1], k>>].responseInfo = At(responseInfos[l[1]], k)
               /\ ToldInOrder(requestInfos[l[1]]) /\ ToldInOrder(responseInfos[l[1]])
    <3>1. PICK id \in Ids, n \in 1..MaxLegs : l = <<id, n>>
      BY DEF Legs
    <3>2. n <= sent[id] /\ home[id] = first /\ sent[id] \in 0..MaxLegs
      BY <2>1, <2>3, <3>1 DEF ToldOne
    <3>3. \A k \in 1..n : k \in 1..MaxLegs /\ k <= sent[id]
      BY <2>0, <3>2
    <3>4. \A k \in 1..n :
            /\ requests[<<id, k>>].requestInfo = At(requestInfos[id], k)
            /\ requests[<<id, k>>].responseInfo = At(responseInfos[id], k)
      BY <3>2, <3>3 DEF InfosInOrder, Placed
    <3>5. ToldInOrder(requestInfos[id]) /\ ToldInOrder(responseInfos[id])
      BY DEF InfosInOrder
    <3> QED
      BY <3>1, <3>4, <3>5
  <2>4. InfosAtTheirLegs
    <3> SUFFICES ASSUME NEW l \in Legs, Exists(l), ToldOne(l)
                 PROVE  /\ 1..l[2] \subseteq ToldOf(requestInfos[l[1]]) =>
                             requests[l].requestInfo = l[2]
                        /\ 1..l[2] \subseteq ToldOf(responseInfos[l[1]]) =>
                             requests[l].responseInfo = l[2]
                        /\ requests[l].requestInfo # 0 => requests[l].requestInfo >= l[2]
                        /\ requests[l].responseInfo # 0 => requests[l].responseInfo >= l[2]
      BY DEF InfosAtTheirLegs
    <3>1. /\ requests[l].requestInfo = At(requestInfos[l[1]], l[2])
          /\ requests[l].responseInfo = At(responseInfos[l[1]], l[2])
          /\ ToldInOrder(requestInfos[l[1]]) /\ ToldInOrder(responseInfos[l[1]])
          /\ l[2] \in 1..MaxLegs
      <4>1. l[2] \in 1..l[2]
        BY <2>0, <2>3
      <4> QED
        BY <2>3, <4>1
    <3> QED
      BY <3>1, ToldOfAll
  <2>5. NoInfoLost
    <3> SUFFICES ASSUME NEW l \in Legs, Exists(l), ToldOne(l)
                 PROVE  /\ l[2] \in ToldOf(requestInfos[l[1]]) =>
                             \E k \in 1..l[2] : requests[<<l[1], k>>].requestInfo = l[2]
                        /\ l[2] \in ToldOf(responseInfos[l[1]]) =>
                             \E k \in 1..l[2] : requests[<<l[1], k>>].responseInfo = l[2]
      BY DEF NoInfoLost
    <3>1. /\ l[2] \in ToldOf(requestInfos[l[1]]) =>
               \E k \in 1..l[2] : At(requestInfos[l[1]], k) = l[2]
          /\ l[2] \in ToldOf(responseInfos[l[1]]) =>
               \E k \in 1..l[2] : At(responseInfos[l[1]], k) = l[2]
      BY <2>3, ToldOfAll
    <3> QED
      BY <2>3, <3>1
  <2>6. RawHeadersStay
    BY <2>0 DEF InStep, RawIsRaw, Raw, RawHeadersStay, Exists
  <2>7. LegsCalledApart
    <3> SUFFICES ASSUME NEW id \in Ids, NEW j \in 1..MaxLegs, NEW k \in 1..MaxLegs,
                        Exists(<<id, j>>), Exists(<<id, k>>), j < k
                 PROVE  /\ requests[<<id, j>>].suffix # requests[<<id, k>>].suffix
                        /\ requests[<<id, j>>].finished
      BY DEF LegsCalledApart
    <3>1. k <= sent[id] /\ sent[id] \in 0..MaxLegs /\ j < sent[id]
      BY <2>0, <2>1
    <3>2. /\ requests[<<id, j>>].suffix = j - 1 /\ requests[<<id, j>>].finished
          /\ requests[<<id, k>>].suffix = IF k < sent[id] THEN k - 1 ELSE -1
      BY <2>1, <3>1
    <3>3. requests[<<id, j>>].suffix # requests[<<id, k>>].suffix
      BY <2>0, <3>2
    <3> QED
      BY <3>2, <3>3
  <2>8. BundleAtFinalLeg
    <3> SUFFICES ASSUME NEW l \in Legs, Exists(l), requests[l].bundle
                 PROVE  l[2] = sent[l[1]] /\ l[1] \in done
      BY DEF BundleAtFinalLeg
    <3>1. PICK id \in Ids, k \in 1..MaxLegs : l = <<id, k>>
      BY DEF Legs
    <3> QED
      BY <2>1, <3>1
  <2> QED
    BY <2>2, <2>4, <2>5, <2>6, <2>7, <2>8 DEF LegsKeepTheirInfos
<1>2. NetworkInv /\ InfosInOrder /\ [Next]_vars => InfosInOrder'
  BY StepInfos
<1> QED
  BY SdkStarts, SdkStep, InitNetwork, StepNetwork, InitInfos, <1>1, <1>2, PTL
  DEF SdkSpec, sdkVars
==============================================================================
