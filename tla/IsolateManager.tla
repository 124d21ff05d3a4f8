--------------------------- MODULE IsolateManager ---------------------------
(***************************************************************************)
(* The isolate manager of core/sdk/IsolateManager.ts.  It asks every       *)
(* runtime model for the id of its isolate, groups the models by it, tells *)
(* its observers of the isolates, and polls their memory while there are   *)
(* observers.  The id of a model that is gone may still arrive, and a      *)
(* polling loop that was stopped may still be in one of its awaits when    *)
(* the next one starts.                                                    *)
(***************************************************************************)
EXTENDS Integers, Sequences, FiniteSets

CONSTANTS Models, Ids,
          NoModel,     \* isolateIdByModel has no entry
          Retrieving,  \* its entry is null
          Observers,
          MaxLoops     \* bound on the polling loops ever started

IdsAssumption == Ids \cap {NoModel, Retrieving} = {} /\ MaxLoops \in Nat

VARIABLES
  gone,             \* the models that were removed; none comes back
  asked,            \* the models whose isolateId() has not settled
  isolateIdByModel,
  isolates,         \* isolates[i]: modelsInternal of isolate i, {} for no isolate
  observers,
  told,             \* told[o][i]: isolateAdded less isolateRemoved, for observer o
  pollId,
  loops             \* loops[n]: the n-th call of poll

vars == <<gone, asked, isolateIdByModel, isolates, observers, told, pollId, loops>>

Present == {i \in Ids : isolates[i] # {}}
Loop(id, phase, waits) == [pollId |-> id, phase |-> phase, waits |-> waits]

Init ==
  /\ gone = {} /\ asked = {}
  /\ isolateIdByModel = [m \in Models |-> NoModel]
  /\ isolates = [i \in Ids |-> {}]
  /\ observers = {}
  /\ told = [o \in Observers |-> [i \in Ids |-> 0]]
  /\ pollId = 0
  /\ loops = <<>>

(* The registered observers are told of isolate i n times more.            *)
Tell(i, n) ==
  told' = [o \in Observers |-> [told[o] EXCEPT ![i] = @ + (IF o \in observers THEN n ELSE 0)]]

(* modelAdded, up to the await.                                            *)
modelAdded(m) ==
  /\ isolateIdByModel[m] = NoModel /\ m \notin gone \cup asked
  /\ isolateIdByModel' = [isolateIdByModel EXCEPT ![m] = Retrieving]
  /\ asked' = asked \cup {m}
  /\ UNCHANGED <<gone, isolates, observers, told, pollId, loops>>

(* Was the model removed during the await?  The mutant does not look.      *)
removedMeanwhileNever(m) == FALSE
removedMeanwhile(m) == isolateIdByModel[m] = NoModel

(* The await is over; a model without an answer gives the id of its target.*)
isolateIdSettles(m, i) ==
  /\ m \in asked
  /\ asked' = asked \ {m}
  /\ IF removedMeanwhile(m)
       THEN UNCHANGED <<isolateIdByModel, isolates, told>>
       ELSE /\ isolateIdByModel' = [isolateIdByModel EXCEPT ![m] = i]
            /\ isolates' = [isolates EXCEPT ![i] = @ \cup {m}]
            /\ Tell(i, IF i \in Present THEN 0 ELSE 1)
  /\ UNCHANGED <<gone, observers, pollId, loops>>

(* What the observers lose with a model of isolate i; the mutant takes the *)
(* isolate away with its first model.                                      *)
removedIsolatesAtOnce(i, m) == 1
removedIsolates(i, m) == IF isolates[i] = {m} THEN 1 ELSE 0

modelRemoved(m) ==
  LET i == isolateIdByModel[m] IN
  /\ i # NoModel
  /\ gone' = gone \cup {m}
  /\ isolateIdByModel' = [isolateIdByModel EXCEPT ![m] = NoModel]
  /\ IF i = Retrieving
       THEN UNCHANGED <<isolates, told>>
       ELSE /\ isolates' = [isolates EXCEPT ![i] = @ \ {m}]
            /\ Tell(i, -removedIsolates(i, m))
  /\ UNCHANGED <<asked, observers, pollId, loops>>

----------------------------------------------------------------------------
(* Observers, and the polling loops.                                       *)

(* The first awaits of a loop are those of its isolates' updates.          *)
observeIsolates(o) ==
  /\ o \notin observers
  /\ observers' = observers \cup {o}
  /\ told' = [told EXCEPT ![o] = [i \in Ids |-> IF i \in Present THEN 1 ELSE 0]]
  /\ IF observers = {}
       THEN /\ Len(loops) < MaxLoops                        \* bound
            /\ loops' = Append(loops, Loop(pollId, "updating", Present))
       ELSE UNCHANGED loops
  /\ UNCHANGED <<gone, asked, isolateIdByModel, isolates, pollId>>

(* Mutant of unobserveIsolates: the loop is not stopped.                   *)
nextPollIdSame(remaining) == pollId
nextPollId(remaining) == IF remaining = {} THEN pollId + 1 ELSE pollId

unobserveIsolates(o) ==
  /\ o \in observers
  /\ observers' = observers \ {o}
  /\ told' = [told EXCEPT ![o] = [i \in Ids |-> 0]]
  /\ pollId' = nextPollId(observers')
  /\ UNCHANGED <<gone, asked, isolateIdByModel, isolates, loops>>

(* An update of isolate i settles: it has the usage, or an error.  The     *)
(* last one takes the loop to its timer.                                   *)
updateSettles(n, i) ==
  /\ n \in 1..Len(loops) /\ loops[n].phase = "updating"
  /\ i \in loops[n].waits
  /\ loops' = [loops EXCEPT ![n].waits = @ \ {i}]
  /\ UNCHANGED <<gone, asked, isolateIdByModel, isolates, observers, told, pollId>>

allUpdated(n) ==
  /\ n \in 1..Len(loops) /\ loops[n].phase = "updating"
  /\ loops[n].waits = {}
  /\ loops' = [loops EXCEPT ![n].phase = "sleeping"]
  /\ UNCHANGED <<gone, asked, isolateIdByModel, isolates, observers, told, pollId>>

(* Does a loop of this id go on?                                           *)
goesOn(id) == id = pollId

(* The isolates of the next round.                                         *)
nextRound(waits) == Present

(* The timer fires: the loop goes round again, or is over.                 *)
poll(n) ==
  /\ n \in 1..Len(loops) /\ loops[n].phase = "sleeping"
  /\ loops' = [loops EXCEPT ![n] =
       IF goesOn(@.pollId) THEN Loop(@.pollId, "updating", nextRound(@.waits))
                           ELSE Loop(@.pollId, "over", {})]
  /\ UNCHANGED <<gone, asked, isolateIdByModel, isolates, observers, told, pollId>>

Next ==
  \/ \E m \in Models : modelAdded(m) \/ modelRemoved(m)
  \/ \E m \in Models, i \in Ids : isolateIdSettles(m, i)
  \/ \E o \in Observers : observeIsolates(o) \/ unobserveIsolates(o)
  \/ \E n \in 1..MaxLoops : allUpdated(n) \/ poll(n) \/ \E i \in Ids : updateSettles(n, i)

Spec == Init /\ [][Next]_vars

(* Commands are answered, promises run their continuations, timers fire.   *)
Fairness ==
  \A n \in 1..MaxLoops :
    /\ WF_vars(allUpdated(n)) /\ WF_vars(poll(n))
    /\ \A i \in Ids : WF_vars(updateSettles(n, i))
FairSpec == Spec /\ Fairness

----------------------------------------------------------------------------
Current == {n \in 1..Len(loops) : loops[n].pollId = pollId /\ loops[n].phase # "over"}

TypeOK ==
  /\ gone \subseteq Models /\ asked \subseteq Models
  /\ isolateIdByModel \in [Models -> Ids \cup {NoModel, Retrieving}]
  /\ isolates \in [Ids -> SUBSET Models]
  /\ observers \subseteq Observers
  /\ told \in [Observers -> [Ids -> 0..1]]
  /\ pollId \in Nat
  /\ loops \in Seq([pollId : Nat, phase : {"updating", "sleeping", "over"},
                    waits : SUBSET Ids])

(* isolateByModel and Isolate.models agree: an isolate holds exactly the   *)
(* models whose id it is, no model that was removed while its id was       *)
(* retrieved, and no model in two isolates.                                *)
IsolatesOfModels ==
  /\ \A i \in Ids : isolates[i] = {m \in Models : isolateIdByModel[m] = i}
  /\ \A m \in gone : isolateIdByModel[m] = NoModel

(* Every observer was told of exactly the isolates there are, whenever it  *)
(* registered and however models, ids and removals were interleaved.       *)
ObserversKnowIsolates ==
  \A o \in observers, i \in Ids : told[o][i] = IF i \in Present THEN 1 ELSE 0

(* As long as somebody observes, one loop polls, and else none does,       *)
(* however often the observers come and go during its awaits.              *)
OneLoopPolls ==
  Cardinality(Current) = IF observers = {} THEN 0 ELSE 1

(* A loop that was stopped comes to its end; the memory of every isolate   *)
(* is asked for again and again as long as somebody observes (poll).       *)
StoppedLoopsEnd ==
  \A n \in 1..MaxLoops :
    n \in 1..Len(loops) /\ n \notin Current
      ~> n \in 1..Len(loops) /\ loops[n].phase = "over"
PollsEveryIsolate ==
  \A i \in Ids : []<>(observers = {} \/ i \notin Present
                        \/ \E n \in Current : i \in loops[n].waits)

LoopsGoOn == StoppedLoopsEnd /\ PollsEveryIsolate
============================================================================
