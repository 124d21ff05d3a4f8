------------------------------ MODULE MCCommon ------------------------------
(* Three utilities on small instances: the throttler and the listeners of  *)
(* core/common, and the pool of workers made of core/common/Worker.ts.     *)
(* They share nothing, so that a behaviour is one of one of them, the      *)
(* others staying as they were made, and the states of the three add up.   *)
EXTENDS Throttler

CONSTANTS Listeners, OnceListeners, MaxTuples, MaxDispatches,
          Tasks, Chunked, HardwareConcurrency, MaxChunks, MaxErrors

VARIABLES
  part,   \* which of the three it is
  listeners, hasEntry, listenerOf, disposed, stack, called, over, onceResolved,
  taskQueue, workerTasks, workers, inbox, work, outbox, parts, answers, errors

eventVars == <<listeners, hasEntry, listenerOf, disposed, stack, called, over, onceResolved>>
formatterVars == <<taskQueue, workerTasks, workers, inbox, work, outbox, parts, answers, errors>>

Events == INSTANCE EventDispatch WITH resolved <- onceResolved
Formatter == INSTANCE FormatterWorkerPool

ASSUME EventsAssumption == Events!ListenersAssumption
ASSUME FormatterAssumption == Formatter!PoolAssumption

CommonInit ==
  /\ part \in {"throttler", "events", "formatter"}
  /\ Init /\ (part # "throttler" => sinceComplete > timeout)
  /\ Events!Init /\ Formatter!Init

CommonNext ==
  /\ UNCHANGED part
  /\ \/ part = "throttler" /\ Next /\ UNCHANGED <<eventVars, formatterVars>>
     \/ part = "events" /\ Events!Next /\ UNCHANGED <<vars, formatterVars>>
     \/ part = "formatter" /\ Formatter!Next /\ UNCHANGED <<vars, eventVars>>

CommonSpec ==
  /\ CommonInit /\ [][CommonNext]_<<part, vars, eventVars, formatterVars>>
  /\ Fairness /\ Formatter!Fairness

-----------------------------------------------------------------------------
(* Listeners are called rightly (Object.ts:110): a dispatch calls once, in *)
(* order, all that were there when it began and still are, nothing that    *)
(* was removed meanwhile, and a listener of once for one event only; and   *)
(* the map has an entry exactly while there are listeners.                 *)
ListenersAreCalled ==
  /\ [](Events!TypeOK /\ Events!EntryMeansListeners /\ Events!OnceIsOnce)
  /\ Events!RemovedNotCalled /\ Events!CallsSnapshotOnce /\ Events!StayersAreCalled

(* The formatter pool implements TaskPool, whatever workers throw: in      *)
(* order, no slot idle while a task waits, at most MAX_WORKERS at a time,  *)
(* every task answered by a worker that was given it, and once.            *)
FormatterIsTaskPool ==
  /\ [](Formatter!TypeOK /\ Formatter!PoolIsBounded /\ Formatter!AnswersAreOwn)
  /\ Formatter!ImplementsTaskPool /\ Formatter!OverIsOver

(* What is asked for is done in the end: the promise of every call of      *)
(* schedule is resolved, and every task is over though workers throw.      *)
WhatIsAskedIsDone == PromisesResolve /\ Formatter!EveryTaskIsAnswered
=============================================================================
