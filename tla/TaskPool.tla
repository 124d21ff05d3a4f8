------------------------------ MODULE TaskPool ------------------------------
(***************************************************************************)
(* What a pool of workers promises to those who hand in tasks: at most     *)
(* Limit tasks run at a time, no slot is idle while a task waits, tasks    *)
(* start in the order in which they were handed in, and each is over once. *)
(* FormatterWorkerPool implements it.                                      *)
(***************************************************************************)
EXTENDS Naturals, Sequences, FiniteSets

CONSTANTS Tasks, Limit

VARIABLES waiting, \* tasks that wait, in the order they came
          running, \* tasks that run
          over     \* tasks that are over, of which nothing more is heard

poolVars == <<waiting, running, over>>

PoolInit == waiting = << >> /\ running = {} /\ over = {}

Known == {waiting[i] : i \in DOMAIN waiting} \cup running \cup over

Submit(t) ==
  /\ t \notin Known
  /\ IF Cardinality(running) < Limit
     THEN running' = running \cup {t} /\ UNCHANGED waiting
     ELSE waiting' = Append(waiting, t) /\ UNCHANGED running
  /\ UNCHANGED over

Finish(t) ==
  /\ t \in running
  /\ over' = over \cup {t}
  /\ IF waiting = << >>
     THEN running' = running \ {t} /\ UNCHANGED waiting
     ELSE /\ running' = (running \ {t}) \cup {Head(waiting)}
          /\ waiting' = Tail(waiting)

PoolNext == \E t \in Tasks : Submit(t) \/ Finish(t)

PoolSpec == PoolInit /\ [][PoolNext]_poolVars
=============================================================================
