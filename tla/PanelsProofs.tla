------------------------------ MODULE PanelsProofs ------------------------------
(***************************************************************************)
(* Proofs about the three components MCPanels checks, as instances of its  *)
(* specification: the Lighthouse runs give back what they take, coverage   *)
(* polls while it is on, and the socket's connection is a Channel.  Each   *)
(* has its own variables, so that a step of one leaves the others' alone.  *)
(***************************************************************************)
EXTENDS MCPanels, FiniteSetTheorems, TLAPS

(* Which ops are under way: those that set a run up and those that give    *)
(* back.                                                                   *)
SetsUp == {"url", "suspend", "connect"}
GivesUp == {"oldWorker", "resume", "navigate"}
Asks == {"worker", "answer"}

States == {"loading", "ready", "terminated"}
Views == {"start", "status", "report", "error"}

(* The type invariant, in the parts that its proof is made of, and that    *)
(* what an op waits for is a worker there is.                              *)
OpsType == ops \in Seq(Op) /\ Len(ops) <= MaxOps

PanelType ==
  /\ view \in Views
  /\ timespan \in {"none", "starting", "ready"}
  /\ run \in 0..Len(ops)
  /\ emulation \in {"own", "lighthouse"} /\ savedEmulation \in {"own", "lighthouse", "none"}

WorkersType ==
  /\ worker \in 0..Len(workers) /\ workers \in Seq(States) /\ Len(workers) <= MaxWorkers

SessionType ==
  /\ connection \in 0..Len(open) /\ open \in Seq(BOOLEAN)
  /\ dialogs \subseteq 1..Len(open) /\ removesDialog \in 0..Len(open)

Types == OpsType /\ PanelType /\ WorkersType /\ SessionType /\ suspended \in BOOLEAN

Pointing(s, ws) ==
  \A o \in DOMAIN s : s[o].pc \in Asks \cup {"oldWorker"} => s[o].worker \in DOMAIN ws

Known == Types /\ Pointing(ops, workers)

LEMMA TypesOK == Types => TypeOK
BY DEF Types, OpsType, PanelType, WorkersType, SessionType, TypeOK, States, Views

LEMMA Bounds == MaxOps \in Nat /\ MaxWorkers \in Nat
BY LighthouseAssumption DEF BoundsAssumption

(* t is s with op o gone on to wait for x.                                 *)
WentOn(t, s, o, x) ==
  /\ t \in Seq(Op) /\ Len(t) = Len(s) /\ DOMAIN t = DOMAIN s
  /\ t[o].pc = x /\ t[o].kind = s[o].kind /\ t[o].mode = s[o].mode
  /\ t[o].worker = s[o].worker /\ t[o].connection = s[o].connection
  /\ \A p \in DOMAIN s : p # o => t[p] = s[p]

LEMMA SetPc ==
  ASSUME NEW s \in Seq(Op), NEW o \in DOMAIN s, NEW x \in Awaits \cup {"ended"}
  PROVE  WentOn([s EXCEPT ![o].pc = x], s, o, x)
<1> DEFINE t == [s EXCEPT ![o].pc = x]
<1>1. s[o] \in Op /\ DOMAIN s = 1..Len(s)
  OBVIOUS
<1>2. [s[o] EXCEPT !.pc = x] \in Op
  BY <1>1 DEF Op
<1>3. t \in Seq(Op) /\ Len(t) = Len(s) /\ DOMAIN t = DOMAIN s
  BY <1>1, <1>2
<1>4. /\ t[o].pc = x /\ t[o].kind = s[o].kind /\ t[o].mode = s[o].mode
      /\ t[o].worker = s[o].worker /\ t[o].connection = s[o].connection
  <2>1. t[o] = [s[o] EXCEPT !.pc = x]
    BY <1>1
  <2> HIDE DEF t
  <2> QED
    BY <1>1, <2>1 DEF Op
<1>5. \A p \in DOMAIN s : p # o => t[p] = s[p]
  BY <1>1
<1> QED
  BY <1>3, <1>4, <1>5 DEF WentOn

LEMMA Ends ==
  ASSUME NEW s \in Seq(Op), NEW o \in DOMAIN s
  PROVE  WentOn([s EXCEPT ![o].pc = "ended"], s, o, "ended")
<1>1. "ended" \in Awaits \cup {"ended"}
  OBVIOUS
<1> QED
  BY <1>1, SetPc, Zenon

LEMMA EndOp ==
  ASSUME NEW s \in Seq(Op), NEW o \in DOMAIN s
  PROVE  [s EXCEPT ![o] = Ended(@)] = [s EXCEPT ![o].pc = "ended"]
BY DEF Ended

(* Replacing an op of a sequence by another one.                           *)
LEMMA PutOp ==
  ASSUME NEW s \in Seq(Op), NEW o \in DOMAIN s, NEW e \in Op
  PROVE  LET t == [s EXCEPT ![o] = e]
         IN /\ t \in Seq(Op) /\ Len(t) = Len(s) /\ DOMAIN t = DOMAIN s
            /\ t[o] = e /\ \A p \in DOMAIN s : p # o => t[p] = s[p]
OBVIOUS

(* What adding an op does.                                                 *)
LEMMA AddOp ==
  ASSUME NEW s \in Seq(Op), NEW k \in {"start", "collect", "cancel"}, NEW m \in Modes,
         NEW x \in Awaits \cup {"ended"}
  PROVE  LET t == Append(s, NewOp(k, m, x))
         IN /\ t \in Seq(Op) /\ Len(t) = Len(s) + 1 /\ DOMAIN t = 1..Len(s) + 1
            /\ Len(s) \in Nat /\ DOMAIN s = 1..Len(s)
            /\ t[Len(s) + 1].pc = x /\ t[Len(s) + 1].kind = k /\ t[Len(s) + 1].mode = m
            /\ \A p \in DOMAIN s : t[p] = s[p]
<1>1. NewOp(k, m, x) \in Op
  BY Bounds DEF NewOp, Op
<1>2. NewOp(k, m, x).pc = x /\ NewOp(k, m, x).kind = k /\ NewOp(k, m, x).mode = m
  BY DEF NewOp
<1> QED
  BY <1>1, <1>2

(* The panel when an op ends.                                              *)
LEMMA AfterRestoreTypes ==
  ASSUME NEW s \in Seq(Op), NEW o \in DOMAIN s, NEW threw \in BOOLEAN, afterRestore(o, threw, s),
         view \in Views
  PROVE  /\ ops' = [s EXCEPT ![o].pc = "ended"]
         /\ view' \in Views /\ (run' = run \/ run' = 0)
<1>1. ops' = [s EXCEPT ![o] = Ended(@)]
  BY DEF afterRestore
<1>2. s[o].kind \in {"start", "collect", "cancel"}
  <2>1. s[o] \in Op
    OBVIOUS
  <2> QED
    BY <2>1 DEF Op
<1>3. view' \in Views /\ (run' = run \/ run' = 0)
  BY <1>2 DEF afterRestore, handleError, Views
<1> QED
  BY <1>1, <1>3, EndOp

(* What the last part of restoring does, called for o when the ops are s.  *)
LEMMA RestoreRestTypes ==
  ASSUME NEW s \in Seq(Op), NEW o \in DOMAIN s, restoreRest(o, s), view \in Views,
         emulation \in {"own", "lighthouse"}, savedEmulation \in {"own", "lighthouse", "none"}
  PROVE  /\ dialogs' = dialogs \ {removesDialog} /\ savedEmulation' = "none"
         /\ emulation' = restoredEmulation /\ emulation' \in {"own", "lighthouse"}
         /\ \E x \in {"navigate", "ended"} : ops' = [s EXCEPT ![o].pc = x]
         /\ view' \in Views /\ (run' = run \/ run' = 0)
<1>1. /\ dialogs' = dialogs \ {removesDialog} /\ savedEmulation' = "none"
      /\ emulation' = restoredEmulation
  BY DEF restoreRest, runGone
<1>2. emulation' \in {"own", "lighthouse"}
  BY <1>1 DEF restoredEmulation
<1>3. CASE run # 0 /\ ops[run].mode = "navigation"
  BY <1>1, <1>2, <1>3 DEF restoreRest, runGone
<1>4. CASE ~(run # 0 /\ ops[run].mode = "navigation")
  <2>1. afterRestore(o, run = 0, s)
    BY <1>4 DEF restoreRest, runGone
  <2>2. (run = 0) \in BOOLEAN
    BY Zenon
  <2>3. ops' = [s EXCEPT ![o].pc = "ended"] /\ view' \in Views /\ (run' = run \/ run' = 0)
    BY <2>1, <2>2, AfterRestoreTypes
  <2> QED
    BY <1>1, <1>2, <2>3
<1> QED
  BY <1>3, <1>4

(* Restoring, called for o when the ops are s, leaves all of its type.     *)
Restored ==
  OpsType' /\ PanelType' /\ Pointing(ops, workers)' /\ suspended' \in BOOLEAN
  /\ workers' \in Seq(States) /\ Len(workers') = Len(workers)
  /\ open' \in Seq(BOOLEAN) /\ Len(open') = Len(open) /\ dialogs' \subseteq dialogs

LEMMA DetachRestTypes ==
  ASSUME NEW s \in Seq(Op), Len(s) <= MaxOps, NEW o \in DOMAIN s,
         Types, Len(ops) <= Len(s), Pointing(s, workers),
         timespan' \in {"none", "starting", "ready"},
         NEW w \in 0..Len(workers), NEW c \in Nat, detachRest(o, w, c, s)
  PROVE  Restored
<1>0. /\ run \in 0..Len(s) /\ view \in Views /\ suspended \in BOOLEAN
      /\ emulation \in {"own", "lighthouse"} /\ savedEmulation \in {"own", "lighthouse", "none"}
      /\ workers \in Seq(States) /\ open \in Seq(BOOLEAN) /\ Len(s) \in Nat
  <2>1. Len(ops) \in Nat /\ Len(s) \in Nat
    BY DEF Types, OpsType
  <2> QED
    BY <2>1 DEF Types, PanelType, WorkersType, SessionType
<1>1. /\ workers' = IF w = 0 THEN workers ELSE [workers EXCEPT ![w] = "terminated"]
      /\ open' = IF c = 0 THEN open ELSE [open EXCEPT ![c] = FALSE]
  BY DEF detachRest, closes, terminates
<1>2. workers' \in Seq(States) /\ Len(workers') = Len(workers) /\ DOMAIN workers' = DOMAIN workers
  <2>1. CASE w = 0
    BY <1>0, <1>1, <2>1
  <2>2. CASE w # 0
    BY <1>0, <1>1, <2>2 DEF States
  <2> QED
    BY <2>1, <2>2
<1>3. open' \in Seq(BOOLEAN) /\ Len(open') = Len(open)
  <2>1. CASE c = 0
    BY <1>0, <1>1, <2>1
  <2>2. CASE c \in 1..Len(open)
    <3>1. open' = [open EXCEPT ![c] = FALSE]
      BY <1>1, <2>2
    <3> QED
      BY <1>0, <2>2, <3>1
  <2>3. CASE c \notin 0..Len(open)
    <3>1. open' = [open EXCEPT ![c] = FALSE] /\ c \notin DOMAIN open
      BY <1>0, <1>1, <2>3
    <3>2. open' = [d \in DOMAIN open |-> open[d]]
      BY <3>1
    <3>3. open = [d \in DOMAIN open |-> open[d]]
      BY <1>0
    <3> QED
      BY <1>0, <3>2, <3>3
  <2>4. c = 0 \/ c \in 1..Len(open) \/ c \notin 0..Len(open)
    BY <1>0
  <2> QED
    BY <2>1, <2>2, <2>3, <2>4
<1>4. PICK x \in {"resume", "navigate", "ended"} :
        /\ ops' = [s EXCEPT ![o].pc = x]
        /\ dialogs' \subseteq dialogs /\ emulation' \in {"own", "lighthouse"}
        /\ savedEmulation' \in {"own", "lighthouse", "none"}
        /\ view' \in Views /\ (run' = run \/ run' = 0)
  <2>1. CASE suspended
    BY <1>0, <2>1 DEF detachRest
  <2>2. CASE ~suspended
    <3>1. restoreRest(o, s)
      BY <2>2 DEF detachRest
    <3> QED
      BY <1>0, <3>1, RestoreRestTypes
  <2> QED
    BY <2>1, <2>2
<1>5. suspended' \in BOOLEAN
  <2>1. suspended' = FALSE \/ suspended' = suspended
    BY DEF detachRest
  <2> QED
    BY <1>0, <2>1, Zenon
<1>6. /\ ops' \in Seq(Op) /\ Len(ops') = Len(s) /\ DOMAIN ops' = DOMAIN s
      /\ ops'[o].pc = x /\ \A p \in DOMAIN s : p # o => ops'[p] = s[p]
  <2>1. x \in Awaits \cup {"ended"}
    BY DEF Awaits
  <2>2. WentOn(ops', s, o, x)
    BY <1>4, <2>1, SetPc, Zenon
  <2> QED
    BY <2>2 DEF WentOn
<1>7. OpsType'
  BY <1>6 DEF OpsType
<1>8. PanelType'
  BY <1>0, <1>4, <1>6 DEF PanelType
<1>9. Pointing(ops, workers)'
  BY <1>2, <1>4, <1>6 DEF Pointing, Asks
<1> QED
  BY <1>2, <1>3, <1>4, <1>5, <1>7, <1>8, <1>9 DEF Restored

LEMMA RestoreTypes ==
  ASSUME NEW s \in Seq(Op), Len(s) <= MaxOps, NEW o \in DOMAIN s,
         Types, Len(ops) <= Len(s), Pointing(s, workers),
         timespan' \in {"none", "starting", "ready"}, restore(o, s)
  PROVE  Known'
<1>0. /\ run \in 0..Len(s) /\ view \in Views /\ suspended \in BOOLEAN
      /\ emulation \in {"own", "lighthouse"} /\ savedEmulation \in {"own", "lighthouse", "none"}
      /\ worker \in 0..Len(workers) /\ connection \in 0..Len(open) /\ Len(workers) <= MaxWorkers
      /\ workers \in Seq(States) /\ open \in Seq(BOOLEAN) /\ Len(s) \in Nat
      /\ dialogs \subseteq 1..Len(open) /\ removesDialog \in 0..Len(open)
  <2>1. Len(ops) \in Nat /\ Len(s) \in Nat
    BY DEF Types, OpsType
  <2> QED
    BY <2>1 DEF Types, PanelType, WorkersType, SessionType
<1>1. CASE run = 0
  <2>1. /\ afterRestore(o, FALSE, s)
        /\ worker' = worker /\ connection' = connection /\ workers' = workers /\ open' = open
        /\ dialogs' = dialogs /\ removesDialog' = removesDialog
        /\ emulation' = emulation /\ savedEmulation' = savedEmulation
    BY <1>1 DEF restore, nothingToRestore, service
  <2>2. suspended' = suspended
    BY <1>1 DEF restore, nothingToRestore, service
  <2>3. ops' = [s EXCEPT ![o].pc = "ended"] /\ view' \in Views /\ (run' = run \/ run' = 0)
    BY <1>0, <2>1, AfterRestoreTypes
  <2>4. /\ ops' \in Seq(Op) /\ Len(ops') = Len(s) /\ DOMAIN ops' = DOMAIN s
        /\ ops'[o].pc = "ended" /\ \A p \in DOMAIN s : p # o => ops'[p] = s[p]
    <3>1. WentOn(ops', s, o, "ended")
      BY <2>3, Ends, Zenon
    <3> QED
      BY <3>1 DEF WentOn
  <2>5. OpsType' /\ PanelType' /\ SessionType' /\ WorkersType'
    BY <1>0, <2>1, <2>3, <2>4 DEF OpsType, PanelType, SessionType, WorkersType
  <2>6. Pointing(ops, workers)'
    BY <2>1, <2>4 DEF Pointing, Asks
  <2> QED
    BY <1>0, <2>2, <2>5, <2>6 DEF Known, Types
<1>2. CASE run # 0
  <2>1. worker' = 0 /\ connection' = 0 /\ removesDialog' = removesDialog
    BY <1>2 DEF restore, nothingToRestore
  <2>2. CASE ~(worker # 0 /\ workers[worker] = "loading")
    <3>1. detachRest(o, worker, connection, s)
      BY <1>2, <2>2 DEF restore, nothingToRestore
    <3>2. Restored
      BY <1>0, <3>1, DetachRestTypes
    <3>3. WorkersType' /\ SessionType'
      BY <1>0, <2>1, <3>2 DEF Restored, WorkersType, SessionType
    <3> QED
      BY <3>2, <3>3 DEF Restored, Known, Types
  <2>3. CASE worker # 0 /\ workers[worker] = "loading"
    <3>1. /\ ops' = [s EXCEPT ![o].pc = "oldWorker", ![o].worker = worker, ![o].connection = connection]
          /\ view' = view /\ run' = run /\ workers' = workers /\ open' = open
          /\ dialogs' = dialogs /\ emulation' = emulation /\ savedEmulation' = savedEmulation
      BY <1>2, <2>3 DEF restore, nothingToRestore
    <3>2. suspended' = suspended
      BY <1>2, <2>3 DEF restore, nothingToRestore
    <3> DEFINE new == [s[o] EXCEPT !.pc = "oldWorker", !.worker = worker, !.connection = connection]
    <3>3. new \in Op /\ new.pc = "oldWorker" /\ new.worker = worker
      <4>1. worker \in 0..MaxWorkers /\ connection \in Nat
        BY <1>0, Bounds
      <4>2. s[o] \in Op
        OBVIOUS
      <4> QED
        BY <4>1, <4>2 DEF Op, Awaits
    <3>4. ops' = [s EXCEPT ![o] = new]
      BY <3>1
    <3> HIDE DEF new
    <3>5. /\ ops' \in Seq(Op) /\ Len(ops') = Len(s) /\ DOMAIN ops' = DOMAIN s
          /\ ops'[o] = new /\ \A p \in DOMAIN s : p # o => ops'[p] = s[p]
      BY <3>3, <3>4, PutOp
    <3>6. OpsType' /\ PanelType' /\ SessionType' /\ WorkersType'
      BY <1>0, <2>1, <3>1, <3>5 DEF OpsType, PanelType, SessionType, WorkersType
    <3>7. Pointing(ops, workers)'
      BY <1>0, <2>3, <3>1, <3>3, <3>5 DEF Pointing, Asks
    <3> QED
      BY <1>0, <3>2, <3>6, <3>7 DEF Known, Types
  <2> QED
    BY <2>2, <2>3
<1> QED
  BY <1>1, <1>2

(* A request of o, when the ops are s.                                     *)
LEMMA RequestTypes ==
  ASSUME NEW s \in Seq(Op), Len(s) <= MaxOps, NEW o \in DOMAIN s, WorkersType,
         \A p \in DOMAIN s : p # o /\ s[p].pc \in Asks \cup {"oldWorker"} => s[p].worker \in DOMAIN workers,
         Request(o, s)
  PROVE  /\ OpsType' /\ WorkersType' /\ Pointing(ops, workers)' /\ Len(ops') = Len(s)
         /\ DOMAIN ops' = DOMAIN s /\ \A p \in DOMAIN s : p # o => ops'[p] = s[p]
         /\ ops'[o].pc = "worker" /\ ops'[o].worker = worker' /\ ops'[o].kind = s[o].kind
         /\ worker' = Ensured /\ worker' \in DOMAIN workers'
         /\ \A v \in DOMAIN workers : v \in DOMAIN workers' /\ workers'[v] = workers[v]
         /\ \A v \in DOMAIN workers' : v = worker' \/ v \in DOMAIN workers
<1>0. worker \in 0..Len(workers) /\ workers \in Seq(States) /\ Len(workers) <= MaxWorkers
      /\ Len(workers) \in Nat
  BY DEF WorkersType
<1>1. PICK w \in Nat : w = Ensured
  BY <1>0 DEF Ensured
<1>2. /\ worker' = w /\ w \in 1..MaxWorkers
      /\ workers' = IF worker = 0 THEN Append(workers, "loading") ELSE workers
      /\ ops' = [s EXCEPT ![o].pc = "worker", ![o].worker = w]
  BY <1>0, <1>1, Bounds DEF Request, ensureWorkerExists, Ensured
<1>3. /\ workers' \in Seq(States) /\ Len(workers') <= MaxWorkers /\ w \in 1..Len(workers')
      /\ \A v \in DOMAIN workers : v \in DOMAIN workers' /\ workers'[v] = workers[v]
      /\ \A v \in DOMAIN workers' : v = w \/ v \in DOMAIN workers
  <2>1. CASE worker = 0
    <3>1. w = Len(workers) + 1 /\ workers' = Append(workers, "loading") /\ "loading" \in States
      BY <1>1, <1>2, <2>1 DEF Ensured, States
    <3> QED
      BY <1>0, <1>2, <3>1, Bounds
  <2>2. CASE worker # 0
    BY <1>0, <1>1, <1>2, <2>2 DEF Ensured
  <2> QED
    BY <2>1, <2>2
<1> DEFINE new == [s[o] EXCEPT !.pc = "worker", !.worker = w]
<1>4. new \in Op /\ new.pc = "worker" /\ new.worker = w /\ new.kind = s[o].kind
  <2>1. s[o] \in Op
    OBVIOUS
  <2>2. w \in 0..MaxWorkers
    BY <1>2, Bounds
  <2> QED
    BY <2>1, <2>2 DEF Op, Awaits
<1>5. ops' = [s EXCEPT ![o] = new]
  BY <1>2
<1> HIDE DEF new
<1>6. /\ ops' \in Seq(Op) /\ Len(ops') = Len(s) /\ DOMAIN ops' = DOMAIN s
      /\ ops'[o] = new /\ \A p \in DOMAIN s : p # o => ops'[p] = s[p]
  BY <1>4, <1>5, PutOp
<1>7. OpsType' /\ WorkersType'
  BY <1>2, <1>3, <1>6 DEF OpsType, WorkersType
<1>8. Pointing(ops, workers)'
  <2>1. SUFFICES ASSUME NEW p \in DOMAIN s, ops'[p].pc \in Asks \cup {"oldWorker"}
                 PROVE  ops'[p].worker \in DOMAIN workers'
    BY <1>6 DEF Pointing
  <2>2. CASE p = o
    BY <1>3, <1>4, <1>6, <2>2
  <2>3. CASE p # o
    BY <1>3, <1>6, <2>1, <2>3
  <2> QED
    BY <2>2, <2>3
<1> QED
  BY <1>1, <1>2, <1>3, <1>4, <1>6, <1>7, <1>8

-----------------------------------------------------------------------------
(* Every step keeps the types.                                             *)

(* What an op is, and that it is one of those that ops numbers.            *)
LEMMA OpsKnown ==
  ASSUME Known
  PROVE  /\ ops \in Seq(Op) /\ Len(ops) \in Nat /\ DOMAIN ops = 1..Len(ops) /\ Len(ops) <= MaxOps
         /\ \A o \in DOMAIN ops :
              /\ ops[o] \in Op
              /\ ops[o].kind \in {"start", "collect", "cancel"} /\ ops[o].mode \in Modes
              /\ ops[o].pc \in SetsUp \cup GivesUp \cup Asks \cup {"ended"}
              /\ ops[o].pc \in Asks \cup {"oldWorker"} => ops[o].worker \in DOMAIN workers
<1>1. ops \in Seq(Op) /\ Len(ops) \in Nat /\ DOMAIN ops = 1..Len(ops) /\ Len(ops) <= MaxOps
  BY DEF Known, Types, OpsType
<1>2. \A o \in DOMAIN ops : ops[o] \in Op
  BY <1>1
<1> QED
  BY <1>1, <1>2 DEF Op, Awaits, SetsUp, GivesUp, Asks, Known, Pointing

(* An op goes on to wait for x, and nothing but the run and the emulation  *)
(* changes with it.                                                        *)
LEMMA MovesTypes ==
  ASSUME Known, NEW o \in DOMAIN ops, NEW x \in Awaits \cup {"ended"},
         ops' = [ops EXCEPT ![o].pc = x], x \in Asks => ops[o].pc \in Asks, x # "oldWorker",
         view' = view, timespan' \in {"none", "starting", "ready"}, run' \in 0..Len(ops),
         emulation' \in {"own", "lighthouse"}, savedEmulation' \in {"own", "lighthouse", "none"},
         UNCHANGED <<worker, connection, workers, open, dialogs, removesDialog>>,
         suspended' \in BOOLEAN
  PROVE  Known'
<1>1. /\ ops' \in Seq(Op) /\ Len(ops') = Len(ops) /\ DOMAIN ops' = DOMAIN ops
      /\ ops'[o].pc = x /\ ops'[o].worker = ops[o].worker
      /\ \A p \in DOMAIN ops : p # o => ops'[p] = ops[p]
  <2>1. ops \in Seq(Op)
    BY OpsKnown
  <2>2. WentOn(ops', ops, o, x)
    BY <2>1, SetPc, Zenon
  <2> QED
    BY <2>2 DEF WentOn
<1>2. OpsType' /\ PanelType' /\ WorkersType' /\ SessionType'
  BY <1>1 DEF Known, Types, OpsType, PanelType, WorkersType, SessionType
<1>3. Pointing(ops, workers)'
  BY <1>1 DEF Known, Pointing, Asks
<1> QED
  BY <1>2, <1>3 DEF Known, Types

(* The ops stay, and the workers that there are.                           *)
LEMMA StaysTypes ==
  ASSUME Known, ops' = ops, view' \in Views, WorkersType',
         \A v \in DOMAIN workers : v \in DOMAIN workers',
         UNCHANGED <<timespan, run, connection, open, dialogs, removesDialog, emulation,
                     savedEmulation>>,
         suspended' = suspended
  PROVE  Known'
<1>1. OpsType' /\ PanelType' /\ SessionType'
  BY DEF Known, Types, OpsType, PanelType, SessionType
<1>2. Pointing(ops, workers)'
  BY DEF Known, Pointing
<1> QED
  BY <1>1, <1>2 DEF Known, Types

LEMMA ClickStartTypes ==
  ASSUME Known, NEW mode \in Modes, clickStart(mode)
  PROVE  Known'
<1>1. /\ Len(ops) < MaxOps
      /\ ops' = Append(ops, NewOp("start", mode, "url"))
      /\ timespan' \in {"none", "starting"}
      /\ UNCHANGED <<view, run, worker, connection, workers, open, dialogs, removesDialog, emulation,
                     savedEmulation>>
  BY DEF clickStart, service, UserActs
<1>2. suspended' = suspended
  BY DEF clickStart, service
<1>3. /\ ops' \in Seq(Op) /\ Len(ops') = Len(ops) + 1 /\ DOMAIN ops' = 1..Len(ops) + 1
      /\ ops'[Len(ops) + 1].pc = "url" /\ \A p \in DOMAIN ops : ops'[p] = ops[p]
  <2>1. "url" \in Awaits
    BY DEF Awaits
  <2> QED
    BY <1>1, <2>1, OpsKnown, AddOp
<1>4. OpsType' /\ PanelType' /\ WorkersType' /\ SessionType'
  BY <1>1, <1>3, OpsKnown, Bounds DEF Known, Types, OpsType, PanelType, WorkersType, SessionType
<1>5. Pointing(ops, workers)'
  <2>1. \A p \in DOMAIN ops' : p = Len(ops) + 1 \/ p \in DOMAIN ops
    BY <1>3, OpsKnown
  <2> QED
    BY <1>1, <1>3, <2>1 DEF Known, Pointing, Asks
<1> QED
  BY <1>2, <1>4, <1>5 DEF Known, Types

LEMMA StartSetupTypes ==
  ASSUME Known, NEW o \in DOMAIN ops, startSetup(o)
  PROVE  Known'
<1>1. PICK x \in {"connect", "suspend"} : ops' = [ops EXCEPT ![o].pc = x]
  BY DEF startSetup
<1>2. /\ view' = view /\ timespan' = timespan /\ run' = o
      /\ savedEmulation' = emulation /\ emulation' = "lighthouse"
      /\ UNCHANGED <<worker, connection, workers, open, dialogs, removesDialog>>
  BY DEF startSetup
<1>3. suspended' \in BOOLEAN
  <2>1. suspended' = TRUE
    BY DEF startSetup
  <2> QED
    BY <2>1, Zenon
<1>4. run' \in 0..Len(ops)
  BY <1>2, OpsKnown
<1> QED
  BY <1>1, <1>2, <1>3, <1>4, MovesTypes DEF Known, Types, PanelType, Awaits, Asks

LEMMA StartConnectsTypes ==
  ASSUME Known, NEW o \in DOMAIN ops, startConnects(o)
  PROVE  Known'
<1>1. /\ ops' = [ops EXCEPT ![o].pc = "connect"]
      /\ UNCHANGED <<view, timespan, run, emulation, savedEmulation>>
      /\ UNCHANGED <<worker, connection, workers, open, dialogs, removesDialog>>
  BY DEF startConnects, service
<1>2. suspended' = suspended
  BY DEF startConnects, service
<1>3. suspended' \in BOOLEAN
  BY <1>2 DEF Known, Types
<1> QED
  BY <1>1, <1>3, MovesTypes DEF Known, Types, PanelType, Awaits, Asks

LEMMA RequestPostedTypes ==
  ASSUME Known, NEW o \in DOMAIN ops, requestPosted(o)
  PROVE  Known'
<1>1. /\ ops' = [ops EXCEPT ![o].pc = "answer"] /\ ops[o].pc = "worker"
      /\ UNCHANGED <<view, timespan, run, emulation, savedEmulation>>
      /\ UNCHANGED <<worker, connection, workers, open, dialogs, removesDialog>>
  BY DEF requestPosted, service, Awaiting
<1>2. suspended' = suspended
  BY DEF requestPosted, service
<1>3. suspended' \in BOOLEAN
  BY <1>2 DEF Known, Types
<1> QED
  BY <1>1, <1>3, MovesTypes DEF Known, Types, PanelType, Awaits, Asks

LEMMA StartFailsTypes ==
  ASSUME Known, NEW o \in DOMAIN ops, startFails(o)
  PROVE  Known'
<1>1. restore(o, ops) /\ timespan' = timespan
  BY DEF startFails
<1>2. timespan' \in {"none", "starting", "ready"}
  BY <1>1 DEF Known, Types, PanelType
<1>3. Types /\ Pointing(ops, workers)
  BY DEF Known
<1> QED
  BY <1>1, <1>2, <1>3, OpsKnown, RestoreTypes

(* What starting a run does to the ops once it is attached.                *)
LEMMA StartAttachedOps ==
  ASSUME Known, NEW o \in DOMAIN ops
  PROVE  LET r == [ops EXCEPT ![o] = Ended(@)]
             s == Append(r, NewOp("collect", ops[o].mode, "worker"))
         IN /\ s \in Seq(Op) /\ Len(s) = Len(ops) + 1 /\ DOMAIN s = 1..Len(ops) + 1
            /\ s[o].pc = "ended" /\ s[Len(ops) + 1].kind = "collect" /\ s[Len(ops) + 1].pc = "worker"
            /\ \A p \in DOMAIN ops : p # o => s[p] = ops[p]
<1> DEFINE r == [ops EXCEPT ![o] = Ended(@)]
           s == Append(r, NewOp("collect", ops[o].mode, "worker"))
<1>1. r = [ops EXCEPT ![o].pc = "ended"]
  BY OpsKnown, EndOp
<1>2. /\ r \in Seq(Op) /\ Len(r) = Len(ops) /\ DOMAIN r = DOMAIN ops /\ r[o].pc = "ended"
      /\ \A p \in DOMAIN ops : p # o => r[p] = ops[p]
  <2>1. ops \in Seq(Op)
    BY OpsKnown
  <2> HIDE DEF r
  <2>2. WentOn(r, ops, o, "ended")
    BY <1>1, <2>1, Ends, Zenon
  <2> QED
    BY <2>2 DEF WentOn
<1>3. ops[o].mode \in Modes /\ "worker" \in Awaits
  BY OpsKnown DEF Awaits
<1> HIDE DEF r
<1>4. /\ s \in Seq(Op) /\ Len(s) = Len(r) + 1 /\ DOMAIN s = 1..Len(r) + 1
      /\ s[Len(r) + 1].pc = "worker" /\ s[Len(r) + 1].kind = "collect"
      /\ \A p \in DOMAIN r : s[p] = r[p]
  BY <1>2, <1>3, AddOp
<1> HIDE DEF s
<1>5. /\ s \in Seq(Op) /\ Len(s) = Len(ops) + 1 /\ DOMAIN s = 1..Len(ops) + 1
      /\ s[o].pc = "ended" /\ s[Len(ops) + 1].kind = "collect" /\ s[Len(ops) + 1].pc = "worker"
      /\ \A p \in DOMAIN ops : p # o => s[p] = ops[p]
  BY <1>2, <1>4
<1> QED
  BY <1>5 DEF r, s

LEMMA StartAttachedTypes ==
  ASSUME Known, NEW o \in DOMAIN ops, startAttached(o)
  PROVE  Known'
<1>1. PICK c \in Nat : c = Len(open) + 1
  BY DEF Known, Types, SessionType
<1>2. /\ open' = Append(open, TRUE) /\ connection' = c /\ dialogs' = dialogs \cup {c}
      /\ removesDialog' = c /\ emulation' = emulation /\ savedEmulation' = savedEmulation
  BY <1>1 DEF startAttached
<1>3. suspended' = suspended
  BY DEF startAttached
<1>4. SessionType'
  <2>1. open \in Seq(BOOLEAN) /\ TRUE \in BOOLEAN /\ dialogs \subseteq 1..Len(open)
    <3>1. TRUE \in BOOLEAN
      BY Zenon
    <3> QED
      BY <3>1 DEF Known, Types, SessionType
  <2>2. open' \in Seq(BOOLEAN) /\ Len(open') = c
    BY <1>1, <1>2, <2>1
  <2>3. Len(open) \in Nat
    BY <2>1
  <2>4. 1..Len(open) \subseteq 1..c /\ c \in 1..c
    BY <1>1, <2>3
  <2> QED
    BY <1>2, <2>1, <2>2, <2>4 DEF SessionType
<1>5. CASE ops[o].mode = "timespan"
  <2>1. timespan' = timespan
    BY <1>5 DEF startAttached
  <2>2. CASE run = 0
    <3>1. afterRestore(o, FALSE, ops) /\ worker' = worker /\ workers' = workers
      BY <1>5, <2>2 DEF startAttached
    <3>2. ops' = [ops EXCEPT ![o].pc = "ended"] /\ view' \in Views /\ (run' = run \/ run' = 0)
      BY <3>1, OpsKnown, AfterRestoreTypes DEF Known, Types, PanelType
    <3>3. /\ ops' \in Seq(Op) /\ Len(ops') = Len(ops) /\ DOMAIN ops' = DOMAIN ops
          /\ ops'[o].pc = "ended" /\ \A p \in DOMAIN ops : p # o => ops'[p] = ops[p]
      <4>1. ops \in Seq(Op)
        BY OpsKnown
      <4>2. WentOn(ops', ops, o, "ended")
        BY <3>2, <4>1, Ends, Zenon
      <4> QED
        BY <4>2 DEF WentOn
    <3>4. OpsType' /\ PanelType' /\ WorkersType'
      BY <1>2, <2>1, <2>2, <3>1, <3>2, <3>3 DEF Known, Types, OpsType, PanelType, WorkersType
    <3>5. Pointing(ops, workers)'
      BY <3>1, <3>3 DEF Known, Pointing, Asks
    <3> QED
      BY <1>3, <1>4, <3>4, <3>5 DEF Known, Types
  <2>3. CASE run # 0
    <3>1. Request(o, ops) /\ view' = view /\ run' = run
      BY <1>5, <2>3 DEF startAttached
    <3>2. OpsType' /\ WorkersType' /\ Pointing(ops, workers)' /\ Len(ops') = Len(ops)
      BY <3>1, OpsKnown, RequestTypes DEF Known, Types
    <3>3. PanelType'
      BY <1>2, <2>1, <3>1, <3>2 DEF Known, Types, PanelType
    <3> QED
      BY <1>3, <1>4, <3>2, <3>3 DEF Known, Types
  <2> QED
    BY <2>2, <2>3
<1>6. CASE ops[o].mode # "timespan"
  <2> DEFINE s == Append([ops EXCEPT ![o] = Ended(@)], NewOp("collect", ops[o].mode, "worker"))
             n == Len(ops) + 1
  <2>1. /\ s \in Seq(Op) /\ Len(s) = n /\ DOMAIN s = 1..n
        /\ s[o].pc = "ended" /\ s[n].kind = "collect" /\ s[n].pc = "worker"
        /\ \A p \in DOMAIN ops : p # o => s[p] = ops[p]
    BY StartAttachedOps
  <2>2. /\ Len(ops) < MaxOps /\ timespan' = "none"
        /\ run = 0 => /\ ops' = [s EXCEPT ![n] = Ended(@)] /\ view' = "error"
                      /\ UNCHANGED <<run, worker, workers>>
        /\ run # 0 => view' = "status" /\ Request(n, s) /\ UNCHANGED run
    BY <1>6 DEF startAttached
  <2> HIDE DEF s
  <2>3. n \in DOMAIN s /\ Len(s) <= MaxOps /\ \A p \in DOMAIN s : p # n => p \in DOMAIN ops
    BY <2>1, <2>2, OpsKnown, Bounds
  <2>4. \A p \in DOMAIN s : p # n /\ s[p].pc \in Asks \cup {"oldWorker"} => s[p].worker \in DOMAIN workers
    BY <2>1, <2>3, OpsKnown DEF Asks
  <2>5. CASE run = 0
    <3>1. ops' = [s EXCEPT ![n].pc = "ended"]
      BY <2>1, <2>2, <2>3, <2>5, EndOp
    <3>2. /\ ops' \in Seq(Op) /\ Len(ops') = Len(s) /\ DOMAIN ops' = DOMAIN s
          /\ ops'[n].pc = "ended" /\ \A p \in DOMAIN s : p # n => ops'[p] = s[p]
      <4>1. s \in Seq(Op) /\ n \in DOMAIN s
        BY <2>1, <2>3
      <4> HIDE DEF n
      <4>2. WentOn(ops', s, n, "ended")
        BY <3>1, <4>1, Ends, Zenon
      <4> QED
        BY <4>2 DEF WentOn
    <3>3. OpsType' /\ WorkersType'
      BY <2>2, <2>3, <2>5, <3>2 DEF Known, Types, OpsType, WorkersType
    <3>4. PanelType'
      BY <1>2, <2>1, <2>2, <2>5, <3>2 DEF Known, Types, PanelType, Views
    <3>5. Pointing(ops, workers)'
      BY <2>2, <2>4, <2>5, <3>2 DEF Pointing, Asks
    <3> QED
      BY <1>3, <1>4, <3>3, <3>4, <3>5 DEF Known, Types
  <2>6. CASE run # 0
    <3>1. view' = "status" /\ Request(n, s) /\ run' = run
      BY <2>2, <2>6
    <3>2. OpsType' /\ WorkersType' /\ Pointing(ops, workers)' /\ Len(ops') = Len(s)
      BY <2>1, <2>3, <2>4, <3>1, RequestTypes DEF Known, Types
    <3>3. PanelType'
      BY <1>2, <2>1, <2>2, <3>1, <3>2, OpsKnown DEF Known, Types, PanelType, Views
    <3> QED
      BY <1>3, <1>4, <3>2, <3>3 DEF Known, Types
  <2> QED
    BY <2>5, <2>6
<1> QED
  BY <1>5, <1>6

(* What calling an op does to the ops, which the user does to collect what *)
(* a timespan saw, or to cancel.                                           *)
LEMMA CalledOps ==
  ASSUME Known, NEW k \in {"collect", "cancel"}, NEW m \in Modes, NEW x \in {"worker", "ended"},
         Len(ops) < MaxOps
  PROVE  LET s == Append(ops, NewOp(k, m, x))
             n == Len(ops) + 1
         IN /\ s \in Seq(Op) /\ Len(s) = n /\ DOMAIN s = 1..n /\ n \in 1..n /\ n \notin DOMAIN ops
            /\ n <= MaxOps /\ Len(ops) <= n /\ \A p \in DOMAIN s : p # n => p \in DOMAIN ops
            /\ s[n].kind = k /\ s[n].pc = x /\ \A p \in DOMAIN ops : s[p] = ops[p]
<1> DEFINE s == Append(ops, NewOp(k, m, x))
           n == Len(ops) + 1
<1>1. ops \in Seq(Op) /\ x \in Awaits
         \cup {"ended"}
  BY OpsKnown DEF Awaits
<1>2. /\ s \in Seq(Op) /\ Len(s) = n /\ DOMAIN s = 1..n
      /\ s[n].kind = k /\ s[n].pc = x /\ \A p \in DOMAIN ops : s[p] = ops[p]
  BY <1>1, AddOp
<1>3. Len(ops) \in Nat /\ DOMAIN ops = 1..Len(ops)
  BY OpsKnown
<1>4. n \in 1..n /\ n <= MaxOps /\ Len(ops) <= n /\ n \notin 1..Len(ops)
      /\ \A p \in 1..n : p # n => p \in 1..Len(ops)
  BY <1>3, Bounds
<1> HIDE DEF s, n
<1>5. /\ s \in Seq(Op) /\ Len(s) = n /\ DOMAIN s = 1..n /\ n \in 1..n /\ n \notin DOMAIN ops
      /\ n <= MaxOps /\ Len(ops) <= n /\ \A p \in DOMAIN s : p # n => p \in DOMAIN ops
      /\ s[n].kind = k /\ s[n].pc = x /\ \A p \in DOMAIN ops : s[p] = ops[p]
  BY <1>2, <1>3, <1>4
<1> QED
  BY <1>5 DEF s, n

LEMMA ClickEndTypes ==
  ASSUME Known, clickEnd
  PROVE  Known'
<1> DEFINE s == Append(ops, NewOp("collect", "timespan", "worker"))
           n == Len(ops) + 1
<1>1. /\ Len(ops) < MaxOps /\ timespan' = "none"
      /\ UNCHANGED <<run, connection, open, dialogs, removesDialog, emulation, savedEmulation>>
      /\ run = 0 => /\ ops' = [s EXCEPT ![n] = Ended(@)] /\ view' = "error"
                    /\ UNCHANGED <<worker, workers>>
      /\ run # 0 => view' = "status" /\ Request(n, s)
  BY DEF clickEnd, UserActs
<1>2. suspended' = suspended
  BY DEF clickEnd
<1>3. "timespan" \in Modes
  BY DEF Modes
<1>4. /\ s \in Seq(Op) /\ Len(s) = n /\ DOMAIN s = 1..n /\ n \in 1..n
      /\ n <= MaxOps /\ Len(ops) <= n /\ \A p \in DOMAIN s : p # n => p \in DOMAIN ops
      /\ \A p \in DOMAIN ops : s[p] = ops[p]
  BY <1>1, <1>3, CalledOps
<1> HIDE DEF s, n
<1>5. \A p \in DOMAIN s : p # n /\ s[p].pc \in Asks \cup {"oldWorker"} => s[p].worker \in DOMAIN workers
  BY <1>4, OpsKnown DEF Asks
<1>6. SessionType'
  BY <1>1 DEF Known, Types, SessionType
<1>7. run \in 0..n
  <2>1. Len(ops) \in Nat /\ n \in Nat
    BY OpsKnown DEF n
  <2> QED
    BY <1>4, <2>1 DEF Known, Types, PanelType
<1>8. CASE run = 0
  <2>1. ops' = [s EXCEPT ![n].pc = "ended"]
    BY <1>1, <1>4, <1>8, EndOp
  <2>2. /\ ops' \in Seq(Op) /\ Len(ops') = Len(s) /\ DOMAIN ops' = DOMAIN s
        /\ ops'[n].pc = "ended" /\ \A p \in DOMAIN s : p # n => ops'[p] = s[p]
    <3>1. s \in Seq(Op) /\ n \in DOMAIN s
      BY <1>4
    <3>2. WentOn(ops', s, n, "ended")
      BY <2>1, <3>1, Ends, Zenon
    <3> QED
      BY <3>2 DEF WentOn
  <2>3. OpsType' /\ PanelType' /\ WorkersType'
    BY <1>1, <1>4, <1>7, <1>8, <2>2 DEF Known, Types, OpsType, PanelType, WorkersType, Views
  <2>4. Pointing(ops, workers)'
    BY <1>1, <1>5, <1>8, <2>2 DEF Pointing, Asks
  <2> QED
    BY <1>2, <1>6, <2>3, <2>4 DEF Known, Types
<1>9. CASE run # 0
  <2>1. view' = "status" /\ Request(n, s)
    BY <1>1, <1>9
  <2>2. OpsType' /\ WorkersType' /\ Pointing(ops, workers)' /\ Len(ops') = Len(s)
    BY <1>4, <1>5, <2>1, RequestTypes DEF Known, Types
  <2>3. PanelType'
    BY <1>1, <1>4, <1>7, <2>1, <2>2 DEF Known, Types, PanelType, Views
  <2> QED
    BY <1>2, <1>6, <2>2, <2>3 DEF Known, Types
<1> QED
  BY <1>8, <1>9

LEMMA ClickCancelTypes ==
  ASSUME Known, clickCancel
  PROVE  Known'
<1> DEFINE s == Append(ops, NewOp("cancel", "snapshot", "ended"))
           n == Len(ops) + 1
<1>1. Len(ops) < MaxOps /\ timespan' = "none" /\ restore(n, s)
  BY DEF clickCancel, UserActs
<1>2. "snapshot" \in Modes
  BY DEF Modes
<1>3. /\ s \in Seq(Op) /\ Len(s) = n /\ DOMAIN s = 1..n /\ n \in 1..n
      /\ n <= MaxOps /\ Len(ops) <= n /\ \A p \in DOMAIN s : p # n => p \in DOMAIN ops
      /\ s[n].pc = "ended" /\ \A p \in DOMAIN ops : s[p] = ops[p]
  BY <1>1, <1>2, CalledOps
<1> HIDE DEF s, n
<1>4. Pointing(s, workers)
  BY <1>3, OpsKnown DEF Pointing, Asks
<1> QED
  BY <1>1, <1>3, <1>4, RestoreTypes DEF Known

LEMMA AnsweredTypes ==
  ASSUME Known, NEW o \in DOMAIN ops, answered(o)
  PROVE  Known'
<1>1. ops[o].pc = "answer"
  BY DEF answered, Awaiting
<1>2. ops \in Seq(Op) /\ ops[o] \in Op
  BY OpsKnown
<1>3. CASE ops[o].kind = "start"
  <2>1. /\ ops' = [ops EXCEPT ![o] = Ended(@)]
        /\ timespan' = IF timespan = "starting" THEN "ready" ELSE timespan
        /\ UNCHANGED <<view, run, emulation, savedEmulation>>
        /\ UNCHANGED <<worker, connection, workers, open, dialogs, removesDialog>>
    BY <1>3 DEF answered, service
  <2>2. suspended' = suspended
    BY <1>3 DEF answered, service
  <2>3. ops' = [ops EXCEPT ![o].pc = "ended"]
    BY <1>2, <2>1, EndOp
  <2>4. suspended' \in BOOLEAN /\ timespan' \in {"none", "starting", "ready"}
    BY <2>1, <2>2 DEF Known, Types, PanelType
  <2> QED
    BY <2>1, <2>3, <2>4, MovesTypes DEF Known, Types, PanelType, Awaits, Asks
<1>4. CASE ops[o].kind # "start"
  <2>1. PICK failed \in BOOLEAN : restore(o, [ops EXCEPT ![o].failed = failed])
    BY <1>4 DEF answered
  <2>2. timespan' = timespan
    BY <1>4 DEF answered
  <2>3. PICK s : s = [ops EXCEPT ![o].failed = failed]
    OBVIOUS
  <2>4. PICK e : e = [ops[o] EXCEPT !.failed = failed]
    OBVIOUS
  <2>5. e \in Op /\ e.pc = ops[o].pc /\ e.worker = ops[o].worker
    BY <1>2, <2>4 DEF Op
  <2>6. s = [ops EXCEPT ![o] = e]
    BY <2>3, <2>4
  <2>7. /\ s \in Seq(Op) /\ Len(s) = Len(ops) /\ DOMAIN s = DOMAIN ops
        /\ s[o] = e /\ \A p \in DOMAIN ops : p # o => s[p] = ops[p]
    BY <1>2, <2>5, <2>6, PutOp
  <2>8. Pointing(s, workers)
    <3>1. Pointing(ops, workers)
      BY DEF Known
    <3> QED
      BY <2>5, <2>7, <3>1 DEF Pointing
  <2>9. Len(s) <= MaxOps /\ Len(ops) <= Len(s)
    BY <2>7, OpsKnown
  <2>10. restore(o, s) /\ timespan' \in {"none", "starting", "ready"} /\ Types
    BY <2>1, <2>2, <2>3 DEF Known, Types, PanelType
  <2> QED
    BY <2>7, <2>8, <2>9, <2>10, RestoreTypes
<1> QED
  BY <1>3, <1>4

LEMMA WorkerReadyTypes ==
  ASSUME Known, NEW w \in DOMAIN workers, workerReady(w)
  PROVE  Known'
<1>1. /\ workers' = [workers EXCEPT ![w] = "ready"] /\ ops' = ops /\ view' = view /\ worker' = worker
      /\ UNCHANGED <<timespan, run, connection, open, dialogs, removesDialog, emulation,
                     savedEmulation>>
  BY DEF workerReady
<1>2. suspended' = suspended
  BY DEF workerReady
<1>3. WorkersType' /\ DOMAIN workers' = DOMAIN workers
  BY <1>1 DEF Known, Types, WorkersType, States
<1> QED
  BY <1>1, <1>2, <1>3, StaysTypes DEF Known, Types, PanelType

LEMMA ProtocolMessageTypes ==
  ASSUME Known, protocolMessage
  PROVE  /\ Known' /\ worker' = Len(workers) + 1 /\ worker' \in DOMAIN workers'
         /\ \A v \in DOMAIN workers : v \in DOMAIN workers' /\ workers'[v] = workers[v]
         /\ \A v \in DOMAIN workers' : v = worker' \/ v \in DOMAIN workers
<1>0. worker = 0 /\ workers \in Seq(States) /\ Len(workers) <= MaxWorkers /\ Len(workers) \in Nat
  BY DEF Known, Types, WorkersType, protocolMessage
<1>1. /\ worker' = Len(workers) + 1 /\ worker' <= MaxWorkers /\ workers' = Append(workers, "loading")
      /\ ops' = ops /\ view' = view
      /\ UNCHANGED <<timespan, run, connection, open, dialogs, removesDialog, emulation,
                     savedEmulation>>
  BY <1>0 DEF protocolMessage, ensureWorkerExists, Ensured
<1>2. suspended' = suspended
  BY DEF protocolMessage
<1>3. /\ workers' \in Seq(States) /\ Len(workers') = Len(workers) + 1
      /\ \A v \in DOMAIN workers : v \in DOMAIN workers' /\ workers'[v] = workers[v]
      /\ \A v \in DOMAIN workers' : v = Len(workers) + 1 \/ v \in DOMAIN workers
  <2>1. "loading" \in States
    BY DEF States
  <2> QED
    BY <1>0, <1>1, <2>1
<1>4. WorkersType' /\ worker' \in DOMAIN workers'
  BY <1>0, <1>1, <1>3, Bounds DEF WorkersType
<1>5. Known'
  BY <1>1, <1>2, <1>3, <1>4, StaysTypes DEF Known, Types, PanelType
<1> QED
  BY <1>1, <1>3, <1>4, <1>5

LEMMA ClickNewTypes ==
  ASSUME Known, clickNew
  PROVE  Known'
<1>1. /\ view' = "start" /\ ops' = ops /\ worker' = worker /\ workers' = workers
      /\ UNCHANGED <<timespan, run, connection, open, dialogs, removesDialog, emulation,
                     savedEmulation>>
  BY DEF clickNew, service
<1>2. suspended' = suspended
  BY DEF clickNew, service
<1>3. WorkersType'
  BY <1>1 DEF Known, Types, WorkersType
<1> QED
  BY <1>1, <1>2, <1>3, StaysTypes DEF Views

LEMMA OldWorkerReadyTypes ==
  ASSUME Known, NEW o \in DOMAIN ops, oldWorkerReady(o)
  PROVE  Known' /\ Restored
<1>1. /\ ops[o].pc = "oldWorker" /\ detachRest(o, ops[o].worker, ops[o].connection, ops)
      /\ timespan' = timespan /\ worker' = worker /\ connection' = connection
      /\ removesDialog' = removesDialog
  BY DEF oldWorkerReady, Awaiting
<1>2. PICK w : w = ops[o].worker
  OBVIOUS
<1>3. PICK c \in Nat : c = ops[o].connection
  <2>1. ops[o] \in Op
    BY OpsKnown
  <2> QED
    BY <2>1 DEF Op
<1>4. w \in 0..Len(workers)
  BY <1>1, <1>2 DEF Known, Pointing, Types, WorkersType
<1>5. detachRest(o, w, c, ops) /\ timespan' \in {"none", "starting", "ready"}
  BY <1>1, <1>2, <1>3 DEF Known, Types, PanelType
<1>6. Types /\ Pointing(ops, workers) /\ ops \in Seq(Op) /\ Len(ops) <= MaxOps /\ Len(ops) <= Len(ops)
  BY OpsKnown DEF Known
<1>7. Restored
  BY <1>4, <1>5, <1>6, DetachRestTypes
<1>8. WorkersType' /\ SessionType'
  BY <1>1, <1>7 DEF Known, Types, Restored, WorkersType, SessionType
<1> QED
  BY <1>7, <1>8 DEF Restored, Known, Types

LEMMA TargetsResumedTypes ==
  ASSUME Known, NEW o \in DOMAIN ops, targetsResumed(o)
  PROVE  Known'
<1>1. /\ restoreRest(o, ops)
      /\ timespan' = timespan /\ worker' = worker /\ connection' = connection
      /\ workers' = workers /\ open' = open /\ removesDialog' = removesDialog
  BY DEF targetsResumed
<1>2. suspended' = suspended
  BY DEF targetsResumed
<1>3. ops \in Seq(Op) /\ view \in Views
      /\ emulation \in {"own", "lighthouse"} /\ savedEmulation \in {"own", "lighthouse", "none"}
  BY OpsKnown DEF Known, Types, PanelType
<1>4. /\ dialogs' = dialogs \ {removesDialog} /\ savedEmulation' = "none"
      /\ emulation' \in {"own", "lighthouse"}
      /\ \E x \in {"navigate", "ended"} : ops' = [ops EXCEPT ![o].pc = x]
      /\ view' \in Views /\ (run' = run \/ run' = 0)
  BY <1>1, <1>3, RestoreRestTypes
<1>5. PICK x \in {"navigate", "ended"} : ops' = [ops EXCEPT ![o].pc = x]
  BY <1>4
<1>6. /\ ops' \in Seq(Op) /\ Len(ops') = Len(ops) /\ DOMAIN ops' = DOMAIN ops
      /\ ops'[o].pc = x /\ \A p \in DOMAIN ops : p # o => ops'[p] = ops[p]
  <2>1. ops \in Seq(Op) /\ x \in Awaits \cup {"ended"}
    BY <1>3 DEF Awaits
  <2>2. WentOn(ops', ops, o, x)
    BY <1>5, <2>1, SetPc, Zenon
  <2> QED
    BY <2>2 DEF WentOn
<1>7. OpsType' /\ PanelType' /\ WorkersType' /\ SessionType'
  BY <1>1, <1>4, <1>6 DEF Known, Types, OpsType, PanelType, WorkersType, SessionType
<1>8. Pointing(ops, workers)'
  BY <1>1, <1>6 DEF Known, Pointing, Asks
<1> QED
  BY <1>2, <1>7, <1>8 DEF Known, Types

LEMMA PageReloadedTypes ==
  ASSUME Known, NEW o \in DOMAIN ops, pageReloaded(o)
  PROVE  /\ Known' /\ DOMAIN ops' = DOMAIN ops
         /\ ops'[o].pc = "ended" /\ \A p \in DOMAIN ops : p # o => ops'[p] = ops[p]
<1>1. /\ afterRestore(o, FALSE, ops)
      /\ timespan' = timespan /\ worker' = worker /\ connection' = connection
      /\ workers' = workers /\ open' = open /\ dialogs' = dialogs /\ removesDialog' = removesDialog
      /\ emulation' = emulation /\ savedEmulation' = savedEmulation
  BY DEF pageReloaded, service
<1>2. suspended' = suspended
  BY DEF pageReloaded, service
<1>3. ops \in Seq(Op) /\ view \in Views /\ FALSE \in BOOLEAN
  <2>1. FALSE \in BOOLEAN
    BY Zenon
  <2> QED
    BY <2>1, OpsKnown DEF Known, Types, PanelType
<1>4. ops' = [ops EXCEPT ![o].pc = "ended"] /\ view' \in Views /\ (run' = run \/ run' = 0)
  BY <1>1, <1>3, AfterRestoreTypes
<1>5. WentOn(ops', ops, o, "ended")
  BY <1>3, <1>4, Ends, Zenon
<1>7. /\ ops' \in Seq(Op) /\ Len(ops') = Len(ops) /\ DOMAIN ops' = DOMAIN ops
      /\ ops'[o].pc = "ended" /\ \A p \in DOMAIN ops : p # o => ops'[p] = ops[p]
  BY <1>5 DEF WentOn
<1>8. OpsType' /\ PanelType' /\ WorkersType' /\ SessionType'
  BY <1>1, <1>4, <1>7 DEF Known, Types, OpsType, PanelType, WorkersType, SessionType
<1>9. Pointing(ops, workers)'
  BY <1>1, <1>7 DEF Known, Pointing, Asks
<1> QED
  BY <1>2, <1>7, <1>8, <1>9 DEF Known, Types

LEMMA KnownStep ==
  ASSUME Known, [Next]_vars
  PROVE  Known'
<1>1. CASE UNCHANGED vars
  <2>1. /\ ops' = ops /\ view' = view /\ worker' = worker /\ workers' = workers
        /\ UNCHANGED <<timespan, run, connection, open, dialogs, removesDialog, emulation,
                       savedEmulation>>
    BY <1>1 DEF vars, service
  <2>2. suspended' = suspended
    BY <1>1 DEF vars, service
  <2>3. WorkersType'
    BY <2>1 DEF Known, Types, WorkersType
  <2> QED
    BY <2>1, <2>2, <2>3, StaysTypes DEF Known, Types, PanelType
<1>2. ASSUME NEW o \in DOMAIN ops, Continues(o) PROVE Known'
  BY <1>2, StartSetupTypes, StartConnectsTypes, StartFailsTypes, StartAttachedTypes,
     RequestPostedTypes, OldWorkerReadyTypes, TargetsResumedTypes, PageReloadedTypes DEF Continues
<1>3. ASSUME NEW mode \in Modes, clickStart(mode) PROVE Known'
  BY <1>3, ClickStartTypes
<1> QED
  BY <1>1, <1>2, <1>3, ClickEndTypes, ClickCancelTypes, ClickNewTypes, WorkerReadyTypes,
     AnsweredTypes, ProtocolMessageTypes DEF Next

-----------------------------------------------------------------------------
(* As long as no two ops met that the code cannot tell apart, a run is     *)
(* being started, or runs, or all of it is given back or on its way.       *)

(* An op of s but o waits to terminate worker w, or to close connection c. *)
HoldsWorker(s, o, w) == \E p \in DOMAIN s : p # o /\ s[p].pc = "oldWorker" /\ s[p].worker = w
HoldsConnection(s, o, c) == \E p \in DOMAIN s : p # o /\ s[p].pc = "oldWorker" /\ s[p].connection = c

(* When the ops are s, but for o none sets up, and every worker is         *)
(* terminated, or is w, or u, which no op asks, or is held; every          *)
(* connection is closed, or is c, or is held.                              *)
Owned(s, o, ws, cs, w, u, c) ==
  /\ \A p \in DOMAIN s : p # o => s[p].pc \notin SetsUp
  /\ \A p \in DOMAIN s : p # o /\ s[p].pc \in Asks =>
       \/ ws[s[p].worker] = "terminated" \/ s[p].worker = w \/ HoldsWorker(s, o, s[p].worker)
  /\ \A v \in DOMAIN ws : ws[v] # "terminated" => v = w \/ v = u \/ HoldsWorker(s, o, v)
  /\ \A d \in DOMAIN cs : cs[d] => d = c \/ HoldsConnection(s, o, d)

InOp(pcs) == \E p \in DOMAIN ops : ops[p].pc \in pcs

GivesBack ==
  /\ Owned(ops, 0, workers, open, 0, worker, 0)
  /\ connection = 0 /\ dialogs \subseteq {removesDialog} /\ restoredEmulation = "own"
  /\ timespan # "ready"
  /\ suspended => InOp({"oldWorker"})
  /\ dialogs # {} \/ savedEmulation # "none" => InOp({"oldWorker", "resume"})

(* But for o nothing is under way, and no worker but w is left.            *)
Still(s, o, ws, w) ==
  /\ \A p \in DOMAIN s : p # o => \/ s[p].pc = "ended"
                                  \/ s[p].pc \in Asks /\ ws[s[p].worker] = "terminated"
  /\ \A v \in DOMAIN ws : ws[v] # "terminated" => v = w

Unopened == connection = 0 /\ dialogs = {} /\ \A c \in DOMAIN open : ~open[c]

Starting(o) ==
  /\ o \in DOMAIN ops /\ ops[o].kind = "start" /\ ops[o].pc \in SetsUp
  /\ Still(ops, o, workers, worker) /\ Unopened
  /\ timespan # "ready" /\ (ops[o].mode = "timespan" => timespan = "starting")
  /\ IF ops[o].pc = "url"
     THEN ~suspended /\ emulation = "own" /\ savedEmulation = "none"
     ELSE run = o /\ suspended /\ savedEmulation = "own"

Running ==
  /\ run # 0 /\ connection # 0 /\ suspended /\ savedEmulation = "own"
  /\ dialogs \subseteq {removesDialog}
  /\ timespan # "none" \/ view = "status"
  /\ \A p \in DOMAIN ops : ops[p].pc \notin SetsUp \cup GivesUp
  /\ \A p \in DOMAIN ops : ops[p].pc \in Asks =>
       \/ workers[ops[p].worker] = "terminated"
       \/ ops[p].worker = worker /\ (ops[p].kind # "start" => timespan = "none")
  /\ \A w \in DOMAIN workers : workers[w] # "terminated" => w = worker
  /\ \A c \in DOMAIN open : open[c] => c = connection

Orderly == (\E o \in DOMAIN ops : Starting(o)) \/ Running \/ GivesBack

LInv == Known /\ (~clashed => Orderly)

(* Owned after o terminated w, closed c, and goes on, but waits for        *)
(* neither a worker nor an answer.                                         *)
LEMMA OwnedAfter ==
  ASSUME NEW s, NEW o \in DOMAIN s, 0 \notin DOMAIN s, NEW t, DOMAIN t = DOMAIN s,
         t[o].pc \notin SetsUp, t[o].pc \notin Asks, \A p \in DOMAIN s : p # o => t[p] = s[p],
         NEW ws, NEW w, NEW ws2, DOMAIN ws2 = DOMAIN ws,
         \A v \in DOMAIN ws : ws2[v] = ws[v] \/ ws2[v] = "terminated",
         w \in DOMAIN ws => ws2[w] = "terminated",
         NEW cs, NEW c, NEW cs2, DOMAIN cs2 = DOMAIN cs,
         \A d \in DOMAIN cs : cs2[d] => cs[d] /\ d # c,
         NEW u, Pointing(s, ws), Owned(s, o, ws, cs, w, u, c)
  PROVE  Owned(t, 0, ws2, cs2, 0, u, 0)
<1>1. \A v : HoldsWorker(s, o, v) => HoldsWorker(t, 0, v)
  BY DEF HoldsWorker
<1>2. \A v : HoldsConnection(s, o, v) => HoldsConnection(t, 0, v)
  BY DEF HoldsConnection
<1>3. \A p \in DOMAIN t : p # 0 => t[p].pc \notin SetsUp
  BY DEF Owned
<1>4. \A p \in DOMAIN t : t[p].pc \in Asks => p # o /\ t[p] = s[p] /\ s[p].worker \in DOMAIN ws
  BY DEF Pointing
<1>5. \A p \in DOMAIN t : p # 0 /\ t[p].pc \in Asks =>
        ws2[t[p].worker] = "terminated" \/ t[p].worker = 0 \/ HoldsWorker(t, 0, t[p].worker)
  BY <1>1, <1>4 DEF Owned
<1>6. \A v \in DOMAIN ws2 : ws2[v] # "terminated" => v = 0 \/ v = u \/ HoldsWorker(t, 0, v)
  BY <1>1 DEF Owned
<1>7. \A d \in DOMAIN cs2 : cs2[d] => d = 0 \/ HoldsConnection(t, 0, d)
  BY <1>2 DEF Owned
<1> QED
  BY <1>3, <1>5, <1>6, <1>7 DEF Owned

(* Owned when o goes on to wait for w, which it will terminate with c.     *)
LEMMA OwnedWaiting ==
  ASSUME NEW s, NEW o \in DOMAIN s, 0 \notin DOMAIN s, NEW t, DOMAIN t = DOMAIN s,
         NEW ws, NEW w, NEW cs, NEW c, NEW u,
         t[o].pc = "oldWorker", t[o].worker = w, t[o].connection = c,
         \A p \in DOMAIN s : p # o => t[p] = s[p], Owned(s, o, ws, cs, w, u, c)
  PROVE  Owned(t, 0, ws, cs, 0, u, 0)
<1>1. \A v : HoldsWorker(s, o, v) \/ v = w => HoldsWorker(t, 0, v)
  BY DEF HoldsWorker
<1>2. \A v : HoldsConnection(s, o, v) \/ v = c => HoldsConnection(t, 0, v)
  BY DEF HoldsConnection
<1>3. \A p \in DOMAIN t : p # 0 => t[p].pc \notin SetsUp
  BY DEF Owned, SetsUp
<1>4. \A p \in DOMAIN t : t[p].pc \in Asks => p # o /\ t[p] = s[p]
  BY DEF Asks
<1>5. \A p \in DOMAIN t : p # 0 /\ t[p].pc \in Asks =>
        ws[t[p].worker] = "terminated" \/ t[p].worker = 0 \/ HoldsWorker(t, 0, t[p].worker)
  BY <1>1, <1>4 DEF Owned
<1>6. \A v \in DOMAIN ws : ws[v] # "terminated" => v = 0 \/ v = u \/ HoldsWorker(t, 0, v)
  BY <1>1 DEF Owned
<1>7. \A d \in DOMAIN cs : cs[d] => d = 0 \/ HoldsConnection(t, 0, d)
  BY <1>2 DEF Owned
<1> QED
  BY <1>3, <1>5, <1>6, <1>7 DEF Owned

(* Owned does not depend on what u is, if no worker but w and those that   *)
(* are held is left.                                                       *)
LEMMA OwnedLess ==
  ASSUME NEW s, NEW o, NEW ws, NEW cs, NEW w, NEW c, NEW u, Owned(s, o, ws, cs, w, w, c)
  PROVE  Owned(s, o, ws, cs, w, u, c)
BY DEF Owned

(* The last part of detach, called by op o when the ops are s.             *)
LEMMA DetachGivesBack ==
  ASSUME NEW s \in Seq(Op), NEW o \in DOMAIN s,
         Types, Pointing(s, workers), timespan' # "ready", connection' = 0,
         removesDialog' = removesDialog,
         dialogs \subseteq {removesDialog}, restoredEmulation = "own",
         NEW w \in 0..Len(workers), NEW c \in Nat, NEW u, worker' = u,
         Owned(s, o, workers, open, w, u, c), detachRest(o, w, c, s)
  PROVE  GivesBack'
<1>1. /\ workers' = IF w = 0 THEN workers ELSE [workers EXCEPT ![w] = "terminated"]
      /\ open' = IF c = 0 THEN open ELSE [open EXCEPT ![c] = FALSE]
  BY DEF detachRest, closes, terminates
<1>2. /\ workers \in Seq(States) /\ open \in Seq(BOOLEAN) /\ view \in Views
      /\ emulation \in {"own", "lighthouse"} /\ savedEmulation \in {"own", "lighthouse", "none"}
  BY DEF Types, WorkersType, SessionType, PanelType
<1>3. /\ DOMAIN workers' = DOMAIN workers
      /\ \A v \in DOMAIN workers : workers'[v] = workers[v] \/ workers'[v] = "terminated"
      /\ w \in DOMAIN workers => workers'[w] = "terminated"
  BY <1>1, <1>2
<1>4. /\ DOMAIN open' = DOMAIN open
      /\ \A d \in DOMAIN open : open'[d] => open[d] /\ d # c
  BY <1>1, <1>2
<1>5. PICK x \in {"resume", "navigate", "ended"} :
        /\ ops' = [s EXCEPT ![o].pc = x]
        /\ dialogs' \subseteq {removesDialog'} /\ restoredEmulation' = "own"
        /\ dialogs' # {} \/ savedEmulation' # "none" => x = "resume"
  <2>1. CASE suspended
    <3>1. /\ ops' = [s EXCEPT ![o].pc = "resume"] /\ dialogs' = dialogs /\ emulation' = emulation
          /\ savedEmulation' = savedEmulation
      BY <2>1 DEF detachRest
    <3> QED
      BY <3>1 DEF restoredEmulation
  <2>2. CASE ~suspended
    <3>1. restoreRest(o, s)
      BY <2>2 DEF detachRest
    <3>2. /\ dialogs' = dialogs \ {removesDialog} /\ savedEmulation' = "none"
          /\ emulation' = restoredEmulation
          /\ \E x \in {"navigate", "ended"} : ops' = [s EXCEPT ![o].pc = x]
      BY <1>2, <3>1, RestoreRestTypes
    <3> QED
      BY <3>2 DEF restoredEmulation
  <2> QED
    BY <2>1, <2>2
<1>6. /\ ops' \in Seq(Op) /\ DOMAIN ops' = DOMAIN s
      /\ ops'[o].pc = x /\ \A p \in DOMAIN s : p # o => ops'[p] = s[p]
  <2>1. PICK e : e = [s[o] EXCEPT !.pc = x]
    OBVIOUS
  <2>2. e \in Op /\ e.pc = x
    <3>1. s[o] \in Op /\ x \in Awaits \cup {"ended"}
      BY DEF Awaits
    <3> QED
      BY <2>1, <3>1 DEF Op
  <2>3. ops' = [s EXCEPT ![o] = e]
    BY <1>5, <2>1
  <2> QED
    BY <2>2, <2>3, PutOp
<1>7. 0 \notin DOMAIN s /\ x \notin SetsUp /\ x \notin Asks
  BY DEF SetsUp, Asks
<1>8. Owned(ops', 0, workers', open', 0, u, 0)
  BY <1>3, <1>4, <1>6, <1>7, OwnedAfter
<1>9. ~suspended'
  <2>1. suspended' = FALSE \/ (~suspended /\ suspended' = suspended)
    BY DEF detachRest
  <2> QED
    BY <2>1
<1>10. x = "resume" => InOp({"oldWorker", "resume"})'
  BY <1>6 DEF InOp
<1> QED
  BY <1>5, <1>8, <1>9, <1>10 DEF GivesBack

(* Restoring, called by op o of a run when the ops are s.                  *)
LEMMA RestoreGivesBack ==
  ASSUME NEW s \in Seq(Op), NEW o \in DOMAIN s, run # 0, restore(o, s),
         Types, Pointing(s, workers), timespan' # "ready",
         dialogs \subseteq {removesDialog}, restoredEmulation = "own",
         Owned(s, o, workers, open, worker, worker, connection)
  PROVE  GivesBack'
<1>1. worker' = 0 /\ connection' = 0 /\ removesDialog' = removesDialog
  BY DEF restore, nothingToRestore
<1>2. worker \in 0..Len(workers) /\ connection \in Nat
  BY DEF Types, WorkersType, SessionType
<1>3. CASE ~(worker # 0 /\ workers[worker] = "loading")
  <2>1. detachRest(o, worker, connection, s)
    BY <1>3 DEF restore, nothingToRestore
  <2>2. Owned(s, o, workers, open, worker, 0, connection)
    BY OwnedLess
  <2> QED
    BY <1>1, <1>2, <2>1, <2>2, DetachGivesBack
<1>4. CASE worker # 0 /\ workers[worker] = "loading"
  <2>1. /\ ops' = [s EXCEPT ![o].pc = "oldWorker", ![o].worker = worker, ![o].connection = connection]
        /\ workers' = workers /\ open' = open
        /\ dialogs' = dialogs /\ emulation' = emulation /\ savedEmulation' = savedEmulation
    BY <1>4 DEF restore, nothingToRestore
  <2> DEFINE new == [s[o] EXCEPT !.pc = "oldWorker", !.worker = worker, !.connection = connection]
  <2>2. new \in Op /\ new.pc = "oldWorker" /\ new.worker = worker /\ new.connection = connection
    <3>1. worker \in 0..MaxWorkers /\ connection \in Nat
      BY <1>2, Bounds DEF Types, WorkersType
    <3>2. s[o] \in Op
      OBVIOUS
    <3> QED
      BY <3>1, <3>2 DEF Op, Awaits
  <2>3. ops' = [s EXCEPT ![o] = new]
    BY <2>1
  <2> HIDE DEF new
  <2>4. /\ ops' \in Seq(Op) /\ Len(ops') = Len(s) /\ DOMAIN ops' = DOMAIN s
        /\ ops'[o] = new /\ \A p \in DOMAIN s : p # o => ops'[p] = s[p]
    BY <2>2, <2>3, PutOp
  <2>5. Owned(s, o, workers, open, worker, 0, connection)
    BY OwnedLess
  <2>6. 0 \notin DOMAIN s
    OBVIOUS
  <2>7. Owned(ops', 0, workers, open, 0, 0, 0)
    BY <2>2, <2>4, <2>5, <2>6, OwnedWaiting
  <2>8. InOp({"oldWorker"})' /\ InOp({"oldWorker", "resume"})'
    BY <2>2, <2>4 DEF InOp
  <2> QED
    BY <1>1, <2>1, <2>7, <2>8 DEF GivesBack, restoredEmulation
<1> QED
  BY <1>3, <1>4

(* Owned when another op, o, is called.                                    *)
LEMMA OwnedCalled ==
  ASSUME NEW r, NEW s, NEW o, o \notin DOMAIN r, \A p \in DOMAIN r : p \in DOMAIN s /\ s[p] = r[p],
         \A p \in DOMAIN s : p # o => p \in DOMAIN r, 0 \notin DOMAIN s,
         NEW ws, NEW cs, NEW u, Pointing(s, ws), 0 \notin DOMAIN ws,
         Owned(r, 0, ws, cs, 0, u, 0)
  PROVE  Owned(s, o, ws, cs, 0, u, 0) /\ Owned(s, o, ws, cs, u, u, 0)
<1>1. \A v : HoldsWorker(r, 0, v) => HoldsWorker(s, o, v)
  BY DEF HoldsWorker
<1>2. \A v : HoldsConnection(r, 0, v) => HoldsConnection(s, o, v)
  BY DEF HoldsConnection
<1>3. \A p \in DOMAIN s : p # o => p \in DOMAIN r /\ p # 0 /\ s[p] = r[p]
  OBVIOUS
<1>4. \A p \in DOMAIN s : p # o => s[p].pc \notin SetsUp
  BY <1>3 DEF Owned
<1>5. \A p \in DOMAIN s : p # o /\ s[p].pc \in Asks =>
        ws[s[p].worker] = "terminated" \/ HoldsWorker(s, o, s[p].worker)
  BY <1>1, <1>3 DEF Owned, Pointing
<1>6. \A v \in DOMAIN ws : ws[v] # "terminated" => v = u \/ HoldsWorker(s, o, v)
  BY <1>1 DEF Owned
<1>7. \A d \in DOMAIN cs : cs[d] => d = 0 \/ HoldsConnection(s, o, d)
  BY <1>2 DEF Owned
<1> QED
  BY <1>4, <1>5, <1>6, <1>7 DEF Owned

-----------------------------------------------------------------------------
(* What each step does to it.                                              *)

StartingNow == \E o \in DOMAIN ops : Starting(o)

LEMMA InitOrderly == Init => LInv
<1> SUFFICES ASSUME Init PROVE LInv
  OBVIOUS
<1>1. Len(ops) = 0 /\ Len(workers) = 0 /\ Len(open) = 0
      /\ DOMAIN ops = {} /\ DOMAIN workers = {} /\ DOMAIN open = {}
  BY DEF Init
<1>2. OpsType /\ PanelType /\ WorkersType /\ SessionType
  BY <1>1, Bounds DEF Init, OpsType, PanelType, WorkersType, SessionType, Views
<1>3. suspended \in BOOLEAN
  BY Zenon DEF Init
<1>4. Known
  BY <1>1, <1>2, <1>3 DEF Known, Types, Pointing
<1>5. Owned(ops, 0, workers, open, 0, worker, 0)
  BY <1>1 DEF Owned
<1>6. GivesBack
  BY <1>5 DEF Init, GivesBack, restoredEmulation
<1> QED
  BY <1>4, <1>6 DEF LInv, Orderly

(* Nothing is under way: all is given back, but for a worker.              *)
LEMMA QuietReleased ==
  ASSUME Known, Quiet, Orderly, view = "start", timespan = "none"
  PROVE  /\ GivesBack /\ Unopened /\ ~suspended /\ emulation = "own" /\ savedEmulation = "none"
         /\ \A v \in DOMAIN workers : workers[v] # "terminated" => v = worker
<1>1. ~StartingNow
  BY DEF StartingNow, Starting, Quiet, SetsUp
<1>2. ~Running
  BY DEF Running
<1>3. GivesBack
  BY <1>1, <1>2 DEF Orderly, StartingNow
<1>4. ~InOp({"oldWorker"}) /\ ~InOp({"oldWorker", "resume"})
  BY DEF InOp, Quiet
<1>5. \A v : ~HoldsWorker(ops, 0, v) /\ ~HoldsConnection(ops, 0, v)
  BY DEF HoldsWorker, HoldsConnection, Quiet
<1>6. 0 \notin DOMAIN workers /\ 0 \notin DOMAIN open
  BY DEF Known, Types, WorkersType, SessionType
<1>7. Unopened /\ \A v \in DOMAIN workers : workers[v] # "terminated" => v = worker
  BY <1>3, <1>4, <1>5, <1>6 DEF GivesBack, Owned, Unopened
<1> QED
  BY <1>3, <1>4, <1>7 DEF GivesBack, restoredEmulation

LEMMA ClickStart ==
  ASSUME Known, Orderly, Quiet, NEW mode \in Modes, clickStart(mode)
  PROVE  Orderly'
<1>0. PICK n : n = Len(ops) + 1
  OBVIOUS
<1>1. /\ view = "start" /\ timespan = "none"
      /\ ops' = Append(ops, NewOp("start", mode, "url"))
      /\ timespan' = IF mode = "timespan" THEN "starting" ELSE "none"
      /\ UNCHANGED <<view, run, worker, connection, workers, open, dialogs, removesDialog, emulation,
                     savedEmulation>>
  BY DEF clickStart, service
<1>2. suspended' = suspended
  BY DEF clickStart, service
<1>3. /\ Unopened /\ ~suspended /\ emulation = "own" /\ savedEmulation = "none"
      /\ \A v \in DOMAIN workers : workers[v] # "terminated" => v = worker
  BY <1>1, QuietReleased
<1>4. /\ DOMAIN ops' = 1..Len(ops) + 1
      /\ ops'[n].pc = "url" /\ ops'[n].mode = mode /\ ops'[n].kind = "start"
      /\ \A p \in DOMAIN ops : ops'[p] = ops[p]
  <2>1. "url" \in Awaits
    BY DEF Awaits
  <2> QED
    BY <1>0, <1>1, <2>1, OpsKnown, AddOp
<1>5. n \in DOMAIN ops' /\ \A p \in DOMAIN ops' : p # n => p \in DOMAIN ops
  BY <1>0, <1>4, OpsKnown
<1>6. \A p \in DOMAIN ops' : p # n =>
        ops'[p].pc = "ended" \/ (ops'[p].pc \in Asks /\ workers[ops'[p].worker] = "terminated")
  BY <1>4, <1>5 DEF Quiet, Asks
<1>7. Still(ops', n, workers', worker')
  BY <1>1, <1>3, <1>6 DEF Still
<1>8. Unopened'
  BY <1>1, <1>3 DEF Unopened
<1>9. Starting(n)'
  BY <1>1, <1>2, <1>3, <1>4, <1>5, <1>7, <1>8 DEF Starting, SetsUp
<1> QED
  BY <1>5, <1>9 DEF Orderly

LEMMA Starts ==
  ASSUME Known, Orderly, NEW o \in DOMAIN ops, ops[o].pc \in SetsUp
  PROVE  Starting(o)
<1>1. ~Running
  BY DEF Running
<1>2. o # 0
  BY OpsKnown
<1>3. ~GivesBack
  BY <1>2 DEF GivesBack, Owned
<1>4. PICK p \in DOMAIN ops : Starting(p)
  BY <1>1, <1>3 DEF Orderly
<1>5. o = p
  BY <1>4 DEF Starting, Still, SetsUp, Asks
<1> QED
  BY <1>4, <1>5

(* An op that sets up goes on.                                             *)
LEMMA GoesOnStarting ==
  ASSUME Known, NEW o \in DOMAIN ops, Starting(o), NEW x \in {"suspend", "connect"},
         ops' = [ops EXCEPT ![o].pc = x],
         UNCHANGED <<timespan, worker, connection, workers, open, dialogs>>,
         run' = o, suspended', savedEmulation' = "own"
  PROVE  Orderly'
<1>1. /\ DOMAIN ops' = DOMAIN ops /\ ops'[o].pc = x
      /\ ops'[o].mode = ops[o].mode /\ ops'[o].kind = ops[o].kind
      /\ \A p \in DOMAIN ops : p # o => ops'[p] = ops[p]
  <2>1. ops[o] \in Op /\ ops \in Seq(Op)
    BY OpsKnown
  <2>2. PICK e : e = [ops[o] EXCEPT !.pc = x]
    OBVIOUS
  <2>3. e \in Op /\ e.pc = x /\ e.mode = ops[o].mode /\ e.kind = ops[o].kind
    BY <2>1, <2>2 DEF Op, Awaits
  <2>4. ops' = [ops EXCEPT ![o] = e]
    BY <2>2
  <2> QED
    BY <2>1, <2>3, <2>4
<1>2. Still(ops', o, workers', worker')
  BY <1>1 DEF Starting, Still
<1>3. Unopened'
  BY DEF Starting, Unopened
<1>4. Starting(o)'
  BY <1>1, <1>2, <1>3 DEF Starting, SetsUp
<1> QED
  BY <1>1, <1>4 DEF Orderly

LEMMA StartSetup ==
  ASSUME Known, Orderly, NEW o \in DOMAIN ops, startSetup(o)
  PROVE  Orderly'
<1>1. ops[o].pc = "url"
  BY DEF startSetup, Awaiting
<1>2. Starting(o)
  BY <1>1, Starts DEF SetsUp
<1>3. emulation = "own"
  BY <1>1, <1>2 DEF Starting
<1>4. /\ UNCHANGED <<timespan, worker, connection, workers, open, dialogs>>
      /\ run' = o /\ savedEmulation' = "own"
  BY <1>3 DEF startSetup
<1>5. suspended'
  BY DEF startSetup
<1>6. PICK x \in {"suspend", "connect"} : ops' = [ops EXCEPT ![o].pc = x]
  BY DEF startSetup
<1> QED
  BY <1>2, <1>4, <1>5, <1>6, GoesOnStarting

LEMMA StartConnects ==
  ASSUME Known, Orderly, NEW o \in DOMAIN ops, startConnects(o)
  PROVE  Orderly'
<1>1. ops[o].pc = "suspend" /\ ops' = [ops EXCEPT ![o].pc = "connect"]
  BY DEF startConnects, Awaiting
<1>2. Starting(o)
  BY <1>1, Starts DEF SetsUp
<1>3. run = o /\ suspended /\ savedEmulation = "own"
  BY <1>1, <1>2 DEF Starting
<1>4. /\ UNCHANGED <<timespan, worker, connection, workers, open, dialogs>>
      /\ run' = o /\ savedEmulation' = "own" /\ suspended'
  BY <1>3 DEF startConnects, service
<1> QED
  BY <1>1, <1>2, <1>4, GoesOnStarting

LEMMA StartFails ==
  ASSUME Known, Orderly, NEW o \in DOMAIN ops, startFails(o)
  PROVE  Orderly'
<1>1. ops[o].pc = "suspend" /\ restore(o, ops) /\ timespan' = timespan
  BY DEF startFails, Awaiting
<1>2. Starting(o)
  BY <1>1, Starts DEF SetsUp
<1>3. run # 0 /\ timespan' # "ready" /\ restoredEmulation = "own" /\ ops \in Seq(Op)
  BY <1>1, <1>2, OpsKnown DEF Starting, restoredEmulation
<1>4. dialogs \subseteq {removesDialog}
  BY <1>2 DEF Starting, Unopened
<1>5. Owned(ops, o, workers, open, worker, worker, connection)
  BY <1>2 DEF Starting, Still, Unopened, Owned, SetsUp, Asks
<1>6. GivesBack'
  BY <1>1, <1>3, <1>4, <1>5, RestoreGivesBack DEF Known
<1> QED
  BY <1>6 DEF Orderly

(* A request of o, when the ops are s and nothing else is under way, by a  *)
(* run that is set up.                                                     *)
LEMMA RequestRuns ==
  ASSUME NEW s \in Seq(Op), Len(s) <= MaxOps, NEW o \in DOMAIN s, WorkersType, Request(o, s),
         \A p \in DOMAIN s : p # o /\ s[p].pc \in Asks \cup {"oldWorker"} => s[p].worker \in DOMAIN workers,
         Still(s, o, workers, worker), s[o].kind # "start" => timespan' = "none",
         run' # 0, connection' # 0, suspended', savedEmulation' = "own",
         dialogs' \subseteq {removesDialog'}, timespan' # "none" \/ view' = "status",
         \A c \in DOMAIN open' : open'[c] => c = connection'
  PROVE  Running'
<1>1. /\ DOMAIN ops' = DOMAIN s /\ \A p \in DOMAIN s : p # o => ops'[p] = s[p]
      /\ ops'[o].pc = "worker" /\ ops'[o].worker = worker' /\ ops'[o].kind = s[o].kind
      /\ worker' = Ensured
      /\ \A v \in DOMAIN workers : workers'[v] = workers[v]
      /\ \A v \in DOMAIN workers' : v = worker' \/ v \in DOMAIN workers
  BY RequestTypes
<1>2. \A v \in DOMAIN workers : workers[v] # "terminated" => v = worker /\ worker # 0
  BY DEF Still, WorkersType
<1>3. \A v \in DOMAIN workers' : workers'[v] # "terminated" => v = worker'
  BY <1>1, <1>2 DEF Ensured
<1>4. \A p \in DOMAIN ops' : ops'[p].pc \notin SetsUp \cup GivesUp
  BY <1>1 DEF Still, SetsUp, GivesUp, Asks
<1>5. \A p \in DOMAIN ops' : ops'[p].pc \in Asks =>
         \/ workers'[ops'[p].worker] = "terminated"
         \/ ops'[p].worker = worker' /\ (ops'[p].kind # "start" => timespan' = "none")
  <2>1. SUFFICES ASSUME NEW p \in DOMAIN s, ops'[p].pc \in Asks, p # o
                 PROVE  workers'[ops'[p].worker] = "terminated"
    BY <1>1
  <2>2. ops'[p] = s[p] /\ s[p].worker \in DOMAIN workers
    BY <1>1, <2>1
  <2>3. workers[s[p].worker] = "terminated"
    BY <2>1, <2>2 DEF Still, Asks
  <2> QED
    BY <1>1, <2>2, <2>3
<1> QED
  BY <1>3, <1>4, <1>5 DEF Running

LEMMA StartAttached ==
  ASSUME Known, Orderly, NEW o \in DOMAIN ops, startAttached(o)
  PROVE  Orderly'
<1>1. ops[o].pc = "connect" /\ ops[o].kind \in {"start", "collect", "cancel"}
  BY OpsKnown DEF startAttached, Awaiting
<1>2. Starting(o)
  BY <1>1, Starts DEF SetsUp
<1>3. run = o /\ run # 0 /\ suspended /\ savedEmulation = "own"
  BY <1>1, <1>2, OpsKnown DEF Starting
<1>4. PICK c \in Nat : c = Len(open) + 1
  BY DEF Known, Types, SessionType
<1>5. /\ open' = Append(open, TRUE) /\ connection' = c /\ dialogs' = dialogs \cup {c}
      /\ removesDialog' = c /\ savedEmulation' = savedEmulation
  BY <1>4 DEF startAttached
<1>6. suspended'
  BY <1>3 DEF startAttached
<1>7. connection' # 0 /\ \A d \in DOMAIN open' : open'[d] => d = connection'
  <2>1. open \in Seq(BOOLEAN) /\ TRUE \in BOOLEAN
    <3>1. TRUE \in BOOLEAN
      BY Zenon
    <3> QED
      BY <3>1 DEF Known, Types, SessionType
  <2>2. /\ Len(open) \in Nat /\ DOMAIN open = 1..Len(open)
        /\ DOMAIN open' = 1..Len(open) + 1
    BY <1>5, <2>1
  <2>4. \A d \in DOMAIN open : open'[d] => open[d]
    BY <1>5, <2>1
  <2>3. c # 0 /\ \A d \in DOMAIN open' : d = c \/ d \in DOMAIN open
    BY <1>4, <2>2
  <2> QED
    BY <1>2, <1>5, <2>3, <2>4 DEF Starting, Unopened
<1>8. dialogs' \subseteq {removesDialog'}
  BY <1>2, <1>5 DEF Starting, Unopened
<1>9. WorkersType
  BY DEF Known, Types
<1>10. CASE ops[o].mode = "timespan"
  <2>1. Request(o, ops) /\ run' = run /\ timespan' = timespan
    BY <1>3, <1>10 DEF startAttached
  <2>2. timespan' = "starting"
    BY <1>2, <1>10, <2>1 DEF Starting
  <2>3. Still(ops, o, workers, worker) /\ ops \in Seq(Op) /\ Len(ops) <= MaxOps
    BY <1>2, OpsKnown DEF Starting
  <2>4. \A p \in DOMAIN ops : p # o /\ ops[p].pc \in Asks \cup {"oldWorker"} => ops[p].worker \in DOMAIN workers
    BY OpsKnown
  <2>5. ops[o].kind = "start"
    BY <1>1, <1>2 DEF Starting
  <2>6. Running'
    BY <1>3, <1>5, <1>6, <1>7, <1>8, <1>9, <2>1, <2>2, <2>3, <2>4, <2>5, RequestRuns
  <2> QED
    BY <2>6 DEF Orderly
<1>11. CASE ops[o].mode # "timespan"
  <2> DEFINE s == Append([ops EXCEPT ![o] = Ended(@)], NewOp("collect", ops[o].mode, "worker"))
             n == Len(ops) + 1
  <2>1. /\ s \in Seq(Op) /\ Len(s) = n /\ DOMAIN s = 1..n
        /\ s[o].pc = "ended" /\ s[n].kind = "collect" /\ s[n].pc = "worker"
        /\ \A p \in DOMAIN ops : p # o => s[p] = ops[p]
    BY StartAttachedOps
  <2>2. /\ Len(ops) < MaxOps /\ timespan' = "none"
        /\ view' = "status" /\ Request(n, s) /\ run' = run
    BY <1>3, <1>11 DEF startAttached
  <2> HIDE DEF s
  <2>3. n \in DOMAIN s /\ Len(s) <= MaxOps /\ \A p \in DOMAIN s : p # n => p \in DOMAIN ops
    BY <2>1, <2>2, OpsKnown, Bounds
  <2>4. \A p \in DOMAIN s : p # n /\ s[p].pc \in Asks \cup {"oldWorker"} => s[p].worker \in DOMAIN workers
    BY <2>1, <2>3, OpsKnown DEF Asks
  <2>5. Still(s, n, workers, worker)
    <3>1. \A p \in DOMAIN s : p # n => s[p].pc = "ended" \/ (p # o /\ p \in DOMAIN ops /\ s[p] = ops[p])
      BY <2>1, <2>3
    <3> QED
      BY <1>2, <3>1 DEF Starting, Still
  <2> HIDE DEF n
  <2>6. Running'
    BY <1>3, <1>5, <1>6, <1>7, <1>8, <1>9, <2>1, <2>2, <2>3, <2>4, <2>5, RequestRuns
  <2> QED
    BY <2>6 DEF Orderly
<1> QED
  BY <1>10, <1>11

LEMMA RequestPosted ==
  ASSUME Known, Orderly, NEW o \in DOMAIN ops, requestPosted(o)
  PROVE  Orderly'
<1>1. /\ ops[o].pc = "worker" /\ ops' = [ops EXCEPT ![o].pc = "answer"]
      /\ UNCHANGED <<view, timespan, run, emulation, savedEmulation>>
      /\ UNCHANGED <<worker, connection, workers, open, dialogs, removesDialog>>
  BY DEF requestPosted, service, Awaiting
<1>2. suspended' = suspended
  BY DEF requestPosted, service
<1>3. /\ DOMAIN ops' = DOMAIN ops /\ ops'[o].pc = "answer"
      /\ ops'[o].worker = ops[o].worker /\ ops'[o].kind = ops[o].kind
      /\ \A p \in DOMAIN ops : p # o => ops'[p] = ops[p]
  <2>1. ops[o] \in Op /\ ops \in Seq(Op)
    BY OpsKnown
  <2>2. PICK e : e = [ops[o] EXCEPT !.pc = "answer"]
    OBVIOUS
  <2>3. e \in Op /\ e.pc = "answer" /\ e.worker = ops[o].worker /\ e.kind = ops[o].kind
    BY <2>1, <2>2 DEF Op, Awaits
  <2>4. ops' = [ops EXCEPT ![o] = e]
    BY <1>1, <2>2
  <2> QED
    BY <2>1, <2>3, <2>4
<1>4. ASSUME NEW p \in DOMAIN ops, Starting(p) PROVE Orderly'
  <2>1. p # o
    BY <1>1, <1>4 DEF Starting, SetsUp
  <2>2. Still(ops', p, workers', worker') /\ Unopened'
    BY <1>1, <1>3, <1>4 DEF Starting, Still, Unopened, Asks
  <2>3. Starting(p)'
    BY <1>1, <1>2, <1>3, <1>4, <2>1, <2>2 DEF Starting
  <2> QED
    BY <1>3, <2>3 DEF Orderly
<1>5. ASSUME Running PROVE Orderly'
  <2>1. \A p \in DOMAIN ops' : ops'[p].pc \notin SetsUp \cup GivesUp
    BY <1>3, <1>5 DEF Running, SetsUp, GivesUp
  <2>2. \A p \in DOMAIN ops' : ops'[p].pc \in Asks =>
       \/ workers'[ops'[p].worker] = "terminated"
       \/ ops'[p].worker = worker' /\ (ops'[p].kind # "start" => timespan' = "none")
    BY <1>1, <1>3, <1>5 DEF Running, Asks
  <2>3. Running'
    BY <1>1, <1>2, <1>5, <2>1, <2>2 DEF Running
  <2> QED
    BY <2>3 DEF Orderly
<1>6. ASSUME GivesBack PROVE Orderly'
  <2>1. \A v : /\ HoldsWorker(ops, 0, v) => HoldsWorker(ops', 0, v)
               /\ HoldsConnection(ops, 0, v) => HoldsConnection(ops', 0, v)
    <3>1. \A p \in DOMAIN ops : ops[p].pc = "oldWorker" => p # o /\ p \in DOMAIN ops' /\ ops'[p] = ops[p]
      BY <1>1, <1>3
    <3> QED
      BY <3>1 DEF HoldsWorker, HoldsConnection
  <2>2. \A p \in DOMAIN ops' : p # 0 => ops'[p].pc \notin SetsUp
    BY <1>3, <1>6 DEF GivesBack, Owned, SetsUp
  <2>3. \A p \in DOMAIN ops' : p # 0 /\ ops'[p].pc \in Asks =>
          \/ workers[ops'[p].worker] = "terminated" \/ ops'[p].worker = 0
          \/ HoldsWorker(ops', 0, ops'[p].worker)
    <3>1. \A p \in DOMAIN ops : ops[p].worker = ops'[p].worker /\ (ops'[p].pc \in Asks => ops[p].pc \in Asks)
      BY <1>1, <1>3 DEF Asks
    <3> QED
      BY <1>3, <1>6, <2>1, <3>1 DEF GivesBack, Owned
  <2>4. Owned(ops', 0, workers', open', 0, worker', 0)
    BY <1>1, <1>6, <2>1, <2>2, <2>3 DEF GivesBack, Owned
  <2>5. /\ InOp({"oldWorker"}) => InOp({"oldWorker"})'
        /\ InOp({"oldWorker", "resume"}) => InOp({"oldWorker", "resume"})'
    BY <1>1, <1>3 DEF InOp
  <2>6. GivesBack'
    BY <1>1, <1>2, <1>6, <2>4, <2>5 DEF GivesBack, restoredEmulation
  <2> QED
    BY <2>6 DEF Orderly
<1> QED
  BY <1>4, <1>5, <1>6 DEF Orderly

(* The ops stay as they are, workers may be made or load, and the panel    *)
(* may leave a report.                                                     *)
LEMMA StaysOrderly ==
  ASSUME Known, Orderly, Known', ops' = ops,
         view' = view \/ (timespan = "none" /\ view = "report"),
         \A v \in DOMAIN workers : v \in DOMAIN workers' /\ (workers'[v] = "terminated" <=> workers[v] = "terminated"),
         \A v \in DOMAIN workers' : v \in DOMAIN workers \/ v = worker',
         worker' = worker \/ worker = 0,
         UNCHANGED <<timespan, run, connection, open, dialogs, removesDialog, emulation,
                     savedEmulation>>,
         suspended' = suspended
  PROVE  Orderly'
<1>1. /\ DOMAIN ops' = DOMAIN ops /\ 0 \notin DOMAIN workers
      /\ \A p \in DOMAIN ops : ops[p].pc \in Asks => ops[p].worker \in DOMAIN workers
  BY DEF Known, Types, WorkersType, Pointing
<1>2. ASSUME NEW p \in DOMAIN ops, Starting(p) PROVE Orderly'
  <2>1. Still(ops', p, workers', worker')
    BY <1>1, <1>2 DEF Starting, Still
  <2>2. Unopened'
    BY <1>2 DEF Starting, Unopened
  <2>3. Starting(p)'
    BY <1>2, <2>1, <2>2 DEF Starting
  <2> QED
    BY <1>1, <2>3 DEF Orderly
<1>3. ASSUME Running PROVE Orderly'
  <2>1. view' = view
    BY <1>3 DEF Running
  <2>2. \A p \in DOMAIN ops' : ops'[p].pc \in Asks =>
       \/ workers'[ops'[p].worker] = "terminated"
       \/ ops'[p].worker = worker' /\ (ops'[p].kind # "start" => timespan' = "none")
    BY <1>1, <1>3 DEF Running
  <2>3. \A w \in DOMAIN workers' : workers'[w] # "terminated" => w = worker'
    BY <1>1, <1>3 DEF Running
  <2>4. Running'
    BY <1>3, <2>1, <2>2, <2>3 DEF Running
  <2> QED
    BY <2>4 DEF Orderly
<1>4. ASSUME GivesBack PROVE Orderly'
  <2>1. Owned(ops', 0, workers', open', 0, worker', 0)
    BY <1>1, <1>4 DEF GivesBack, Owned
  <2>2. GivesBack'
    BY <1>4, <2>1 DEF GivesBack, restoredEmulation, InOp
  <2> QED
    BY <2>2 DEF Orderly
<1> QED
  BY <1>2, <1>3, <1>4 DEF Orderly

LEMMA WorkerReady ==
  ASSUME Known, Orderly, NEW w \in DOMAIN workers, workerReady(w)
  PROVE  Orderly'
<1>1. /\ workers[w] = "loading" /\ workers' = [workers EXCEPT ![w] = "ready"]
      /\ ops' = ops /\ view' = view /\ worker' = worker
      /\ UNCHANGED <<timespan, run, connection, open, dialogs, removesDialog, emulation,
                     savedEmulation>>
  BY DEF workerReady
<1>2. suspended' = suspended
  BY DEF workerReady
<1>3. workers \in Seq(States)
  BY DEF Known, Types, WorkersType
<1>4. /\ \A v \in DOMAIN workers : v \in DOMAIN workers' /\ (workers'[v] = "terminated" <=> workers[v] = "terminated")
      /\ \A v \in DOMAIN workers' : v \in DOMAIN workers
  BY <1>1, <1>3
<1> QED
  BY <1>1, <1>2, <1>4, WorkerReadyTypes, StaysOrderly

LEMMA ProtocolMessage ==
  ASSUME Known, Orderly, protocolMessage
  PROVE  Orderly'
<1>1. /\ ops' = ops /\ view' = view /\ worker = 0
      /\ UNCHANGED <<timespan, run, connection, open, dialogs, removesDialog, emulation,
                     savedEmulation>>
  BY DEF protocolMessage
<1>2. suspended' = suspended
  BY DEF protocolMessage
<1>3. /\ Known' /\ \A v \in DOMAIN workers : v \in DOMAIN workers' /\ workers'[v] = workers[v]
      /\ \A v \in DOMAIN workers' : v = worker' \/ v \in DOMAIN workers
  BY ProtocolMessageTypes
<1> QED
  BY <1>1, <1>2, <1>3, StaysOrderly

LEMMA ClickNew ==
  ASSUME Known, Orderly, clickNew
  PROVE  Orderly'
<1>1. /\ ops' = ops /\ timespan = "none" /\ view = "report" /\ worker' = worker /\ workers' = workers
      /\ UNCHANGED <<timespan, run, connection, open, dialogs, removesDialog, emulation,
                     savedEmulation>>
  BY DEF clickNew, service
<1>2. suspended' = suspended
  BY DEF clickNew, service
<1> QED
  BY <1>1, <1>2, ClickNewTypes, StaysOrderly

LEMMA Gives ==
  ASSUME Known, Orderly, NEW o \in DOMAIN ops, ops[o].pc \in GivesUp
  PROVE  GivesBack /\ o # 0
<1>1. ~Running
  BY DEF Running
<1>2. ASSUME NEW p \in DOMAIN ops, Starting(p) PROVE FALSE
  <2>1. p # o
    BY <1>2 DEF Starting, SetsUp, GivesUp
  <2> QED
    BY <1>2, <2>1 DEF Starting, Still, Asks, GivesUp
<1> QED
  BY <1>1, <1>2, OpsKnown DEF Orderly

LEMMA OldWorkerReady ==
  ASSUME Known, Orderly, NEW o \in DOMAIN ops, oldWorkerReady(o)
  PROVE  Orderly'
<1>1. /\ ops[o].pc = "oldWorker" /\ detachRest(o, ops[o].worker, ops[o].connection, ops)
      /\ timespan' = timespan /\ worker' = worker /\ connection' = connection
      /\ removesDialog' = removesDialog
  BY DEF oldWorkerReady, Awaiting
<1>2. GivesBack /\ o # 0
  BY <1>1, Gives DEF GivesUp
<1>3. PICK w : w = ops[o].worker
  OBVIOUS
<1>4. PICK c \in Nat : c = ops[o].connection
  <2>1. ops[o] \in Op
    BY OpsKnown
  <2> QED
    BY <2>1 DEF Op
<1>5. w \in 0..Len(workers)
  BY <1>1, <1>3 DEF Known, Pointing, Types, WorkersType
<1>6. /\ \A v : HoldsWorker(ops, 0, v) => v = w \/ HoldsWorker(ops, o, v)
      /\ \A v : HoldsConnection(ops, 0, v) => v = c \/ HoldsConnection(ops, o, v)
  BY <1>3, <1>4 DEF HoldsWorker, HoldsConnection
<1>7. /\ 0 \notin DOMAIN open /\ 0 \notin DOMAIN workers /\ 0 \notin DOMAIN ops
      /\ \A p \in DOMAIN ops : ops[p].pc \in Asks => ops[p].worker # 0
  BY OpsKnown DEF Known, Types, WorkersType, SessionType
<1>8. Owned(ops, o, workers, open, w, worker, c)
  BY <1>2, <1>6, <1>7 DEF GivesBack, Owned
<1>9. detachRest(o, w, c, ops) /\ ops \in Seq(Op) /\ Types /\ Pointing(ops, workers)
  BY <1>1, <1>3, <1>4, OpsKnown DEF Known
<1>10. /\ timespan' # "ready" /\ connection' = 0
       /\ dialogs \subseteq {removesDialog} /\ restoredEmulation = "own"
  BY <1>1, <1>2 DEF GivesBack
<1>11. PICK u : u = worker /\ worker' = u
  BY <1>1
<1>12. Owned(ops, o, workers, open, w, u, c)
  BY <1>8, <1>11
<1>13. GivesBack'
  BY <1>1, <1>5, <1>9, <1>10, <1>11, <1>12, DetachGivesBack
<1> QED
  BY <1>13 DEF Orderly

(* An op that waits for neither a worker nor an answer goes on to x, and   *)
(* nothing else is given back with it.                                     *)
LEMMA GoesOnOwned ==
  ASSUME Known, NEW o \in DOMAIN ops, ops[o].pc \in {"resume", "navigate"},
         NEW x \in {"navigate", "ended"}, ops' = [ops EXCEPT ![o].pc = x],
         UNCHANGED <<worker, workers, open>>, Owned(ops, 0, workers, open, 0, worker, 0)
  PROVE  /\ Owned(ops', 0, workers', open', 0, worker', 0)
         /\ InOp({"oldWorker"}) => InOp({"oldWorker"})'
         /\ ops[o].pc = "navigate" /\ InOp({"oldWorker", "resume"}) => InOp({"oldWorker", "resume"})'
<1>1. ops \in Seq(Op) /\ ops[o] \in Op /\ 0 \notin DOMAIN ops /\ o # 0
      /\ \A p \in DOMAIN ops : ops[p].pc \in Asks => ops[p].worker # 0
  BY OpsKnown DEF Known, Types, WorkersType
<1>2. /\ DOMAIN ops' = DOMAIN ops /\ ops'[o].pc = x /\ \A p \in DOMAIN ops : p # o => ops'[p] = ops[p]
  <2>1. PICK e : e = [ops[o] EXCEPT !.pc = x]
    OBVIOUS
  <2>2. e.pc = x
    BY <1>1, <2>1 DEF Op
  <2>3. ops' = [ops EXCEPT ![o] = e]
    BY <2>1
  <2> QED
    BY <1>1, <2>2, <2>3
<1>3. /\ \A v : HoldsWorker(ops, 0, v) => HoldsWorker(ops', 0, v)
      /\ \A v : HoldsConnection(ops, 0, v) => HoldsConnection(ops', 0, v)
  BY <1>1, <1>2 DEF HoldsWorker, HoldsConnection
<1>4. \A p \in DOMAIN ops' : p # 0 /\ ops'[p].pc \in Asks => p # o /\ ops'[p] = ops[p] /\ p \in DOMAIN ops
  BY <1>2 DEF Asks
<1>5. \A p \in DOMAIN ops' : p # 0 => ops'[p].pc \notin SetsUp
  BY <1>1, <1>2 DEF Owned, SetsUp
<1>6. \A p \in DOMAIN ops' : p # 0 /\ ops'[p].pc \in Asks =>
        \/ workers[ops'[p].worker] = "terminated" \/ ops'[p].worker = 0
        \/ HoldsWorker(ops', 0, ops'[p].worker)
  BY <1>3, <1>4 DEF Owned
<1>7. Owned(ops', 0, workers', open', 0, worker', 0)
  BY <1>3, <1>5, <1>6 DEF Owned
<1>8. InOp({"oldWorker"}) => InOp({"oldWorker"})'
  BY <1>2 DEF InOp
<1>9. ops[o].pc = "navigate" /\ InOp({"oldWorker", "resume"}) => InOp({"oldWorker", "resume"})'
  BY <1>2 DEF InOp
<1> QED
  BY <1>7, <1>8, <1>9

LEMMA TargetsResumed ==
  ASSUME Known, Orderly, NEW o \in DOMAIN ops, targetsResumed(o)
  PROVE  Orderly'
<1>1. /\ ops[o].pc = "resume" /\ restoreRest(o, ops)
      /\ timespan' = timespan /\ worker' = worker /\ connection' = connection
      /\ workers' = workers /\ open' = open /\ removesDialog' = removesDialog
  BY DEF targetsResumed, Awaiting
<1>2. suspended' = suspended
  BY DEF targetsResumed
<1>3. ops \in Seq(Op) /\ view \in Views
      /\ emulation \in {"own", "lighthouse"} /\ savedEmulation \in {"own", "lighthouse", "none"}
  BY OpsKnown DEF Known, Types, PanelType
<1>4. /\ dialogs' = dialogs \ {removesDialog} /\ savedEmulation' = "none"
      /\ emulation' = restoredEmulation
      /\ \E x \in {"navigate", "ended"} : ops' = [ops EXCEPT ![o].pc = x]
  BY <1>1, <1>3, RestoreRestTypes
<1>5. PICK x \in {"navigate", "ended"} : ops' = [ops EXCEPT ![o].pc = x]
  BY <1>4
<1>6. GivesBack
  BY <1>1, Gives DEF GivesUp
<1>7. Owned(ops, 0, workers, open, 0, worker, 0)
  BY <1>6 DEF GivesBack
<1>8. Owned(ops', 0, workers', open', 0, worker', 0) /\ (InOp({"oldWorker"}) => InOp({"oldWorker"})')
  BY <1>1, <1>5, <1>7, GoesOnOwned
<1>9. GivesBack'
  BY <1>1, <1>2, <1>4, <1>6, <1>8 DEF GivesBack, restoredEmulation
<1> QED
  BY <1>9 DEF Orderly

LEMMA PageReloaded ==
  ASSUME Known, Orderly, NEW o \in DOMAIN ops, pageReloaded(o)
  PROVE  Orderly'
<1>1. /\ ops[o].pc = "navigate" /\ afterRestore(o, FALSE, ops)
      /\ timespan' = timespan /\ worker' = worker /\ connection' = connection
      /\ workers' = workers /\ open' = open /\ dialogs' = dialogs /\ removesDialog' = removesDialog
      /\ emulation' = emulation /\ savedEmulation' = savedEmulation
  BY DEF pageReloaded, service, Awaiting
<1>2. suspended' = suspended
  BY DEF pageReloaded, service
<1>3. ops' = [ops EXCEPT ![o].pc = "ended"]
  <2>1. ops' = [ops EXCEPT ![o] = Ended(@)] /\ ops \in Seq(Op)
    BY <1>1, OpsKnown DEF afterRestore
  <2> QED
    BY <2>1, EndOp
<1>4. GivesBack
  BY <1>1, Gives DEF GivesUp
<1>5. Owned(ops, 0, workers, open, 0, worker, 0)
  BY <1>4 DEF GivesBack
<1>6. PICK x \in {"navigate", "ended"} : x = "ended" /\ ops' = [ops EXCEPT ![o].pc = x]
  BY <1>3
<1>7. /\ Owned(ops', 0, workers', open', 0, worker', 0)
      /\ InOp({"oldWorker"}) => InOp({"oldWorker"})'
      /\ ops[o].pc = "navigate" /\ InOp({"oldWorker", "resume"}) => InOp({"oldWorker", "resume"})'
  BY <1>1, <1>5, <1>6, GoesOnOwned
<1>8. GivesBack'
  BY <1>1, <1>2, <1>4, <1>7 DEF GivesBack, restoredEmulation
<1> QED
  BY <1>8 DEF Orderly

LEMMA ClickEnd ==
  ASSUME Known, Orderly, clickEnd
  PROVE  Orderly'
<1>0. PICK s : s = Append(ops, NewOp("collect", "timespan", "worker"))
  OBVIOUS
<1>1. PICK n : n = Len(ops) + 1
  OBVIOUS
<1>2. /\ timespan = "ready" /\ Len(ops) < MaxOps /\ timespan' = "none"
      /\ UNCHANGED <<run, connection, open, dialogs, removesDialog, emulation, savedEmulation>>
      /\ run # 0 => view' = "status" /\ Request(n, s)
  BY <1>0, <1>1 DEF clickEnd, UserActs
<1>3. suspended' = suspended
  BY DEF clickEnd
<1>4. Running
  BY <1>2 DEF Orderly, Starting, GivesBack
<1>5. view' = "status" /\ Request(n, s)
  BY <1>2, <1>4 DEF Running
<1>6. "timespan" \in Modes
  BY DEF Modes
<1>7. /\ s \in Seq(Op) /\ Len(s) = n /\ DOMAIN s = 1..n /\ n \in 1..n
      /\ n <= MaxOps /\ \A p \in DOMAIN s : p # n => p \in DOMAIN ops
      /\ \A p \in DOMAIN ops : s[p] = ops[p]
  BY <1>0, <1>1, <1>2, <1>6, CalledOps
<1>8. \A p \in DOMAIN s : p # n /\ s[p].pc \in Asks \cup {"oldWorker"} => s[p].worker \in DOMAIN workers
  BY <1>7, OpsKnown DEF Asks
<1>9. WorkersType
  BY DEF Known, Types
<1>10. /\ DOMAIN ops' = DOMAIN s /\ \A p \in DOMAIN s : p # n => ops'[p] = s[p]
       /\ ops'[n].pc = "worker" /\ ops'[n].worker = worker'
       /\ worker' = Ensured
       /\ \A v \in DOMAIN workers : workers'[v] = workers[v]
       /\ \A v \in DOMAIN workers' : v = worker' \/ v \in DOMAIN workers
  BY <1>5, <1>7, <1>8, <1>9, RequestTypes
<1>11. 0 \notin DOMAIN workers
  BY <1>9 DEF WorkersType
<1>12. \A v \in DOMAIN workers' : workers'[v] # "terminated" => v = worker'
  BY <1>4, <1>10, <1>11 DEF Ensured, Running
<1>13. \A p \in DOMAIN ops' : ops'[p].pc \notin SetsUp \cup GivesUp
  BY <1>4, <1>7, <1>10 DEF Running, SetsUp, GivesUp
<1>14. \A p \in DOMAIN ops' : ops'[p].pc \in Asks =>
          workers'[ops'[p].worker] = "terminated" \/ ops'[p].worker = worker'
  <2>1. SUFFICES ASSUME NEW p \in DOMAIN s, ops'[p].pc \in Asks, p # n,
                        workers'[ops'[p].worker] # "terminated"
                 PROVE  ops'[p].worker = worker'
    BY <1>10
  <2>2. ops'[p] = ops[p] /\ p \in DOMAIN ops /\ ops[p].worker \in DOMAIN workers
    BY <1>7, <1>8, <1>10, <2>1
  <2>3. ops[p].worker = worker
    BY <1>4, <1>10, <2>1, <2>2 DEF Running
  <2> QED
    BY <1>10, <1>11, <2>2, <2>3 DEF Ensured
<1>15. Running'
  BY <1>2, <1>3, <1>4, <1>5, <1>12, <1>13, <1>14 DEF Running
<1> QED
  BY <1>15 DEF Orderly

LEMMA ClickCancel ==
  ASSUME Known, Orderly, ~SettingUp, clickCancel
  PROVE  Orderly'
<1>0. PICK s : s = Append(ops, NewOp("cancel", "snapshot", "ended"))
  OBVIOUS
<1>1. PICK n : n = Len(ops) + 1
  OBVIOUS
<1>2. Len(ops) < MaxOps /\ timespan' = "none" /\ restore(n, s)
  BY <1>0, <1>1 DEF clickCancel, UserActs
<1>3. "snapshot" \in Modes
  BY DEF Modes
<1>4. /\ s \in Seq(Op) /\ DOMAIN s = 1..n /\ n \in 1..n /\ n \notin DOMAIN ops
      /\ \A p \in DOMAIN s : p # n => p \in DOMAIN ops
      /\ s[n].pc = "ended" /\ \A p \in DOMAIN ops : p \in DOMAIN s /\ s[p] = ops[p]
  <2>1. /\ s \in Seq(Op) /\ DOMAIN s = 1..n /\ n \in 1..n /\ n \notin DOMAIN ops
        /\ \A p \in DOMAIN s : p # n => p \in DOMAIN ops
        /\ s[n].pc = "ended" /\ \A p \in DOMAIN ops : s[p] = ops[p]
    BY <1>0, <1>1, <1>2, <1>3, CalledOps
  <2>2. \A p \in DOMAIN ops : p \in 1..n
    BY <1>1, OpsKnown
  <2> QED
    BY <2>1, <2>2
<1>5. Pointing(s, workers) /\ 0 \notin DOMAIN s /\ 0 \notin DOMAIN workers /\ Types
  <2>1. Pointing(s, workers)
    BY <1>4, OpsKnown DEF Pointing, Asks
  <2> QED
    BY <1>4, <2>1 DEF Known, Types, WorkersType
<1>6. ~StartingNow
  BY DEF StartingNow, Starting, SettingUp, SetsUp
<1>7. CASE Running
  <2>1. /\ run # 0 /\ dialogs \subseteq {removesDialog} /\ restoredEmulation = "own"
    BY <1>7 DEF Running, restoredEmulation
  <2>2. \A p \in DOMAIN s : p # n => s[p] = ops[p] /\ p \in DOMAIN ops
    BY <1>4
  <2>3. Owned(s, n, workers, open, worker, worker, connection)
    BY <1>7, <2>2 DEF Running, Owned
  <2>4. GivesBack'
    BY <1>2, <1>4, <1>5, <2>1, <2>3, RestoreGivesBack
  <2> QED
    BY <2>4 DEF Orderly
<1>8. CASE GivesBack
  <2>1. Owned(ops, 0, workers, open, 0, worker, 0) /\ connection = 0
    BY <1>8 DEF GivesBack
  <2>2. Owned(s, n, workers, open, 0, worker, 0) /\ Owned(s, n, workers, open, worker, worker, 0)
    BY <1>4, <1>5, <2>1, OwnedCalled
  <2>3. CASE run # 0
    <3>1. dialogs \subseteq {removesDialog} /\ restoredEmulation = "own"
      BY <1>8 DEF GivesBack
    <3>2. Owned(s, n, workers, open, worker, worker, connection)
      BY <2>1, <2>2
    <3>3. GivesBack'
      BY <1>2, <1>4, <1>5, <2>3, <3>1, <3>2, RestoreGivesBack
    <3> QED
      BY <3>3 DEF Orderly
  <2>4. CASE run = 0
    <3>1. /\ afterRestore(n, FALSE, s)
          /\ worker' = worker /\ connection' = connection /\ workers' = workers /\ open' = open
          /\ dialogs' = dialogs /\ removesDialog' = removesDialog
          /\ emulation' = emulation /\ savedEmulation' = savedEmulation
      BY <1>2, <2>4 DEF restore, nothingToRestore, service
    <3>2. suspended' = suspended
      BY <1>2, <2>4 DEF restore, nothingToRestore, service
    <3>3. ops' = [s EXCEPT ![n].pc = "ended"]
      <4>1. ops' = [s EXCEPT ![n] = Ended(@)]
        BY <3>1 DEF afterRestore
      <4> QED
        BY <1>4, <4>1, EndOp
    <3>4. DOMAIN ops' = DOMAIN s /\ ops'[n].pc = "ended" /\ \A p \in DOMAIN s : p # n => ops'[p] = s[p]
      <4>1. s \in Seq(Op) /\ n \in DOMAIN s
        BY <1>4
      <4>2. WentOn(ops', s, n, "ended")
        BY <3>3, <4>1, Ends, Zenon
      <4> QED
        BY <4>2 DEF WentOn
    <3>5. Owned(ops', 0, workers', open', 0, worker', 0)
      <4>1. "ended" \notin SetsUp /\ "ended" \notin Asks
        BY DEF SetsUp, Asks
      <4>2. DOMAIN workers' = DOMAIN workers /\ \A v \in DOMAIN workers : workers'[v] = workers[v]
        BY <3>1
      <4>3. DOMAIN open' = DOMAIN open /\ \A d \in DOMAIN open : open'[d] => open[d] /\ d # 0
        BY <1>5, <3>1 DEF Types, SessionType
      <4>4. PICK u : u = worker
        OBVIOUS
      <4>5. Owned(s, n, workers, open, 0, u, 0)
        BY <2>2, <4>4
      <4>6. Owned(ops', 0, workers', open', 0, u, 0)
        BY <1>4, <1>5, <3>4, <4>1, <4>2, <4>3, <4>5, OwnedAfter
      <4> QED
        BY <3>1, <4>4, <4>6
    <3>6. /\ InOp({"oldWorker"}) => InOp({"oldWorker"})'
          /\ InOp({"oldWorker", "resume"}) => InOp({"oldWorker", "resume"})'
      BY <1>4, <3>4 DEF InOp
    <3>7. GivesBack'
      BY <1>2, <1>8, <3>1, <3>2, <3>5, <3>6 DEF GivesBack, restoredEmulation
    <3> QED
      BY <3>7 DEF Orderly
  <2> QED
    BY <2>3, <2>4
<1> QED
  BY <1>6, <1>7, <1>8 DEF Orderly, StartingNow

LEMMA Answered ==
  ASSUME Known, Orderly, NEW o \in DOMAIN ops, answered(o)
  PROVE  Orderly'
<1>1. /\ ops[o].pc = "answer" /\ workers[ops[o].worker] = "ready"
      /\ \A x \in DOMAIN ops : ~(ops[x].pc = "oldWorker" /\ ops[x].worker = ops[o].worker)
  BY DEF answered, Awaiting
<1>2. ops \in Seq(Op) /\ ops[o] \in Op /\ 0 \notin DOMAIN ops /\ 0 \notin DOMAIN workers
      /\ ops[o].worker # 0
  BY <1>1, OpsKnown DEF Known, Types, WorkersType, Asks
<1>3. ~StartingNow
  BY <1>1 DEF StartingNow, Starting, Still, SetsUp
<1>4. ~GivesBack
  <2>1. ~HoldsWorker(ops, 0, ops[o].worker)
    BY <1>1 DEF HoldsWorker
  <2> QED
    BY <1>1, <1>2, <2>1 DEF GivesBack, Owned, Asks
<1>5. Running
  BY <1>3, <1>4 DEF Orderly, StartingNow
<1>6. CASE ops[o].kind = "start"
  <2>1. /\ ops' = [ops EXCEPT ![o] = Ended(@)]
        /\ timespan' = IF timespan = "starting" THEN "ready" ELSE timespan
        /\ UNCHANGED <<view, run, emulation, savedEmulation>>
        /\ UNCHANGED <<worker, connection, workers, open, dialogs, removesDialog>>
    BY <1>6 DEF answered, service
  <2>2. suspended' = suspended
    BY <1>6 DEF answered, service
  <2>3. ops' = [ops EXCEPT ![o].pc = "ended"]
    BY <1>2, <2>1, EndOp
  <2>4. DOMAIN ops' = DOMAIN ops /\ ops'[o].pc = "ended" /\ \A p \in DOMAIN ops : p # o => ops'[p] = ops[p]
    <3>1. WentOn(ops', ops, o, "ended")
      BY <1>2, <2>3, Ends, Zenon
    <3> QED
      BY <3>1 DEF WentOn
  <2>5. \A p \in DOMAIN ops' : ops'[p].pc \notin SetsUp \cup GivesUp
    BY <1>5, <2>4 DEF Running, SetsUp, GivesUp
  <2>6. \A p \in DOMAIN ops' : ops'[p].pc \in Asks =>
       \/ workers'[ops'[p].worker] = "terminated"
       \/ ops'[p].worker = worker' /\ (ops'[p].kind # "start" => timespan' = "none")
    BY <1>5, <2>1, <2>4 DEF Running, Asks
  <2>7. Running'
    BY <1>5, <2>1, <2>2, <2>5, <2>6 DEF Running
  <2> QED
    BY <2>7 DEF Orderly
<1>7. CASE ops[o].kind # "start"
  <2>1. PICK failed \in BOOLEAN : restore(o, [ops EXCEPT ![o].failed = failed])
    BY <1>7 DEF answered
  <2>2. timespan' = timespan
    BY <1>7 DEF answered
  <2>3. PICK s : s = [ops EXCEPT ![o].failed = failed]
    OBVIOUS
  <2>4. PICK e : e = [ops[o] EXCEPT !.failed = failed]
    OBVIOUS
  <2>5. e \in Op /\ e.pc = ops[o].pc /\ e.worker = ops[o].worker
    BY <1>2, <2>4 DEF Op
  <2>6. s = [ops EXCEPT ![o] = e]
    BY <2>3, <2>4
  <2>7. /\ s \in Seq(Op) /\ Len(s) = Len(ops) /\ DOMAIN s = DOMAIN ops
        /\ s[o] = e /\ \A p \in DOMAIN ops : p # o => s[p] = ops[p]
    BY <1>2, <2>5, <2>6, PutOp
  <2>8. Pointing(s, workers)
    <3>1. Pointing(ops, workers)
      BY DEF Known
    <3> QED
      BY <2>5, <2>7, <3>1 DEF Pointing
  <2>9. timespan = "none"
    BY <1>1, <1>5, <1>7 DEF Running, Asks
  <2>10. /\ run # 0 /\ dialogs \subseteq {removesDialog} /\ restoredEmulation = "own"
    BY <1>5 DEF Running, restoredEmulation
  <2>11. Owned(s, o, workers, open, worker, worker, connection)
    BY <1>5, <2>7 DEF Running, Owned
  <2>12. restore(o, s) /\ Types /\ timespan' # "ready"
    BY <2>1, <2>2, <2>3, <2>9 DEF Known
  <2>13. GivesBack'
    BY <2>7, <2>8, <2>10, <2>11, <2>12, RestoreGivesBack
  <2> QED
    BY <2>13 DEF Orderly
<1> QED
  BY <1>6, <1>7

LEMMA OrderlyStays ==
  ASSUME Known, Orderly, UNCHANGED vars
  PROVE  Orderly'
<1>1. /\ ops' = ops /\ view' = view /\ worker' = worker /\ workers' = workers
      /\ UNCHANGED <<timespan, run, connection, open, dialogs, removesDialog, emulation,
                     savedEmulation>>
  BY DEF vars, service
<1>2. suspended' = suspended
  BY DEF vars, service
<1>3. Known'
  BY KnownStep
<1> QED
  BY <1>1, <1>2, <1>3, StaysOrderly

LEMMA LighthouseStep ==
  ASSUME LInv, [Next]_vars
  PROVE  LInv'
<1>1. Known /\ Known' /\ (~clashed => Orderly)
  BY KnownStep DEF LInv
<1>2. SUFFICES ASSUME ~clashed' PROVE Orderly'
  BY <1>1 DEF LInv
<1>3. CASE UNCHANGED vars
  BY <1>1, <1>2, <1>3, OrderlyStays DEF vars
<1>4. ASSUME NEW o \in DOMAIN ops, Continues(o) PROVE Orderly'
  BY <1>1, <1>2, <1>4, StartSetup, StartConnects, StartFails, StartAttached, RequestPosted,
     OldWorkerReady, TargetsResumed, PageReloaded DEF Continues
<1>5. ASSUME NEW o \in DOMAIN ops, answered(o) PROVE Orderly'
  <2>1. ~clashed
    BY <1>2, <1>5 DEF answered
  <2> QED
    BY <1>1, <1>5, <2>1, Answered
<1>6. ASSUME NEW mode \in Modes, clickStart(mode) PROVE Orderly'
  <2>1. ~clashed /\ Quiet
    BY <1>2, <1>6 DEF clickStart
  <2> QED
    BY <1>1, <1>6, <2>1, ClickStart
<1>7. CASE clickCancel
  <2>1. ~clashed /\ ~SettingUp
    BY <1>2, <1>7 DEF clickCancel
  <2> QED
    BY <1>1, <1>7, <2>1, ClickCancel
<1>8. CASE clickEnd \/ clickNew \/ protocolMessage
  <2>1. ~clashed
    BY <1>2, <1>8 DEF clickEnd, clickNew, protocolMessage
  <2> QED
    BY <1>1, <1>8, <2>1, ClickEnd, ClickNew, ProtocolMessage
<1>9. ASSUME NEW w \in DOMAIN workers, workerReady(w) PROVE Orderly'
  <2>1. ~clashed
    BY <1>2, <1>9 DEF workerReady
  <2> QED
    BY <1>1, <1>9, <2>1, WorkerReady
<1> QED
  BY <1>3, <1>4, <1>5, <1>6, <1>7, <1>8, <1>9 DEF Next

(* What the run checks follows from it.                                    *)
LEMMA LighthouseGives == LInv => LighthouseGivesBack
<1> SUFFICES ASSUME LInv PROVE LighthouseGivesBack
  OBVIOUS
<1>1. Known /\ (~clashed => Orderly) /\ TypeOK
  BY TypesOK DEF LInv, Known
<1>2. 0 \notin DOMAIN workers /\ 0 \notin DOMAIN open
  BY <1>1 DEF Known, Types, WorkersType, SessionType
<1>3. Quiet => ~StartingNow /\ ~InOp({"oldWorker"}) /\ ~InOp({"oldWorker", "resume"})
      /\ \A c : ~HoldsConnection(ops, 0, c)
  BY DEF Quiet, StartingNow, Starting, SetsUp, InOp, HoldsConnection
<1>4. AllGivenBack
  <2>1. SUFFICES ASSUME ~clashed, Quiet, run = 0 \/ connection = 0
                 PROVE  /\ \A c \in DOMAIN open : ~open[c]
                        /\ ~suspended /\ dialogs = {}
                        /\ emulation = "own" /\ savedEmulation = "none"
    BY DEF AllGivenBack
  <2>2. GivesBack
    BY <1>1, <1>3, <2>1 DEF Orderly, StartingNow, Running
  <2> QED
    BY <1>2, <1>3, <2>1, <2>2 DEF GivesBack, Owned, restoredEmulation
<1>5. NothingStray
  <2>1. SUFFICES ASSUME ~clashed
                 PROVE  /\ \A c \in DOMAIN open : open[c] =>
                             c = connection \/ \E o \in DOMAIN ops : ops[o].pc = "oldWorker" /\ ops[o].connection = c
                        /\ \A w \in DOMAIN workers : workers[w] # "terminated" =>
                             w = worker \/ \E o \in DOMAIN ops : ops[o].pc = "oldWorker" /\ ops[o].worker = w
    BY DEF NothingStray
  <2>2. CASE StartingNow
    BY <2>2 DEF StartingNow, Starting, Still, Unopened
  <2>3. CASE Running
    BY <2>3 DEF Running
  <2>4. CASE GivesBack
    BY <1>2, <2>4 DEF GivesBack, Owned, HoldsWorker, HoldsConnection
  <2> QED
    BY <1>1, <2>1, <2>2, <2>3, <2>4 DEF Orderly, StartingNow
<1>6. SavesOwnEmulation
  BY <1>1 DEF SavesOwnEmulation, Orderly, Starting, Running, GivesBack, restoredEmulation
<1> QED
  BY <1>1, <1>4, <1>5, <1>6 DEF LighthouseGivesBack

(* Lighthouse gives back what its runs took, however they end and however  *)
(* often the user cancels, for every number of runs, of ops under way at   *)
(* once and of workers, as long as no run was started while an op was      *)
(* under way, nor cancelled while it was set up.                           *)
THEOREM LighthouseAlwaysGivesBack == PanelsSpec => []LighthouseGivesBack
<1>1. PanelsInit => LInv
  BY InitOrderly DEF PanelsInit
<1>2. LInv /\ [PanelsNext]_<<part, vars, coverageVars, socketVars>> => LInv'
  <2> SUFFICES ASSUME LInv, [PanelsNext]_<<part, vars, coverageVars, socketVars>> PROVE LInv'
    OBVIOUS
  <2>1. [Next]_vars
    BY DEF PanelsNext
  <2> QED
    BY <2>1, LighthouseStep
<1> QED
  BY <1>1, <1>2, LighthouseGives, PTL DEF PanelsSpec

-----------------------------------------------------------------------------
(* Coverage polls.  No loop is alive, or exactly the one whose poll is the *)
(* current one, which polls or has set its timer.                          *)
NoLoop == pollTimer = None /\ currentPoll = None /\ \A l \in Loops : loop[l] = "none"

OneLoop ==
  /\ currentPoll \in Loops /\ loop[currentPoll] # "none"
  /\ \A l \in Loops \ {currentPoll} : loop[l] = "none"
  /\ pollTimer = IF loop[currentPoll] = "timer" THEN currentPoll ELSE None

(* The last poll of a suspension: preSuspendModel waits for the poll of    *)
(* the loop, and then for its own.                                         *)
Stopping ==
  \/ /\ OneLoop /\ loop[currentPoll] = "polling"
     /\ awaiting["suspension"] = currentPoll /\ asked["suspension"] = {}
  \/ NoLoop /\ awaiting["suspension"] = None /\ asked["suspension"] # {}

LoopTypes ==
  /\ loop \in [Loops -> {"none", "polling", "timer"}]
  /\ pollTimer \in Loops \cup {None} /\ currentPoll \in Loops \cup {None}
  /\ asked \in [Coverage!Polls -> SUBSET {"css", "js"}]
  /\ awaiting \in [Coverage!Stoppers -> Loops \cup {None}]

StateTypes ==
  /\ coverageView \in {"off", "starting", "reloading", "on", "stopping", "closing"}
  /\ suspension \in {"none", "pre", "preDone", "suspended"}
  /\ suspensionState = CASE suspension = "none" -> "Active"
                         [] suspension \in {"pre", "preDone"} -> "Suspending"
                         [] suspension = "suspended" -> "Suspended"
  /\ backlog \subseteq {"css", "js"}
  /\ performanceTraceRecording \in BOOLEAN /\ shouldResumePollingOnResume \in BOOLEAN
  /\ crossed \in BOOLEAN

(* Whatever meets: at most one loop is alive, the one that polls is named  *)
(* by currentPollPromise, and the one that set its timer by pollTimer.     *)
LoopsKnown ==
  /\ \A l \in Loops : loop[l] = "polling" <=> asked[l] # {}
  /\ \A l \in Loops : loop[l] = "polling" => currentPoll = l
  /\ \A l \in Loops : loop[l] = "timer" <=> pollTimer = l
  /\ \A l, m \in Loops : loop[l] # "none" /\ loop[m] # "none" => l = m

(* Who stops polling awaits the poll of a loop, and then its own.          *)
Waits(s) == asked[s] # {} \/ awaiting[s] # None
StoppersWait ==
  /\ \A s \in {"view", "suspension"} :
       awaiting[s] # None => loop[awaiting[s]] = "polling" /\ asked[s] = {}
  /\ coverageView = "stopping" <=> Waits("view")
  /\ suspension = "pre" <=> Waits("suspension")
  /\ suspension = "none" => ~performanceTraceRecording /\ ~shouldResumePollingOnResume

(* Coverage polls while it is on, but for suspensions without a trace.     *)
PollsWhileOn ==
  IF coverageView # "on"
  THEN NoLoop /\ ~shouldResumePollingOnResume /\ suspension # "pre"
  ELSE IF suspension = "none" \/ performanceTraceRecording
  THEN OneLoop /\ ~shouldResumePollingOnResume /\ suspension # "pre"
  ELSE IF suspension = "pre"
  THEN Stopping /\ ~shouldResumePollingOnResume
  ELSE NoLoop /\ shouldResumePollingOnResume

(* What holds until a stop and a poll or a suspension meet.                *)
Settled ==
  /\ awaiting["view"] = None
  /\ coverageView = "stopping" => suspension = "none"
  /\ PollsWhileOn

CoverageGeneral == LoopTypes /\ StateTypes /\ LoopsKnown /\ StoppersWait
CoverageInv == CoverageGeneral /\ (~crossed => Settled)

LEMMA CoverageFacts ==
  /\ None \notin Loops /\ "view" \notin Loops /\ "suspension" \notin Loops
  /\ Coverage!Stoppers = {"view", "suspension"} /\ Coverage!Polls = Loops \cup {"view", "suspension"}
BY CoverageAssumption DEF Coverage!LoopsAssumption, Coverage!Stoppers, Coverage!Polls

LEMMA InitCoverage == Coverage!Init => CoverageInv
<1> SUFFICES ASSUME Coverage!Init PROVE CoverageInv
  OBVIOUS
<1>1. /\ performanceTraceRecording \in BOOLEAN /\ ~performanceTraceRecording
      /\ shouldResumePollingOnResume \in BOOLEAN /\ ~shouldResumePollingOnResume
      /\ crossed \in BOOLEAN
  BY Zenon DEF Coverage!Init
<1>2. LoopTypes /\ StateTypes
  BY <1>1, CoverageFacts DEF Coverage!Init, LoopTypes, StateTypes
<1>3. NoLoop
  BY DEF Coverage!Init, NoLoop
<1>4. LoopsKnown
  BY CoverageFacts DEF Coverage!Init, LoopsKnown
<1>5. StoppersWait
  BY <1>1, CoverageFacts DEF Coverage!Init, StoppersWait, Waits
<1> QED
  BY <1>1, <1>2, <1>3, <1>4, <1>5, CoverageFacts
  DEF Coverage!Init, CoverageInv, CoverageGeneral, Settled, PollsWhileOn

(* A loop begins to poll where none polls.                                 *)
LEMMA LoopPolls ==
  ASSUME LoopTypes, LoopsKnown, NEW l \in Loops, NEW st, NEW perf, Coverage!pollLoop(l, st, perf),
         Coverage!Asks(st, perf) # {}, \A m \in Loops : loop[m] # "polling", awaiting' = awaiting
  PROVE  /\ OneLoop' /\ LoopTypes' /\ LoopsKnown'
         /\ asked'["view"] = asked["view"] /\ asked'["suspension"] = asked["suspension"]
<1> DEFINE polled == Coverage!Asks(st, perf)
<1>1. /\ loop' = [Coverage!Cleared(loop) EXCEPT ![l] = "polling"]
      /\ pollTimer' = None /\ currentPoll' = l
      /\ asked' = [asked EXCEPT ![l] = polled]
  BY DEF Coverage!pollLoop
<1>2. polled \subseteq {"css", "js"} /\ polled # {}
  BY DEF Coverage!Asks
<1> HIDE DEF polled
<1>3. \A m \in Loops : Coverage!Cleared(loop)[m] = "none"
  BY DEF LoopsKnown, LoopTypes, Coverage!Cleared
<1>4. Coverage!Cleared(loop) \in [Loops -> {"none", "polling", "timer"}]
  BY DEF Coverage!Cleared, LoopTypes
<1>5. loop' \in [Loops -> {"none", "polling", "timer"}] /\ loop'[l] = "polling"
      /\ \A m \in Loops : m # l => loop'[m] = "none"
  BY <1>1, <1>3, <1>4
<1>6. /\ asked' \in [Coverage!Polls -> SUBSET {"css", "js"}] /\ asked'[l] = polled
      /\ \A p \in Coverage!Polls : p # l => asked'[p] = asked[p]
  BY <1>1, <1>2, CoverageFacts DEF LoopTypes
<1>7. OneLoop'
  BY <1>1, <1>5, CoverageFacts DEF OneLoop
<1>8. \A m \in Loops : asked[m] = {}
  BY DEF LoopsKnown
<1>9. LoopsKnown'
  BY <1>1, <1>2, <1>5, <1>6, <1>8, CoverageFacts DEF LoopsKnown
<1>10. LoopTypes'
  BY <1>1, <1>5, <1>6 DEF LoopTypes
<1> QED
  BY <1>6, <1>7, <1>9, <1>10, CoverageFacts

(* startPolling: a loop begins to poll, or all stays as it is.             *)
LEMMA PollingStarts ==
  ASSUME LoopTypes, LoopsKnown, NEW st, Coverage!startPolling(st), awaiting' = awaiting
  PROVE  /\ LoopTypes' /\ LoopsKnown'
         /\ asked'["view"] = asked["view"] /\ asked'["suspension"] = asked["suspension"]
         /\ \/ OneLoop' /\ currentPoll = None /\ \A m \in Loops : loop[m] # "polling"
            \/ UNCHANGED <<loop, pollTimer, currentPoll, asked>> /\ ~Coverage!mayStart(st)
<1>1. CASE Coverage!mayStart(st)
  <2>1. PICK l \in Loops : Coverage!pollLoop(l, st, FALSE)
    BY <1>1 DEF Coverage!startPolling
  <2>2. Coverage!Asks(st, FALSE) # {} /\ currentPoll = None
    BY <1>1 DEF Coverage!Asks, Coverage!mayStart
  <2>3. \A m \in Loops : loop[m] # "polling"
    BY <2>2, CoverageFacts DEF LoopsKnown
  <2> QED
    BY <2>1, <2>2, <2>3, LoopPolls
<1>2. CASE ~Coverage!mayStart(st)
  <2>1. UNCHANGED <<loop, pollTimer, currentPoll, asked>>
    BY <1>2 DEF Coverage!startPolling
  <2> QED
    BY <1>2, <2>1 DEF LoopTypes, LoopsKnown
<1> QED
  BY <1>1, <1>2

(* A loop is alive that currentPollPromise names: it is the only one.      *)
LEMMA OneIsAlive ==
  ASSUME LoopTypes, LoopsKnown, currentPoll # None, loop[currentPoll] # "none"
  PROVE  OneLoop
<1>1. currentPoll \in Loops
  BY DEF LoopTypes
<1>2. \A l \in Loops \ {currentPoll} : loop[l] = "none"
  BY <1>1 DEF LoopsKnown
<1>3. pollTimer = IF loop[currentPoll] = "timer" THEN currentPoll ELSE None
  BY <1>1, <1>2 DEF LoopsKnown, LoopTypes
<1> QED
  BY <1>1, <1>2, <1>3 DEF OneLoop

(* What does not change the polls.                                         *)
LEMMA SamePolls ==
  ASSUME UNCHANGED <<loop, pollTimer, currentPoll, asked, awaiting>>
  PROVE  /\ (NoLoop' <=> NoLoop) /\ (OneLoop' <=> OneLoop) /\ (Stopping' <=> Stopping)
         /\ (LoopTypes' <=> LoopTypes) /\ (LoopsKnown' <=> LoopsKnown)
         /\ (Waits("view")' <=> Waits("view")) /\ (Waits("suspension")' <=> Waits("suspension"))
BY DEF NoLoop, OneLoop, Stopping, LoopTypes, LoopsKnown, Waits

(* The view calls startPolling.                                            *)
LEMMA ViewPolls ==
  ASSUME CoverageInv, coverageView \in {"starting", "reloading", "on"}, coverageView' = "on",
         Coverage!startPolling(suspensionState), Coverage!BeginsAnew,
         UNCHANGED <<suspension, suspensionState, performanceTraceRecording,
                     shouldResumePollingOnResume, awaiting, backlog>>
  PROVE  CoverageInv'
<1> USE DEF CoverageInv, CoverageGeneral
<1>1. /\ LoopTypes' /\ LoopsKnown'
      /\ asked'["view"] = asked["view"] /\ asked'["suspension"] = asked["suspension"]
      /\ \/ OneLoop' /\ currentPoll = None /\ \A m \in Loops : loop[m] # "polling"
         \/ UNCHANGED <<loop, pollTimer, currentPoll, asked>> /\ ~Coverage!mayStart(suspensionState)
  BY PollingStarts
<1>2. crossed' \in BOOLEAN
  <2>1. crossed' = (crossed /\ Coverage!Blocked) \/ crossed' = (crossed \/ coverageView # "on")
    BY DEF Coverage!BeginsAnew, Coverage!Crosses
  <2> QED
    BY <2>1, Zenon
<1>3. StateTypes'
  BY <1>2 DEF StateTypes
<1>4. \A s \in {"view", "suspension"} : awaiting[s] \in Loops \cup {None}
  BY CoverageFacts DEF LoopTypes
<1>5. StoppersWait'
  BY <1>1, <1>4 DEF StoppersWait, Waits
<1>6. ASSUME ~crossed' PROVE Settled'
  <2>1. awaiting'["view"] = None
    BY DEF StoppersWait, Waits
  <2>2. CASE suspensionState = "Active"
    <3>1. suspension = "none" /\ ~shouldResumePollingOnResume
      BY <2>2 DEF StateTypes, StoppersWait
    <3>2. ~crossed \/ ~Coverage!Blocked
      BY <1>6, <2>2 DEF Coverage!BeginsAnew
    <3>3. ~Coverage!Blocked
      BY <3>1, <3>2, CoverageFacts DEF Settled, PollsWhileOn, NoLoop, OneLoop, Coverage!Blocked
    <3>4. OneLoop'
      <4>1. CASE /\ UNCHANGED <<loop, pollTimer, currentPoll, asked>>
                 /\ ~Coverage!mayStart(suspensionState)
        <5>1. currentPoll # None /\ loop[currentPoll] # "none"
          BY <2>2, <3>3, <4>1 DEF Coverage!mayStart, Coverage!Blocked
        <5> QED
          BY <4>1, <5>1, OneIsAlive, SamePolls
      <4> QED
        BY <1>1, <4>1
    <3> QED
      BY <2>1, <3>1, <3>4 DEF Settled, PollsWhileOn
  <2>3. CASE suspensionState # "Active"
    <3>1. ~crossed /\ coverageView = "on"
      BY <1>6, <2>3 DEF Coverage!BeginsAnew, Coverage!Crosses
    <3>2. UNCHANGED <<loop, pollTimer, currentPoll, asked, awaiting>>
      BY <2>3 DEF Coverage!startPolling, Coverage!mayStart
    <3> QED
      BY <2>1, <3>1, <3>2, SamePolls DEF Settled, PollsWhileOn
  <2> QED
    BY <2>2, <2>3
<1> QED
  BY <1>1, <1>3, <1>5, <1>6

LEMMA ViewMoves ==
  ASSUME CoverageInv, Coverage!start \/ Coverage!stopped
         \/ (\E reload \in BOOLEAN : Coverage!started(reload)) \/ Coverage!navigated
  PROVE  CoverageInv'
<1>1. ASSUME coverageView \in {"off", "closing", "starting"},
             coverageView' \in {"off", "starting", "reloading"},
             suspension' = suspension, suspensionState' = suspensionState,
             performanceTraceRecording' = performanceTraceRecording,
             shouldResumePollingOnResume' = shouldResumePollingOnResume, crossed' = crossed,
             UNCHANGED <<loop, pollTimer, currentPoll, asked, awaiting>>, backlog' = backlog
      PROVE  CoverageInv'
  <2>1. StateTypes'
    BY <1>1 DEF CoverageInv, CoverageGeneral, StateTypes
  <2>2. StoppersWait'
    BY <1>1, SamePolls DEF CoverageInv, CoverageGeneral, StoppersWait
  <2>3. ~crossed' => Settled'
    BY <1>1, SamePolls DEF CoverageInv, Settled, PollsWhileOn
  <2> QED
    BY <1>1, <2>1, <2>2, <2>3, SamePolls DEF CoverageInv, CoverageGeneral
<1>2. CASE Coverage!start
  BY <1>1, <1>2 DEF Coverage!start
<1>3. CASE Coverage!stopped
  BY <1>1, <1>3 DEF Coverage!stopped
<1>4. ASSUME NEW reload \in BOOLEAN, Coverage!started(reload)
      PROVE  CoverageInv'
  <2>1. CASE ~reload
    BY <1>4, <2>1, ViewPolls DEF Coverage!started
  <2>2. CASE reload
    BY <1>1, <1>4, <2>2 DEF Coverage!started
  <2> QED
    BY <2>1, <2>2
<1>5. CASE Coverage!navigated
  BY <1>5, ViewPolls DEF Coverage!navigated
<1> QED
  BY <1>2, <1>3, <1>4, <1>5

(* stopPolling, called by s: it awaits the poll of a loop, or no loop is   *)
(* alive any more and its last poll begins.                                *)
LEMMA PollingStops ==
  ASSUME LoopTypes, LoopsKnown, NEW s \in {"view", "suspension"}, NEW st,
         Coverage!stopPolling(s, st)
  PROVE  /\ LoopTypes' /\ LoopsKnown'
         /\ \A r \in {"view", "suspension"} :
              r # s => awaiting'[r] = awaiting[r] /\ asked'[r] = asked[r]
         /\ \/ /\ currentPoll \in Loops /\ loop[currentPoll] = "polling"
               /\ UNCHANGED <<loop, pollTimer, currentPoll, asked>> /\ awaiting'[s] = currentPoll
            \/ /\ \A l \in Loops : loop[l] # "polling"
               /\ NoLoop' /\ awaiting'[s] = None
               /\ asked'[s] = Coverage!Asks(st, performanceTraceRecording)
<1>1. CASE currentPoll # None /\ loop[currentPoll] = "polling"
  <2>1. /\ loop' = Coverage!Cleared(loop) /\ pollTimer' = None /\ currentPoll' = currentPoll
        /\ awaiting' = [awaiting EXCEPT ![s] = currentPoll] /\ asked' = asked
    BY <1>1 DEF Coverage!stopPolling
  <2>2. currentPoll \in Loops
    BY <1>1 DEF LoopTypes
  <2>3. pollTimer = None
    BY <1>1, <2>2 DEF LoopsKnown, LoopTypes
  <2>4. loop' = loop
    <3>1. Coverage!Cleared(loop) = [l \in Loops |-> loop[l]]
      BY <2>3, CoverageFacts DEF Coverage!Cleared
    <3> QED
      BY <2>1, <3>1 DEF LoopTypes
  <2>5. /\ awaiting' \in [Coverage!Stoppers -> Loops \cup {None}]
        /\ awaiting'[s] = currentPoll
        /\ \A r \in {"view", "suspension"} : r # s => awaiting'[r] = awaiting[r]
    BY <2>1, <2>2, CoverageFacts DEF LoopTypes
  <2> QED
    BY <1>1, <2>1, <2>2, <2>3, <2>4, <2>5 DEF LoopTypes, LoopsKnown
<1>2. CASE ~(currentPoll # None /\ loop[currentPoll] = "polling")
  <2>1. /\ loop' = Coverage!Cleared(loop) /\ pollTimer' = None /\ currentPoll' = None
        /\ awaiting' = [awaiting EXCEPT ![s] = None]
        /\ asked' = Coverage!LastPolls({s}, st, performanceTraceRecording)
    BY <1>2 DEF Coverage!stopPolling
  <2>2. \A l \in Loops : loop[l] # "polling"
    BY <1>2, CoverageFacts DEF LoopsKnown
  <2>3. Coverage!Cleared(loop) \in [Loops -> {"none", "polling", "timer"}]
        /\ \A l \in Loops : Coverage!Cleared(loop)[l] = "none"
    BY <2>2 DEF LoopsKnown, Coverage!Cleared, LoopTypes
  <2>4. Coverage!Asks(st, performanceTraceRecording) \subseteq {"css", "js"}
    BY DEF Coverage!Asks
  <2>5. /\ asked' \in [Coverage!Polls -> SUBSET {"css", "js"}]
        /\ asked'[s] = Coverage!Asks(st, performanceTraceRecording)
        /\ \A p \in Coverage!Polls : p # s => asked'[p] = asked[p]
    BY <2>1, <2>4, CoverageFacts DEF Coverage!LastPolls, LoopTypes
  <2>6. NoLoop'
    BY <2>1, <2>3 DEF NoLoop
  <2>7. /\ awaiting' \in [Coverage!Stoppers -> Loops \cup {None}] /\ awaiting'[s] = None
        /\ \A r \in {"view", "suspension"} : r # s => awaiting'[r] = awaiting[r]
    BY <2>1, CoverageFacts DEF LoopTypes
  <2>8. LoopTypes'
    BY <2>1, <2>3, <2>5, <2>7 DEF LoopTypes
  <2>9. \A l \in Loops : asked'[l] = {}
    BY <2>2, <2>5, CoverageFacts DEF LoopsKnown
  <2>10. LoopsKnown'
    BY <2>6, <2>9, CoverageFacts DEF LoopsKnown, NoLoop
  <2> QED
    BY <2>2, <2>5, <2>6, <2>7, <2>8, <2>10, CoverageFacts
<1> QED
  BY <1>1, <1>2

LEMMA CoverageStops ==
  ASSUME CoverageInv, Coverage!stop
  PROVE  CoverageInv'
<1> USE DEF CoverageInv, CoverageGeneral
<1>1. /\ coverageView \in {"on", "reloading"}
      /\ Coverage!stopPolling("view", suspensionState)
      /\ UNCHANGED <<suspension, suspensionState, performanceTraceRecording,
                     shouldResumePollingOnResume, backlog>>
      /\ coverageView' = IF asked'["view"] = {} /\ awaiting'["view"] = None THEN "closing" ELSE "stopping"
      /\ crossed' = (crossed \/ (suspension # "none" \/ \E l \in Loops : loop[l] = "polling"))
  BY DEF Coverage!stop, Coverage!Crosses
<1>2. /\ LoopTypes' /\ LoopsKnown'
      /\ awaiting'["suspension"] = awaiting["suspension"]
      /\ asked'["suspension"] = asked["suspension"]
      /\ \/ /\ currentPoll \in Loops /\ loop[currentPoll] = "polling"
            /\ UNCHANGED <<loop, pollTimer, currentPoll, asked>> /\ awaiting'["view"] = currentPoll
         \/ /\ \A l \in Loops : loop[l] # "polling"
            /\ NoLoop' /\ awaiting'["view"] = None
            /\ asked'["view"] = Coverage!Asks(suspensionState, performanceTraceRecording)
  BY <1>1, PollingStops
<1>3. crossed' \in BOOLEAN
  BY <1>1, Zenon
<1>4. StateTypes'
  BY <1>1, <1>3 DEF StateTypes
<1>5. asked["view"] = {} /\ awaiting["view"] = None
  BY <1>1 DEF StoppersWait, Waits
<1>6. StoppersWait'
  <2>1. awaiting["suspension"] \in Loops \cup {None}
    BY CoverageFacts DEF LoopTypes
  <2> QED
    BY <1>1, <1>2, <1>5, <2>1, CoverageFacts DEF StoppersWait, Waits
<1>7. ASSUME ~crossed' PROVE Settled'
  <2>1. ~crossed /\ suspension = "none" /\ \A l \in Loops : loop[l] # "polling"
    BY <1>1, <1>7
  <2>2. NoLoop' /\ awaiting'["view"] = None
    BY <1>2, <2>1
  <2>3. ~shouldResumePollingOnResume
    BY <2>1 DEF StoppersWait
  <2> QED
    BY <1>1, <2>1, <2>2, <2>3 DEF Settled, PollsWhileOn
<1> QED
  BY <1>2, <1>4, <1>6, <1>7

LEMMA SuspensionBegins ==
  ASSUME CoverageInv, NEW perf \in BOOLEAN, Coverage!preSuspendModel(perf)
  PROVE  CoverageInv'
<1> USE DEF CoverageInv, CoverageGeneral
<1>1. /\ suspension = "none" /\ suspensionState' = "Suspending"
      /\ (performanceTraceRecording' <=> perf)
      /\ coverageView' = coverageView /\ backlog' = backlog
      /\ suspension' = IF asked'["suspension"] = {} /\ awaiting'["suspension"] = None
                       THEN "preDone" ELSE "pre"
      /\ crossed' = (crossed \/ coverageView = "stopping")
  BY DEF Coverage!preSuspendModel, Coverage!Crosses
<1>2. suspensionState = "Active" /\ ~performanceTraceRecording /\ ~shouldResumePollingOnResume
      /\ asked["suspension"] = {} /\ awaiting["suspension"] = None
  BY <1>1 DEF StateTypes, StoppersWait, Waits
<1>3. /\ performanceTraceRecording' \in BOOLEAN /\ shouldResumePollingOnResume' \in BOOLEAN
      /\ crossed' \in BOOLEAN
  BY Zenon DEF Coverage!preSuspendModel, Coverage!Crosses
<1>4. StateTypes'
  BY <1>1, <1>3 DEF StateTypes
<1>5. CASE perf \/ currentPoll = None
  <2>1. /\ UNCHANGED <<loop, pollTimer, currentPoll, asked, awaiting>>
        /\ (shouldResumePollingOnResume' <=> shouldResumePollingOnResume)
    BY <1>5 DEF Coverage!preSuspendModel
  <2>2. suspension' = "preDone"
    BY <1>1, <1>2, <2>1
  <2>3. StoppersWait'
    BY <1>1, <1>2, <2>1, <2>2 DEF StoppersWait, Waits
  <2>4. ASSUME ~crossed' PROVE Settled'
    <3>1. ~crossed /\ coverageView # "stopping" /\ Settled
      BY <1>1, <2>4
    <3>2. coverageView = "on" => perf
      BY <1>1, <1>5, <3>1, CoverageFacts DEF Settled, PollsWhileOn, OneLoop
    <3> QED
      BY <1>1, <1>2, <2>1, <2>2, <3>1, <3>2, SamePolls DEF Settled, PollsWhileOn
  <2> QED
    BY <1>4, <2>1, <2>3, <2>4, SamePolls
<1>6. CASE ~perf /\ currentPoll # None
  <2>1. Coverage!stopPolling("suspension", "Suspending")
    BY <1>6 DEF Coverage!preSuspendModel
  <2>2. shouldResumePollingOnResume' <=>
          asked'["suspension"] = {} /\ awaiting'["suspension"] = None
    BY <1>2, <1>6 DEF Coverage!preSuspendModel
  <2>3. /\ LoopTypes' /\ LoopsKnown'
        /\ awaiting'["view"] = awaiting["view"] /\ asked'["view"] = asked["view"]
        /\ \/ /\ currentPoll \in Loops /\ loop[currentPoll] = "polling"
              /\ UNCHANGED <<loop, pollTimer, currentPoll, asked>>
              /\ awaiting'["suspension"] = currentPoll
           \/ /\ \A l \in Loops : loop[l] # "polling"
              /\ NoLoop' /\ awaiting'["suspension"] = None
              /\ asked'["suspension"] = Coverage!Asks("Suspending", performanceTraceRecording)
    BY <2>1, PollingStops
  <2>4. Coverage!Asks("Suspending", performanceTraceRecording) = {"js"}
    BY DEF Coverage!Asks
  <2>5. suspension' = "pre" /\ ~shouldResumePollingOnResume'
    BY <1>1, <2>2, <2>3, <2>4, CoverageFacts
  <2>6. StoppersWait'
    <3>1. awaiting["view"] \in Loops \cup {None}
      BY CoverageFacts DEF LoopTypes
    <3> QED
      BY <1>1, <1>2, <2>3, <2>4, <2>5, <3>1, CoverageFacts DEF StoppersWait, Waits
  <2>7. ASSUME ~crossed' PROVE Settled'
    <3>1. ~crossed /\ coverageView # "stopping" /\ Settled
      BY <1>1, <2>7
    <3>2. OneLoop /\ coverageView = "on"
      BY <1>1, <1>6, <3>1 DEF Settled, PollsWhileOn, NoLoop
    <3>3. Stopping'
      <4>1. CASE loop[currentPoll] = "polling"
        <5>1. /\ UNCHANGED <<loop, pollTimer, currentPoll, asked>>
              /\ awaiting'["suspension"] = currentPoll
          BY <2>3, <3>2, <4>1 DEF OneLoop
        <5> QED
          BY <1>2, <3>2, <4>1, <5>1 DEF Stopping, OneLoop
      <4>2. CASE loop[currentPoll] # "polling"
        BY <2>3, <2>4, <4>2 DEF Stopping
      <4> QED
        BY <4>1, <4>2
    <3> QED
      BY <1>1, <1>6, <2>3, <2>5, <3>1, <3>2, <3>3 DEF Settled, PollsWhileOn
  <2> QED
    BY <1>4, <2>3, <2>6, <2>7
<1> QED
  BY <1>5, <1>6

LEMMA ModelSuspends ==
  ASSUME CoverageInv, Coverage!suspendModel
  PROVE  CoverageInv'
<1>1. /\ suspension = "preDone" /\ suspension' = "suspended" /\ suspensionState' = "Suspended"
      /\ coverageView' = coverageView /\ performanceTraceRecording' = performanceTraceRecording
      /\ shouldResumePollingOnResume' = shouldResumePollingOnResume /\ crossed' = crossed
      /\ UNCHANGED <<loop, pollTimer, currentPoll, asked, awaiting>> /\ backlog' = backlog
  BY DEF Coverage!suspendModel
<1>2. StateTypes'
  BY <1>1 DEF CoverageInv, CoverageGeneral, StateTypes
<1>3. StoppersWait'
  BY <1>1, SamePolls DEF CoverageInv, CoverageGeneral, StoppersWait
<1>4. ~crossed' => Settled'
  BY <1>1, SamePolls DEF CoverageInv, Settled, PollsWhileOn
<1> QED
  BY <1>1, <1>2, <1>3, <1>4, SamePolls DEF CoverageInv, CoverageGeneral

LEMMA ModelResumes ==
  ASSUME CoverageInv, Coverage!postResumeModel
  PROVE  CoverageInv'
<1> USE DEF CoverageInv, CoverageGeneral
<1>1. /\ suspension = "suspended" /\ suspension' = "none" /\ suspensionState' = "Active"
      /\ ~performanceTraceRecording' /\ ~shouldResumePollingOnResume'
      /\ coverageView' = coverageView /\ awaiting' = awaiting /\ backlog' = backlog
      /\ crossed' = crossed
  BY DEF Coverage!postResumeModel
<1>2. performanceTraceRecording' \in BOOLEAN /\ shouldResumePollingOnResume' \in BOOLEAN
  BY Zenon DEF Coverage!postResumeModel
<1>3. StateTypes'
  BY <1>1, <1>2 DEF StateTypes
<1>4. asked["suspension"] = {} /\ awaiting["suspension"] = None
  BY <1>1 DEF StoppersWait, Waits
<1>5. CASE shouldResumePollingOnResume
  <2>1. Coverage!startPolling("Active")
    BY <1>5 DEF Coverage!postResumeModel, Coverage!resumesPolling
  <2>2. /\ LoopTypes' /\ LoopsKnown'
        /\ asked'["view"] = asked["view"] /\ asked'["suspension"] = asked["suspension"]
        /\ \/ OneLoop' /\ currentPoll = None /\ \A m \in Loops : loop[m] # "polling"
           \/ UNCHANGED <<loop, pollTimer, currentPoll, asked>> /\ ~Coverage!mayStart("Active")
    BY <1>1, <2>1, PollingStarts
  <2>3. StoppersWait'
    <3>1. awaiting["view"] \in Loops \cup {None}
      BY CoverageFacts DEF LoopTypes
    <3> QED
      BY <1>1, <1>4, <2>2, <3>1 DEF StoppersWait, Waits
  <2>4. ASSUME ~crossed' PROVE Settled'
    <3>1. coverageView = "on" /\ NoLoop /\ Settled
      BY <1>1, <1>5, <2>4 DEF Settled, PollsWhileOn
    <3>2. OneLoop'
      BY <2>2, <3>1 DEF NoLoop, Coverage!mayStart
    <3> QED
      BY <1>1, <3>1, <3>2 DEF Settled, PollsWhileOn
  <2> QED
    BY <1>3, <2>2, <2>3, <2>4
<1>6. CASE ~shouldResumePollingOnResume
  <2>1. UNCHANGED <<loop, pollTimer, currentPoll, asked, awaiting>>
    BY <1>1, <1>6 DEF Coverage!postResumeModel, Coverage!resumesPolling
  <2>2. StoppersWait'
    BY <1>1, <1>4, <2>1 DEF StoppersWait, Waits
  <2>3. ~crossed' => Settled'
    BY <1>1, <1>6, <2>1, SamePolls DEF Settled, PollsWhileOn
  <2> QED
    BY <1>3, <2>1, <2>2, <2>3, SamePolls
<1> QED
  BY <1>5, <1>6

(* The timer of a loop fires: it polls, or finds the model suspended.      *)
LEMMA TimerFires ==
  ASSUME CoverageInv, NEW l \in Loops, Coverage!timerFires(l)
  PROVE  CoverageInv'
<1> USE DEF CoverageInv, CoverageGeneral
<1>1. /\ loop[l] = "timer" /\ coverageView' = coverageView /\ suspension' = suspension
      /\ suspensionState' = suspensionState
      /\ performanceTraceRecording' = performanceTraceRecording
      /\ shouldResumePollingOnResume' = shouldResumePollingOnResume
      /\ awaiting' = awaiting /\ backlog' = backlog /\ crossed' = crossed
  BY DEF Coverage!timerFires
<1>2. StateTypes'
  BY <1>1 DEF StateTypes
<1>3. /\ \A m \in Loops : loop[m] # "polling"
      /\ \A m \in Loops : m # l => loop[m] = "none"
  BY <1>1 DEF LoopsKnown
<1>4. awaiting["view"] = None /\ awaiting["suspension"] = None
  BY <1>3, CoverageFacts DEF StoppersWait, LoopTypes
<1>5. CASE Coverage!Asks(suspensionState, performanceTraceRecording) # {}
  <2>1. Coverage!pollLoop(l, suspensionState, performanceTraceRecording)
    BY <1>5 DEF Coverage!timerFires
  <2>2. /\ OneLoop' /\ LoopTypes' /\ LoopsKnown'
        /\ asked'["view"] = asked["view"] /\ asked'["suspension"] = asked["suspension"]
    BY <1>1, <1>3, <1>5, <2>1, LoopPolls
  <2>3. StoppersWait'
    BY <1>1, <1>4, <2>2 DEF StoppersWait, Waits
  <2>4. ASSUME ~crossed' PROVE Settled'
    <3>1. Settled /\ coverageView = "on" /\ (suspension = "none" \/ performanceTraceRecording)
      BY <1>1, <2>4 DEF Settled, PollsWhileOn, NoLoop, OneLoop, Stopping
    <3> QED
      BY <1>1, <2>2, <3>1 DEF Settled, PollsWhileOn
  <2> QED
    BY <1>2, <2>2, <2>3, <2>4
<1>6. CASE ~(Coverage!Asks(suspensionState, performanceTraceRecording) # {})
  <2>1. /\ loop' = [Coverage!Cleared(loop) EXCEPT ![l] = "none"]
        /\ pollTimer' = None /\ currentPoll' = l /\ asked' = asked
    BY <1>6 DEF Coverage!timerFires
  <2>2. /\ Coverage!Cleared(loop) \in [Loops -> {"none", "polling", "timer"}]
        /\ \A m \in Loops : m # l => Coverage!Cleared(loop)[m] = "none"
    BY <1>3 DEF Coverage!Cleared, LoopTypes
  <2>3. /\ loop' \in [Loops -> {"none", "polling", "timer"}]
        /\ \A m \in Loops : loop'[m] = "none"
    BY <2>1, <2>2
  <2>4. LoopTypes'
    BY <1>1, <2>1, <2>3 DEF LoopTypes
  <2>5. LoopsKnown'
    BY <1>3, <2>1, <2>3, CoverageFacts DEF LoopsKnown
  <2>6. StoppersWait'
    BY <1>1, <1>4, <2>1 DEF StoppersWait, Waits
  <2>7. ASSUME ~crossed' PROVE FALSE
    <3>1. Settled /\ (suspension = "none" \/ performanceTraceRecording)
      BY <1>1, <2>7 DEF Settled, PollsWhileOn, NoLoop, OneLoop, Stopping
    <3> QED
      BY <1>6, <3>1 DEF StateTypes, Coverage!Asks
  <2> QED
    BY <1>2, <2>4, <2>5, <2>6, <2>7
<1> QED
  BY <1>5, <1>6

(* The poll of a loop is over: it goes on with its timer, or it ends, and  *)
(* those who waited for it do their last polls.                            *)
LEMMA LoopPolled ==
  ASSUME CoverageInv, NEW l \in Loops, asked[l] # {}, Coverage!loopPolled(l),
         suspensionState' = suspensionState, backlog' \subseteq {"css", "js"},
         performanceTraceRecording' = performanceTraceRecording, crossed' = crossed
  PROVE  CoverageInv'
<1> USE DEF CoverageInv, CoverageGeneral
<1> DEFINE again == Coverage!goesOn(suspensionState, performanceTraceRecording)
           S == {s \in Coverage!Stoppers : awaiting[s] = l}
           last == Coverage!Asks(suspensionState, performanceTraceRecording)
           over == IF last = {} THEN S ELSE {}
<1>1. /\ loop' = [loop EXCEPT ![l] = IF again THEN "timer" ELSE "none"]
      /\ pollTimer' = IF again THEN l ELSE pollTimer
      /\ currentPoll' = IF S # {} THEN None ELSE currentPoll
      /\ awaiting' = [s \in Coverage!Stoppers |-> IF s \in S THEN None ELSE awaiting[s]]
      /\ asked' = [Coverage!LastPolls(S, suspensionState, performanceTraceRecording) EXCEPT ![l] = {}]
      /\ Coverage!StopOver(over)
  BY DEF Coverage!loopPolled
<1>2. /\ loop[l] = "polling" /\ currentPoll = l /\ pollTimer = None
      /\ \A m \in Loops : m # l => loop[m] = "none" /\ asked[m] = {}
  <2>1. loop[l] = "polling" /\ currentPoll = l
    BY DEF LoopsKnown
  <2>2. \A m \in Loops : m # l => loop[m] = "none" /\ asked[m] = {}
    BY <2>1 DEF LoopsKnown
  <2>3. pollTimer = None
    BY <2>1, <2>2, CoverageFacts DEF LoopsKnown, LoopTypes
  <2> QED
    BY <2>1, <2>2, <2>3
<1>3. loop' \in [Loops -> {"none", "polling", "timer"}] /\ loop'[l] = (IF again THEN "timer" ELSE "none")
      /\ \A m \in Loops : m # l => loop'[m] = "none"
  BY <1>1, <1>2 DEF LoopTypes
<1>4. last \subseteq {"css", "js"}
  BY DEF Coverage!Asks
<1>5. \A s \in {"view", "suspension"} :
        /\ awaiting[s] = IF s \in S THEN l ELSE None
        /\ s \in S => asked[s] = {}
  <2>1. \A s \in {"view", "suspension"} :
          awaiting[s] = None \/ (awaiting[s] \in Loops /\ loop[awaiting[s]] = "polling")
    BY CoverageFacts DEF StoppersWait, LoopTypes
  <2>2. \A s \in {"view", "suspension"} : awaiting[s] = None \/ awaiting[s] = l
    BY <1>2, <2>1
  <2> QED
    BY <2>2, CoverageFacts DEF StoppersWait
<1>6. /\ awaiting' \in [Coverage!Stoppers -> Loops \cup {None}]
      /\ awaiting'["view"] = None /\ awaiting'["suspension"] = None
  <2> HIDE DEF S
  <2> QED
    BY <1>1, <1>5, CoverageFacts DEF LoopTypes
<1>7. /\ asked' \in [Coverage!Polls -> SUBSET {"css", "js"}]
      /\ \A m \in Loops : asked'[m] = {}
      /\ \A s \in {"view", "suspension"} : asked'[s] = IF s \in S THEN last ELSE asked[s]
  <2>1. asked' = [[p \in Coverage!Polls |-> IF p \in S THEN last ELSE asked[p]] EXCEPT ![l] = {}]
    BY <1>1 DEF Coverage!LastPolls
  <2>2. S \cap Loops = {}
    BY CoverageFacts
  <2> HIDE DEF S, last
  <2>3. asked \in [Coverage!Polls -> SUBSET {"css", "js"}]
    BY DEF LoopTypes
  <2> QED
    BY <1>2, <1>4, <2>1, <2>2, <2>3, CoverageFacts
<1>8. /\ coverageView' = (IF "view" \in over THEN "closing" ELSE coverageView)
      /\ suspension' = (IF "suspension" \in over THEN "preDone" ELSE suspension)
      /\ (shouldResumePollingOnResume' <=> shouldResumePollingOnResume \/ "suspension" \in over)
      /\ shouldResumePollingOnResume' \in BOOLEAN
  <2>1. shouldResumePollingOnResume' = (shouldResumePollingOnResume \/ "suspension" \in over)
    BY <1>1 DEF Coverage!StopOver
  <2>2. /\ coverageView' = (IF "view" \in over THEN "closing" ELSE coverageView)
        /\ suspension' = (IF "suspension" \in over THEN "preDone" ELSE suspension)
    BY <1>1 DEF Coverage!StopOver
  <2>3. (shouldResumePollingOnResume' <=> shouldResumePollingOnResume \/ "suspension" \in over)
        /\ shouldResumePollingOnResume' \in BOOLEAN
    <3> HIDE DEF over
    <3> QED
      BY <2>1, Zenon
  <2> QED
    BY <2>2, <2>3
<1>9. /\ "view" \in S => coverageView = "stopping"
      /\ "suspension" \in S => suspension = "pre"
  BY <1>5, CoverageFacts DEF StoppersWait, Waits
<1>10. over # {} => suspensionState = "Suspended" /\ over = S /\ last = {}
  BY DEF Coverage!Asks, StateTypes
<1>11. "suspension" \notin over
  BY <1>9, <1>10 DEF StateTypes
<1> HIDE DEF again, S, last, over
<1>12. LoopTypes'
  BY <1>1, <1>2, <1>3, <1>6, <1>7 DEF LoopTypes
<1>13. LoopsKnown'
  BY <1>1, <1>2, <1>3, <1>7, CoverageFacts DEF LoopsKnown
<1>14. StateTypes'
  BY <1>8, <1>11 DEF StateTypes
<1>15. StoppersWait'
  <2>1. coverageView' = "stopping" <=> Waits("view")'
    BY <1>5, <1>6, <1>7, <1>8, <1>9 DEF StoppersWait, Waits, over
  <2>2. suspension' = "pre" <=> Waits("suspension")'
    BY <1>5, <1>6, <1>7, <1>8, <1>9, <1>11 DEF StoppersWait, Waits, over
  <2>3. suspension' = "none" => ~performanceTraceRecording' /\ ~shouldResumePollingOnResume'
    BY <1>8, <1>11 DEF StoppersWait
  <2> QED
    BY <1>6, <2>1, <2>2, <2>3 DEF StoppersWait
<1>16. ASSUME ~crossed' PROVE Settled'
  <2>1. Settled /\ coverageView = "on" /\ OneLoop /\ ~shouldResumePollingOnResume
    BY <1>2, <1>16 DEF Settled, PollsWhileOn, NoLoop, Stopping
  <2>2. "view" \notin S /\ coverageView' = "on"
    BY <1>8, <1>9, <2>1 DEF over
  <2>3. CASE suspension = "none" \/ performanceTraceRecording
    <3>1. again
      BY <2>3 DEF StateTypes, Coverage!goesOn, again
    <3>2. suspension # "pre"
      BY <2>1, <2>3 DEF Settled, PollsWhileOn
    <3>3. S = {}
      BY <1>9, <2>2, <3>2, CoverageFacts DEF S
    <3>4. OneLoop'
      BY <1>1, <1>2, <1>3, <3>1, <3>3 DEF OneLoop
    <3> QED
      BY <1>6, <1>8, <1>11, <2>1, <2>2, <2>3, <3>2, <3>4 DEF Settled, PollsWhileOn
  <2>4. CASE ~(suspension = "none" \/ performanceTraceRecording)
    <3>1. suspension = "pre" /\ Stopping
      BY <1>2, <2>1, <2>4 DEF Settled, PollsWhileOn, NoLoop
    <3>2. suspensionState = "Suspending" /\ awaiting["suspension"] = l
      BY <1>2, <3>1 DEF StateTypes, Stopping, NoLoop
    <3>3. ~again /\ last = {"js"} /\ "suspension" \in S
      BY <2>4, <3>2, CoverageFacts DEF Coverage!goesOn, Coverage!Asks, again, last, S
    <3>4. NoLoop' /\ asked'["suspension"] = {"js"}
      BY <1>1, <1>2, <1>3, <1>7, <3>3 DEF NoLoop
    <3>5. Stopping'
      BY <1>6, <3>4 DEF Stopping
    <3> QED
      BY <1>6, <1>8, <1>11, <2>1, <2>2, <2>4, <3>1, <3>5 DEF Settled, PollsWhileOn
  <2> QED
    BY <2>3, <2>4
<1> QED
  BY <1>12, <1>13, <1>14, <1>15, <1>16

LEMMA AgentAnswers ==
  ASSUME CoverageInv, NEW p \in Coverage!Polls, NEW a \in {"css", "js"}, NEW data \in BOOLEAN,
         Coverage!answered(p, a, data)
  PROVE  CoverageInv'
<1> USE DEF CoverageInv, CoverageGeneral
<1> DEFINE rest == asked[p] \ {a}
           over == IF rest = {} THEN {p} ELSE {}
<1>1. /\ a \in asked[p] /\ backlog' \subseteq {"css", "js"}
      /\ suspensionState' = suspensionState /\ crossed' = crossed
      /\ performanceTraceRecording' = performanceTraceRecording
  BY DEF Coverage!answered, StateTypes
<1>2. CASE rest = {} /\ p \in Loops
  BY <1>1, <1>2, LoopPolled DEF Coverage!answered
<1>3. CASE ~(rest = {} /\ p \in Loops)
  <2>1. /\ asked' = [asked EXCEPT ![p] = rest] /\ Coverage!StopOver(over)
        /\ UNCHANGED <<loop, pollTimer, currentPoll, awaiting>>
    BY <1>3 DEF Coverage!answered
  <2>2. rest \subseteq {"css", "js"}
    BY DEF LoopTypes
  <2>3. /\ coverageView' = (IF "view" \in over THEN "closing" ELSE coverageView)
        /\ suspension' = (IF "suspension" \in over THEN "preDone" ELSE suspension)
        /\ (shouldResumePollingOnResume' <=> shouldResumePollingOnResume \/ "suspension" \in over)
        /\ shouldResumePollingOnResume' \in BOOLEAN
    <3>1. shouldResumePollingOnResume' = (shouldResumePollingOnResume \/ "suspension" \in over)
      BY <2>1 DEF Coverage!StopOver
    <3>2. /\ coverageView' = (IF "view" \in over THEN "closing" ELSE coverageView)
          /\ suspension' = (IF "suspension" \in over THEN "preDone" ELSE suspension)
      BY <2>1 DEF Coverage!StopOver
    <3>3. (shouldResumePollingOnResume' <=> shouldResumePollingOnResume \/ "suspension" \in over)
          /\ shouldResumePollingOnResume' \in BOOLEAN
      <4> HIDE DEF over
      <4> QED
        BY <3>1, Zenon
    <3> QED
      BY <3>2, <3>3
  <2> HIDE DEF rest
  <2>4. /\ asked' \in [Coverage!Polls -> SUBSET {"css", "js"}] /\ asked'[p] = rest
        /\ \A q \in Coverage!Polls : q # p => asked'[q] = asked[q]
    BY <2>1, <2>2 DEF LoopTypes
  <2>5. LoopTypes'
    BY <2>1, <2>4 DEF LoopTypes
  <2>6. LoopsKnown'
    BY <1>1, <1>3, <2>1, <2>4, CoverageFacts DEF LoopsKnown
  <2>7. (NoLoop' <=> NoLoop) /\ (OneLoop' <=> OneLoop)
    BY <2>1 DEF NoLoop, OneLoop
  <2>8. \A s \in {"view", "suspension"} :
          /\ s \in over <=> p = s /\ rest = {}
          /\ awaiting[s] # None => p # s
          /\ p # s => asked'[s] = asked[s]
          /\ p = s => asked'[s] = rest /\ asked[s] # {}
    BY <1>1, <2>4, CoverageFacts DEF StoppersWait
  <2> HIDE DEF over
  <2>9. /\ "view" \in over => coverageView = "stopping"
        /\ "suspension" \in over => suspension = "pre"
    BY <2>8 DEF StoppersWait, Waits
  <2>10. StoppersWait'
    <3>1. coverageView' = "stopping" <=> Waits("view")'
      BY <2>1, <2>3, <2>8 DEF StoppersWait, Waits
    <3>2. suspension' = "pre" <=> Waits("suspension")'
      BY <2>1, <2>3, <2>8 DEF StoppersWait, Waits
    <3>3. suspension' = "none" => ~performanceTraceRecording' /\ ~shouldResumePollingOnResume'
      BY <1>1, <2>3 DEF StoppersWait
    <3>4. \A s \in {"view", "suspension"} :
            awaiting'[s] # None => loop'[awaiting'[s]] = "polling" /\ asked'[s] = {}
      BY <2>1, <2>8 DEF StoppersWait
    <3> QED
      BY <3>1, <3>2, <3>3, <3>4 DEF StoppersWait
  <2>11. StateTypes'
    BY <1>1, <2>3, <2>9 DEF StateTypes
  <2>12. ASSUME ~crossed' PROVE Settled'
    <3>1. Settled
      BY <1>1, <2>12
    <3>2. CASE "view" \in over
      <4>1. suspension = "none" /\ suspension' = "none" /\ coverageView' = "closing"
        BY <2>3, <2>9, <3>1, <3>2 DEF Settled
      <4> QED
        BY <2>1, <2>3, <2>7, <2>9, <3>1, <3>2, <4>1 DEF Settled, PollsWhileOn
    <3>3. CASE "suspension" \in over
      <4>1. suspension = "pre" /\ coverageView = "on" /\ ~performanceTraceRecording
        BY <2>9, <3>1, <3>3 DEF Settled, PollsWhileOn
      <4>2. NoLoop
        BY <2>8, <3>1, <3>3, <4>1 DEF Settled, PollsWhileOn, Stopping
      <4>3. coverageView' = "on"
        BY <2>3, <2>9, <4>1
      <4> QED
        BY <1>1, <2>1, <2>3, <2>7, <3>1, <3>3, <4>1, <4>2, <4>3 DEF Settled, PollsWhileOn
    <3>4. CASE "view" \notin over /\ "suspension" \notin over
      <4>1. /\ coverageView' = coverageView /\ suspension' = suspension
            /\ (shouldResumePollingOnResume' <=> shouldResumePollingOnResume)
        BY <2>3, <3>4
      <4>2. asked'["suspension"] = {} <=> asked["suspension"] = {}
        BY <2>8, <3>4
      <4>3. Stopping => Stopping'
        BY <2>1, <2>7, <4>2 DEF Stopping
      <4> QED
        BY <1>1, <2>1, <2>7, <3>1, <4>1, <4>3 DEF Settled, PollsWhileOn
    <3> QED
      BY <3>2, <3>3, <3>4
  <2> QED
    BY <2>5, <2>6, <2>10, <2>11, <2>12
<1> QED
  BY <1>2, <1>3

LEMMA CoverageStep ==
  ASSUME CoverageInv, [Coverage!Next]_(Coverage!vars)
  PROVE  CoverageInv'
<1>1. CASE UNCHANGED Coverage!vars
  <2>1. /\ coverageView' = coverageView /\ suspension' = suspension
        /\ suspensionState' = suspensionState
        /\ performanceTraceRecording' = performanceTraceRecording
        /\ shouldResumePollingOnResume' = shouldResumePollingOnResume /\ crossed' = crossed
        /\ UNCHANGED <<loop, pollTimer, currentPoll, asked, awaiting>> /\ backlog' = backlog
    BY <1>1 DEF Coverage!vars
  <2>2. StateTypes'
    BY <2>1 DEF CoverageInv, CoverageGeneral, StateTypes
  <2>3. StoppersWait'
    BY <2>1, SamePolls DEF CoverageInv, CoverageGeneral, StoppersWait
  <2>4. ~crossed' => Settled'
    BY <2>1, SamePolls DEF CoverageInv, Settled, PollsWhileOn
  <2> QED
    BY <2>1, <2>2, <2>3, <2>4, SamePolls DEF CoverageInv, CoverageGeneral
<1> QED
  BY <1>1, ViewMoves, CoverageStops, SuspensionBegins, ModelSuspends, ModelResumes, TimerFires,
     AgentAnswers DEF Coverage!Next

(* A poll that ends in a suspended target is one of a recorded trace.      *)
LEMMA PollEnds ==
  ASSUME CoverageInv, [Coverage!Next]_(Coverage!vars)
  PROVE  [\A p \in Coverage!Polls : ~crossed /\ asked[p] # {} /\ asked'[p] = {} =>
            suspensionState # "Suspended" \/ performanceTraceRecording]_(Coverage!vars)
<1> USE DEF CoverageInv, CoverageGeneral
<1> SUFFICES ASSUME NEW p \in Coverage!Polls, ~crossed, asked[p] # {}
             PROVE  suspensionState # "Suspended" \/ performanceTraceRecording
  OBVIOUS
<1>1. CASE p \in Loops
  <2>1. loop[p] = "polling"
    BY <1>1 DEF LoopsKnown
  <2> QED
    BY <1>1, <2>1 DEF StateTypes, Settled, PollsWhileOn, NoLoop
<1>2. CASE p = "view"
  BY <1>2 DEF StateTypes, StoppersWait, Waits, Settled
<1>3. CASE p = "suspension"
  BY <1>3 DEF StateTypes, StoppersWait, Waits
<1> QED
  BY <1>1, <1>2, <1>3, CoverageFacts

LEMMA CoverageHolds ==
  ASSUME CoverageInv
  PROVE  /\ Coverage!TypeOK /\ Coverage!AtMostOneLoop
         /\ Coverage!OneLoopWhileRecording /\ Coverage!LastPollIsLast
<1> USE DEF CoverageInv, CoverageGeneral
<1>1. Coverage!TypeOK
  <2>1. \A l \in Loops : (loop[l] = "polling") = (asked[l] # {})
    BY DEF LoopsKnown
  <2>2. suspensionState \in {"Active", "Suspending", "Suspended"}
    BY DEF StateTypes
  <2>3. /\ performanceTraceRecording \in BOOLEAN /\ shouldResumePollingOnResume \in BOOLEAN
        /\ crossed \in BOOLEAN
    BY DEF StateTypes
  <2>4. coverageView = "stopping" <=> asked["view"] # {} \/ awaiting["view"] # None
    BY DEF StoppersWait, Waits
  <2> QED
    BY <2>1, <2>2, <2>3, <2>4 DEF Coverage!TypeOK, LoopTypes, StateTypes
<1>2. Coverage!OneLoopWhileRecording
  <2>1. ASSUME coverageView = "on", suspension = "none", ~crossed
        PROVE  Coverage!Alive = {currentPoll} /\ currentPoll \in Loops
    BY <2>1 DEF Settled, PollsWhileOn, OneLoop, Coverage!Alive
  <2> QED
    BY <2>1 DEF Coverage!OneLoopWhileRecording
<1>3. Coverage!LastPollIsLast
  BY DEF Settled, PollsWhileOn, NoLoop, Coverage!LastPollIsLast, Coverage!Alive
<1>4. Coverage!AtMostOneLoop
  BY DEF LoopsKnown, Coverage!AtMostOneLoop, Coverage!Alive
<1> QED
  BY <1>1, <1>2, <1>3, <1>4

(* Whatever stops, suspensions, navigations and polls meet, coverage never *)
(* polls in two loops; and since polling began and until a stop meets a    *)
(* poll or a suspension it polls in one loop while it records and in none  *)
(* after its last poll, and no poll ends in a suspended target             *)
(* (CoverageModel.ts:109 to 213).                                          *)
THEOREM CoverageAlwaysPolls == PanelsSpec => CoveragePolls
<1>1. PanelsInit => CoverageInv
  BY InitCoverage DEF PanelsInit
<1>2. [PanelsNext]_<<part, vars, coverageVars, socketVars>> => [Coverage!Next]_(Coverage!vars)
  BY DEF PanelsNext, coverageVars, Coverage!vars
<1>3. CoverageInv /\ [PanelsNext]_<<part, vars, coverageVars, socketVars>> => CoverageInv'
  BY <1>2, CoverageStep
<1>4. CoverageInv =>
        /\ Coverage!TypeOK /\ Coverage!AtMostOneLoop
        /\ Coverage!OneLoopWhileRecording /\ Coverage!LastPollIsLast
  BY CoverageHolds
<1>5. CoverageInv /\ [Coverage!Next]_(Coverage!vars) =>
        [\A p \in Coverage!Polls : ~crossed /\ asked[p] # {} /\ asked'[p] = {} =>
           suspensionState # "Suspended" \/ performanceTraceRecording]_(Coverage!vars)
  BY PollEnds
<1>6. PanelsSpec => /\ [](Coverage!TypeOK /\ Coverage!AtMostOneLoop)
                    /\ [](Coverage!OneLoopWhileRecording /\ Coverage!LastPollIsLast)
  BY <1>1, <1>3, <1>4, PTL DEF PanelsSpec
<1>7. PanelsSpec => Coverage!PollsEndUnlessCrossed
  BY <1>1, <1>2, <1>3, <1>5, PTL DEF PanelsSpec, Coverage!PollsEndUnlessCrossed
<1> QED
  BY <1>6, <1>7 DEF CoveragePolls

-----------------------------------------------------------------------------
(* Types, without the bounds of the checked instances.                     *)
SocketEvents == [type : {"open", "message", "error", "close"}, n : Nat]
SocketTypes ==
  /\ hasSocket \in BOOLEAN /\ connected \in BOOLEAN
  /\ onerror \in {"onError", "console", "none"}
  /\ onclose \in {"onClose", "callback", "none"}
  /\ readyState \in {"connecting", "open", "closing", "closed"}
  /\ messages \in Seq(Nat) /\ toBackend \in Seq(Nat)
  /\ arrived \in Seq(Nat) /\ heard \in Seq(Nat)
  /\ events \in Seq(SocketEvents)
  /\ sent \in Nat /\ posted \in Nat /\ told \in Nat

(* The handlers are there while the socket is, which nobody was told is    *)
(* gone; the callback of disconnect comes after them.                      *)
HandlersFit ==
  /\ listening = hasSocket
  /\ hasSocket => onclose = "onClose" /\ told = 0
  /\ ~hasSocket => onclose # "onClose" /\ onerror = "none" /\ readyState \in {"closing", "closed"}
  /\ onclose # "callback" => told = IF hasSocket THEN 0 ELSE 1

(* The events come in this order: open, messages, error, close; and the    *)
(* socket is closed when the last one comes.                               *)
EventsInOrder ==
  /\ readyState = "connecting" => events = << >> /\ toBackend = << >> /\ posted = 0
  /\ readyState = "closed" => toBackend = << >>
  /\ \A i \in 1..Len(events) :
       /\ events[i].type = "open" => i = 1
       /\ events[i].type \in {"error", "close"} => readyState = "closed"
       /\ events[i].type = "close" => i = Len(events)
       /\ events[i].type = "error" => i = Len(events) - 1 /\ events[Len(events)].type = "close"

(* When the owner was told by the callback, no close event is left.        *)
ToldOnce ==
  told > 0 =>
    /\ told = 1 /\ ~hasSocket /\ readyState = "closed"
    /\ onclose = "callback" => \A i \in 1..Len(events) : events[i].type # "close"

(* What arrived, what is on its way and what is kept is numbered through.  *)
OnItsWay ==
  /\ \A i \in 1..Len(arrived) : arrived[i] = i
  /\ \A i \in 1..Len(toBackend) : toBackend[i] = Len(arrived) + i
  /\ Len(arrived) + Len(toBackend) <= sent
KeptInOrder ==
  /\ connected /\ hasSocket => messages = << >> /\ readyState # "connecting"
  /\ readyState \in {"connecting", "open"} =>
       /\ \A i \in 1..Len(messages) : messages[i] = Len(arrived) + Len(toBackend) + i
       /\ Len(arrived) + Len(toBackend) + Len(messages) = sent

(* So is what was heard and what is among the events.                      *)
OpeningEvent == IF events # << >> /\ events[1].type = "open" THEN 1 ELSE 0
OnItsWayBack ==
  listening =>
    /\ \A i \in 1..Len(heard) : heard[i] = i
    /\ \A i \in 1..Len(events) :
         events[i].type = "message" => events[i].n = Len(heard) + i - OpeningEvent
    /\ readyState # "closed" => posted = Len(heard) + Len(events) - OpeningEvent

SocketInv == SocketTypes /\ HandlersFit /\ EventsInOrder /\ ToldOnce /\ OnItsWay
    /\ KeptInOrder /\ OnItsWayBack

-----------------------------------------------------------------------------
LEMMA Tails ==
  ASSUME NEW S, NEW s \in Seq(S), s # << >>
  PROVE  /\ Tail(s) \in Seq(S) /\ Len(s) \in Nat \ {0} /\ Len(Tail(s)) = Len(s) - 1
         /\ \A i \in 1..(Len(s) - 1) : Tail(s)[i] = s[i + 1]
         /\ Head(s) = s[1] /\ Head(s) \in S
  OBVIOUS

LEMMA Appended ==
  ASSUME NEW S, NEW s \in Seq(S), NEW e \in S
  PROVE  /\ Append(s, e) \in Seq(S) /\ Len(s) \in Nat /\ Len(Append(s, e)) = Len(s) + 1
         /\ \A i \in 1..Len(s) : Append(s, e)[i] = s[i]
         /\ Append(s, e)[Len(s) + 1] = e /\ Append(s, e) # << >>
  OBVIOUS

LEMMA Joined ==
  ASSUME NEW S, NEW s \in Seq(S), NEW r \in Seq(S)
  PROVE  /\ s \o r \in Seq(S) /\ Len(s) \in Nat /\ Len(r) \in Nat /\ Len(s \o r) = Len(s) + Len(r)
         /\ \A i \in 1..Len(s) : (s \o r)[i] = s[i]
         /\ \A i \in 1..Len(r) : (s \o r)[Len(s) + i] = r[i]
  OBVIOUS

LEMMA SendInv == ASSUME SocketInv, Socket!sendRawMessage PROVE SocketInv'
<1>1. /\ sent' = sent + 1
      /\ IF Socket!sendsNow
         THEN /\ toBackend' = IF readyState = "open"
                             THEN Append(toBackend, sent + 1) ELSE toBackend
              /\ UNCHANGED messages
         ELSE messages' = Append(messages, sent + 1) /\ UNCHANGED toBackend
      /\ UNCHANGED <<hasSocket, listening, onerror, onclose, connected, readyState, events,
                     arrived, posted, heard, told>>
  BY DEF Socket!sendRawMessage, Socket!handlers
<1>2. sent \in Nat /\ sent + 1 \in Nat /\ toBackend \in Seq(Nat) /\ messages \in Seq(Nat) /\ arrived \in Seq(Nat)
  BY DEF SocketInv, SocketTypes
<1>3. /\ Append(toBackend, sent + 1) \in Seq(Nat) /\ Len(toBackend) \in Nat
      /\ Len(Append(toBackend, sent + 1)) = Len(toBackend) + 1
      /\ \A i \in 1..Len(toBackend) : Append(toBackend, sent + 1)[i] = toBackend[i]
      /\ Append(toBackend, sent + 1)[Len(toBackend) + 1] = sent + 1
  BY <1>2, Appended
<1>4. /\ Append(messages, sent + 1) \in Seq(Nat) /\ Len(messages) \in Nat
      /\ Len(Append(messages, sent + 1)) = Len(messages) + 1
      /\ \A i \in 1..Len(messages) : Append(messages, sent + 1)[i] = messages[i]
      /\ Append(messages, sent + 1)[Len(messages) + 1] = sent + 1
  BY <1>2, Appended
<1>5. Len(arrived) \in Nat
  BY <1>2
<1>6. SocketTypes'
  BY <1>1, <1>2, <1>3, <1>4 DEF SocketInv, SocketTypes
<1>7. HandlersFit' /\ ToldOnce' /\ OnItsWayBack'
  BY <1>1 DEF SocketInv, HandlersFit, ToldOnce, OnItsWayBack, OpeningEvent
<1>8. EventsInOrder'
  <2>1. readyState # "open" => toBackend' = toBackend
    BY <1>1
  <2> QED
    BY <1>1, <2>1 DEF SocketInv, EventsInOrder
<1>9. OnItsWay' /\ KeptInOrder'
  <2>1. CASE Socket!sendsNow /\ readyState = "open"
    <3>1. /\ toBackend' = Append(toBackend, sent + 1) /\ messages' = messages
          /\ messages = << >> /\ Len(messages) = 0
      BY <1>1, <2>1 DEF SocketInv, KeptInOrder, Socket!sendsNow
    <3>2. Len(arrived) + Len(toBackend) = sent
      BY <1>3, <1>5, <2>1, <3>1 DEF SocketInv, KeptInOrder
    <3>3. OnItsWay'
      BY <1>1, <1>2, <1>3, <1>5, <3>1, <3>2 DEF SocketInv, OnItsWay
    <3>4. KeptInOrder'
      BY <1>1, <1>3, <1>5, <2>1, <3>1, <3>2 DEF KeptInOrder
    <3> QED
      BY <3>3, <3>4
  <2>2. CASE Socket!sendsNow /\ readyState # "open"
    <3>1. toBackend' = toBackend /\ messages' = messages
          /\ readyState \notin {"connecting", "open"} /\ messages = << >>
      BY <1>1, <2>2 DEF SocketInv, KeptInOrder, Socket!sendsNow
    <3>2. OnItsWay'
      BY <1>1, <1>2, <1>3, <1>5, <3>1 DEF SocketInv, OnItsWay
    <3> QED
      BY <1>1, <3>1, <3>2 DEF KeptInOrder
  <2>3. CASE ~Socket!sendsNow
    <3>1. toBackend' = toBackend /\ messages' = Append(messages, sent + 1) /\ ~(connected /\ hasSocket)
      BY <1>1, <2>3 DEF Socket!sendsNow
    <3>2. OnItsWay'
      BY <1>1, <1>2, <1>3, <1>5, <3>1 DEF SocketInv, OnItsWay
    <3>3. ASSUME readyState \in {"connecting", "open"}
          PROVE  /\ \A i \in 1..(Len(messages) + 1) :
                      Append(messages, sent + 1)[i] = Len(arrived) + Len(toBackend) + i
                 /\ Len(arrived) + Len(toBackend) + (Len(messages) + 1) = sent + 1
      <4>1. /\ \A i \in 1..Len(messages) : messages[i] = Len(arrived) + Len(toBackend) + i
            /\ Len(arrived) + Len(toBackend) + Len(messages) = sent
        BY <3>3 DEF SocketInv, KeptInOrder
      <4>2. \A i \in 1..(Len(messages) + 1) : i \in 1..Len(messages) \/ i = Len(messages) + 1
        BY <1>4
      <4> QED
        BY <1>2, <1>3, <1>4, <1>5, <4>1, <4>2
    <3>4. KeptInOrder'
      BY <1>1, <1>4, <3>1, <3>3 DEF KeptInOrder
    <3> QED
      BY <3>2, <3>4
  <2> QED
    BY <2>1, <2>2, <2>3
<1> QED
  BY <1>6, <1>7, <1>8, <1>9 DEF SocketInv

LEMMA DisconnectInv == ASSUME SocketInv, Socket!disconnect PROVE SocketInv'
<1>1. /\ IF hasSocket
         THEN /\ hasSocket' = FALSE /\ listening' = FALSE /\ onerror' = "none" /\ onclose' = "callback"
              /\ readyState' = IF readyState = "closed" THEN "closed" ELSE "closing"
         ELSE UNCHANGED <<hasSocket, listening, onerror, onclose, readyState>>
      /\ UNCHANGED <<connected, messages, events, toBackend, sent, arrived, posted, heard, told>>
  BY DEF Socket!disconnect, Socket!close, Socket!callbackSet, Socket!handlers
<1>2. CASE ~hasSocket
  BY <1>1, <1>2 DEF SocketInv, SocketTypes, HandlersFit, EventsInOrder, ToldOnce, OnItsWay,
     KeptInOrder, OnItsWayBack, OpeningEvent
<1>3. CASE hasSocket
  <2>1. SocketTypes' /\ HandlersFit' /\ OnItsWay' /\ KeptInOrder'
    BY <1>1, <1>3 DEF SocketInv, SocketTypes, HandlersFit, OnItsWay, KeptInOrder
  <2>2. EventsInOrder' /\ OnItsWayBack'
    BY <1>1, <1>3 DEF SocketInv, EventsInOrder, OnItsWayBack
  <2>3. told' = 0
    BY <1>1, <1>3 DEF SocketInv, HandlersFit
  <2> QED
    BY <2>1, <2>2, <2>3 DEF SocketInv, ToldOnce
<1> QED
  BY <1>2, <1>3

LEMMA OpensInv == ASSUME SocketInv, Socket!socketOpens PROVE SocketInv'
<1>1. /\ readyState = "connecting" /\ readyState' = "open"
      /\ events' = Append(events, Socket!Event("open", 0))
      /\ UNCHANGED <<hasSocket, listening, onerror, onclose, connected, messages, toBackend, sent,
                     arrived, posted, heard, told>>
  BY DEF Socket!socketOpens, Socket!handlers
<1>2. events = << >> /\ posted = 0 /\ toBackend = << >>
  BY <1>1 DEF SocketInv, EventsInOrder
<1>3. Socket!Event("open", 0) \in SocketEvents /\ Socket!Event("open", 0).type = "open"
  BY DEF Socket!Event, SocketEvents
<1> HIDE DEF Socket!Event
<1>4. /\ events' \in Seq(SocketEvents) /\ events' # << >> /\ Len(events') = 1
      /\ events'[1].type = "open" /\ Len(events) = 0
  BY <1>1, <1>2, <1>3, Appended
<1>5. SocketTypes'
  BY <1>1, <1>4 DEF SocketInv, SocketTypes
<1>6. hasSocket /\ listening /\ told = 0 /\ ~connected
  BY <1>1 DEF SocketInv, HandlersFit, SocketTypes, KeptInOrder
<1>7. HandlersFit' /\ ToldOnce' /\ OnItsWay' /\ KeptInOrder'
  BY <1>1, <1>6 DEF SocketInv, HandlersFit, ToldOnce, OnItsWay, KeptInOrder
<1>8. EventsInOrder'
  BY <1>1, <1>4 DEF EventsInOrder
<1>9. OnItsWayBack'
  <2>1. /\ \A i \in 1..Len(heard) : heard[i] = i
        /\ posted = Len(heard) + 0 - 0 /\ Len(heard) \in Nat
    BY <1>1, <1>2, <1>4, <1>6 DEF SocketInv, OnItsWayBack, OpeningEvent, SocketTypes
  <2> QED
    BY <1>1, <1>4, <2>1 DEF OnItsWayBack, OpeningEvent
<1> QED
  BY <1>5, <1>7, <1>8, <1>9 DEF SocketInv

LEMMA FailsInv == ASSUME SocketInv, Socket!socketFails PROVE SocketInv'
<1> DEFINE e == Socket!Event("error", 0)
           c == Socket!Event("close", 0)
<1>1. /\ readyState \in {"connecting", "open"} /\ readyState' = "closed"
      /\ events' = events \o <<e, c>> /\ toBackend' = << >>
      /\ UNCHANGED <<hasSocket, listening, onerror, onclose, connected, messages, sent,
                     arrived, posted, heard, told>>
  BY DEF Socket!socketFails, Socket!handlers
<1>2. <<e, c>> \in Seq(SocketEvents) /\ e.type = "error" /\ c.type = "close"
  BY DEF Socket!Event, SocketEvents
<1> HIDE DEF e, c
<1>3. /\ Len(<<e, c>>) = 2 /\ <<e, c>>[1] = e /\ <<e, c>>[2] = c /\ events \in Seq(SocketEvents)
  BY DEF SocketInv, SocketTypes
<1>4. /\ events' \in Seq(SocketEvents) /\ Len(events) \in Nat /\ Len(events') = Len(events) + 2
      /\ \A i \in 1..Len(events) : events'[i] = events[i]
      /\ events'[Len(events) + 1].type = "error" /\ events'[Len(events) + 2].type = "close"
  <2>1. /\ events \o <<e, c>> \in Seq(SocketEvents) /\ Len(events) \in Nat
        /\ Len(events \o <<e, c>>) = Len(events) + Len(<<e, c>>)
        /\ \A i \in 1..Len(events) : (events \o <<e, c>>)[i] = events[i]
        /\ \A i \in 1..Len(<<e, c>>) : (events \o <<e, c>>)[Len(events) + i] = <<e, c>>[i]
    BY <1>2, <1>3, Joined
  <2>2. (events \o <<e, c>>)[Len(events) + 1] = e /\ (events \o <<e, c>>)[Len(events) + 2] = c
    BY <1>3, <2>1
  <2> QED
    BY <1>1, <1>2, <1>3, <2>1, <2>2
<1>5. hasSocket /\ listening /\ told = 0
  BY <1>1 DEF SocketInv, HandlersFit, SocketTypes
<1>6. \A i \in 1..Len(events) : events[i].type \in {"open", "message"} /\ (events[i].type = "open" => i = 1)
  <2> SUFFICES ASSUME NEW i \in 1..Len(events)
               PROVE  events[i].type \in {"open", "message"} /\ (events[i].type = "open" => i = 1)
    OBVIOUS
  <2>1. events[i] \in SocketEvents
    BY <1>3
  <2> QED
    BY <1>1, <2>1 DEF SocketInv, EventsInOrder, SocketEvents
<1>7. \A i \in 1..(Len(events) + 2) : i \in 1..Len(events) \/ i = Len(events) + 1 \/ i = Len(events) + 2
  BY <1>4
<1>8. SocketTypes'
  BY <1>1, <1>4 DEF SocketInv, SocketTypes
<1>9. HandlersFit' /\ ToldOnce'
  BY <1>1, <1>5 DEF SocketInv, HandlersFit, ToldOnce
<1>10. OnItsWay' /\ KeptInOrder'
  <2>1. Len(toBackend') = 0 /\ Len(toBackend) \in Nat /\ Len(arrived) \in Nat /\ sent \in Nat
    BY <1>1 DEF SocketInv, SocketTypes
  <2> QED
    BY <1>1, <2>1 DEF SocketInv, OnItsWay, KeptInOrder
<1>11. EventsInOrder'
  <2>1. \A i \in 1..Len(events') :
          /\ events'[i].type = "open" => i = 1
          /\ events'[i].type = "close" => i = Len(events')
          /\ events'[i].type = "error" => i = Len(events') - 1 /\ events'[Len(events')].type = "close"
    <3> SUFFICES ASSUME NEW i \in 1..Len(events')
                 PROVE  /\ events'[i].type = "open" => i = 1
                        /\ events'[i].type = "close" => i = Len(events')
                        /\ events'[i].type = "error" =>
                             i = Len(events') - 1 /\ events'[Len(events')].type = "close"
      OBVIOUS
    <3>1. CASE i \in 1..Len(events)
      BY <1>4, <1>6, <3>1
    <3>2. CASE i = Len(events) + 1
      BY <1>4, <3>2
    <3>3. CASE i = Len(events) + 2
      BY <1>4, <3>3
    <3> QED
      BY <1>4, <1>7, <3>1, <3>2, <3>3
  <2> QED
    BY <1>1, <2>1 DEF EventsInOrder
<1>12. OnItsWayBack'
  <2>1. OpeningEvent' = OpeningEvent
    <3>1. CASE events = << >>
      <4>1. events'[1].type = "error"
        BY <1>4, <3>1
      <4> QED
        BY <3>1, <4>1 DEF OpeningEvent
    <3>2. CASE events # << >>
      <4>1. 1 \in 1..Len(events) /\ events' # << >>
        BY <1>3, <1>4, <3>2
      <4> QED
        BY <1>4, <3>2, <4>1 DEF OpeningEvent
    <3> QED
      BY <3>1, <3>2
  <2>2. \A i \in 1..Len(events') : events'[i].type = "message" => i \in 1..Len(events)
    BY <1>4, <1>7
  <2> QED
    BY <1>1, <1>4, <1>5, <2>1, <2>2 DEF SocketInv, OnItsWayBack
<1> QED
  BY <1>8, <1>9, <1>10, <1>11, <1>12 DEF SocketInv

(* An event e is appended that is no open event.                           *)
LEMMA EventAppended ==
  ASSUME SocketInv, NEW e \in SocketEvents, events' = Append(events, e), e.type # "open"
  PROVE  /\ events' \in Seq(SocketEvents) /\ Len(events) \in Nat /\ Len(events') = Len(events) + 1
         /\ \A i \in 1..Len(events) : events'[i] = events[i]
         /\ events'[Len(events) + 1] = e
         /\ \A i \in 1..(Len(events) + 1) : i \in 1..Len(events) \/ i = Len(events) + 1
         /\ OpeningEvent' = OpeningEvent
<1>1. events \in Seq(SocketEvents)
  BY DEF SocketInv, SocketTypes
<1>2. /\ events' \in Seq(SocketEvents) /\ Len(events) \in Nat /\ Len(events') = Len(events) + 1
      /\ \A i \in 1..Len(events) : events'[i] = events[i]
      /\ events'[Len(events) + 1] = e /\ events' # << >>
  BY <1>1, Appended
<1>3. OpeningEvent' = OpeningEvent
  <2>1. CASE events = << >>
    BY <1>1, <1>2, <2>1 DEF OpeningEvent
  <2>2. CASE events # << >>
    <3>1. 1 \in 1..Len(events)
      BY <1>1, <2>2
    <3> QED
      BY <1>2, <2>2, <3>1 DEF OpeningEvent
  <2> QED
    BY <2>1, <2>2
<1> QED
  BY <1>2, <1>3

LEMMA ClosesInv == ASSUME SocketInv, Socket!socketCloses PROVE SocketInv'
<1> DEFINE c == Socket!Event("close", 0)
<1>1. /\ readyState \in {"open", "closing"} /\ readyState' = "closed" /\ toBackend = << >>
      /\ events' = Append(events, c)
      /\ UNCHANGED <<hasSocket, listening, onerror, onclose, connected, messages, toBackend, sent,
                     arrived, posted, heard, told>>
  BY DEF Socket!socketCloses, Socket!handlers
<1>2. c \in SocketEvents /\ c.type = "close"
  BY DEF Socket!Event, SocketEvents
<1> HIDE DEF c
<1>3. /\ events' \in Seq(SocketEvents) /\ Len(events) \in Nat /\ Len(events') = Len(events) + 1
      /\ \A i \in 1..Len(events) : events'[i] = events[i]
      /\ events'[Len(events) + 1] = c
      /\ \A i \in 1..(Len(events) + 1) : i \in 1..Len(events) \/ i = Len(events) + 1
      /\ OpeningEvent' = OpeningEvent
  BY <1>1, <1>2, EventAppended
<1>4. told = 0
  BY <1>1 DEF SocketInv, ToldOnce, SocketTypes
<1>5. \A i \in 1..Len(events) : events[i].type \notin {"error", "close"} /\ (events[i].type = "open" => i = 1)
  BY <1>1 DEF SocketInv, EventsInOrder
<1>6. SocketTypes'
  BY <1>1, <1>3 DEF SocketInv, SocketTypes
<1>7. HandlersFit' /\ ToldOnce' /\ OnItsWay' /\ KeptInOrder'
  BY <1>1, <1>4 DEF SocketInv, HandlersFit, ToldOnce, OnItsWay, KeptInOrder
<1>8. EventsInOrder'
  <2>1. \A i \in 1..Len(events') :
          /\ events'[i].type = "open" => i = 1
          /\ events'[i].type # "error"
          /\ events'[i].type = "close" => i = Len(events')
    BY <1>2, <1>3, <1>5
  <2> QED
    BY <1>1, <2>1 DEF EventsInOrder
<1>9. OnItsWayBack'
  <2>1. \A i \in 1..Len(events') : events'[i].type = "message" => i \in 1..Len(events)
    BY <1>2, <1>3
  <2> QED
    BY <1>1, <1>3, <2>1 DEF SocketInv, OnItsWayBack
<1> QED
  BY <1>6, <1>7, <1>8, <1>9 DEF SocketInv

LEMMA PostsInv == ASSUME SocketInv, Socket!backendPosts PROVE SocketInv'
<1> DEFINE m == Socket!Event("message", posted + 1)
<1>1. /\ readyState = "open" /\ posted' = posted + 1
      /\ events' = Append(events, m)
      /\ UNCHANGED <<hasSocket, listening, onerror, onclose, connected, messages, toBackend, sent,
                     arrived, readyState, heard, told>>
  BY DEF Socket!backendPosts, Socket!handlers
<1>2. posted \in Nat /\ heard \in Seq(Nat) /\ Len(heard) \in Nat
  BY DEF SocketInv, SocketTypes
<1>3. m \in SocketEvents /\ m.type = "message" /\ m.n = posted + 1
  BY <1>2 DEF Socket!Event, SocketEvents
<1> HIDE DEF m
<1>4. /\ events' \in Seq(SocketEvents) /\ Len(events) \in Nat /\ Len(events') = Len(events) + 1
      /\ \A i \in 1..Len(events) : events'[i] = events[i]
      /\ events'[Len(events) + 1] = m
      /\ \A i \in 1..(Len(events) + 1) : i \in 1..Len(events) \/ i = Len(events) + 1
      /\ OpeningEvent' = OpeningEvent
  BY <1>1, <1>3, EventAppended
<1>5. \A i \in 1..Len(events) : events[i].type \notin {"error", "close"} /\ (events[i].type = "open" => i = 1)
  BY <1>1 DEF SocketInv, EventsInOrder
<1>6. hasSocket /\ listening /\ told = 0
  BY <1>1 DEF SocketInv, HandlersFit, SocketTypes
<1>7. SocketTypes'
  BY <1>1, <1>2, <1>4 DEF SocketInv, SocketTypes
<1>8. HandlersFit' /\ ToldOnce' /\ OnItsWay' /\ KeptInOrder'
  BY <1>1, <1>6 DEF SocketInv, HandlersFit, ToldOnce, OnItsWay, KeptInOrder
<1>9. EventsInOrder'
  <2>1. \A i \in 1..Len(events') :
          events'[i].type \notin {"error", "close"} /\ (events'[i].type = "open" => i = 1)
    BY <1>3, <1>4, <1>5
  <2> QED
    BY <1>1, <2>1 DEF SocketInv, EventsInOrder
<1>10. OnItsWayBack'
  <2>1. /\ \A i \in 1..Len(heard) : heard[i] = i
        /\ \A i \in 1..Len(events) :
             events[i].type = "message" => events[i].n = Len(heard) + i - OpeningEvent
        /\ posted = Len(heard) + Len(events) - OpeningEvent
    BY <1>1, <1>6 DEF SocketInv, OnItsWayBack
  <2>2. OpeningEvent \in {0, 1}
    BY DEF OpeningEvent
  <2>3. \A i \in 1..Len(events') :
          events'[i].type = "message" => events'[i].n = Len(heard) + i - OpeningEvent
    <3> SUFFICES ASSUME NEW i \in 1..Len(events'), events'[i].type = "message"
                 PROVE  events'[i].n = Len(heard) + i - OpeningEvent
      OBVIOUS
    <3>1. CASE i \in 1..Len(events)
      BY <1>4, <2>1, <3>1
    <3>2. CASE i = Len(events) + 1
      <4>1. events'[i].n = posted + 1
        BY <1>3, <1>4, <3>2
      <4> QED
        BY <1>2, <1>4, <2>1, <2>2, <3>2, <4>1
    <3> QED
      BY <1>4, <3>1, <3>2
  <2>4. posted' = Len(heard) + Len(events') - OpeningEvent
    BY <1>1, <1>2, <1>4, <2>1, <2>2
  <2> QED
    BY <1>1, <1>4, <2>1, <2>3, <2>4 DEF OnItsWayBack
<1> QED
  BY <1>7, <1>8, <1>9, <1>10 DEF SocketInv

LEMMA ReceivesInv == ASSUME SocketInv, Socket!backendReceives PROVE SocketInv'
<1>1. /\ toBackend # << >> /\ arrived' = Append(arrived, Head(toBackend)) /\ toBackend' = Tail(toBackend)
      /\ UNCHANGED <<hasSocket, listening, onerror, onclose, connected, messages, readyState, events,
                     sent, posted, heard, told>>
  BY DEF Socket!backendReceives, Socket!handlers
<1>2. /\ toBackend \in Seq(Nat) /\ arrived \in Seq(Nat) /\ messages \in Seq(Nat) /\ Len(messages) \in Nat
      /\ sent \in Nat
  BY DEF SocketInv, SocketTypes
<1>3. /\ toBackend' \in Seq(Nat) /\ Len(toBackend) \in Nat \ {0} /\ Len(toBackend') = Len(toBackend) - 1
      /\ \A i \in 1..(Len(toBackend) - 1) : toBackend'[i] = toBackend[i + 1]
      /\ Head(toBackend) = toBackend[1] /\ Head(toBackend) \in Nat
  BY <1>1, <1>2, Tails
<1>4. /\ arrived' \in Seq(Nat) /\ Len(arrived) \in Nat /\ Len(arrived') = Len(arrived) + 1
      /\ \A i \in 1..Len(arrived) : arrived'[i] = arrived[i]
      /\ arrived'[Len(arrived) + 1] = toBackend[1]
  BY <1>1, <1>2, <1>3, Appended
<1>5. /\ \A i \in 1..Len(arrived) : arrived[i] = i
      /\ \A i \in 1..Len(toBackend) : toBackend[i] = Len(arrived) + i
      /\ Len(arrived) + Len(toBackend) <= sent
  BY DEF SocketInv, OnItsWay
<1>6. SocketTypes'
  BY <1>1, <1>3, <1>4 DEF SocketInv, SocketTypes
<1>7. HandlersFit' /\ ToldOnce' /\ OnItsWayBack'
  BY <1>1 DEF SocketInv, HandlersFit, ToldOnce, OnItsWayBack, OpeningEvent
<1>8. EventsInOrder'
  BY <1>1 DEF SocketInv, EventsInOrder
<1>9. OnItsWay'
  <2>1. ASSUME NEW i \in 1..Len(arrived') PROVE arrived'[i] = i
    <3>1. 1 \in 1..Len(toBackend) /\ toBackend[1] = Len(arrived) + 1
      BY <1>3, <1>5
    <3> QED
      BY <1>4, <1>5, <3>1
  <2>2. ASSUME NEW i \in 1..Len(toBackend') PROVE toBackend'[i] = Len(arrived') + i
    <3>1. i + 1 \in 1..Len(toBackend) /\ i \in 1..(Len(toBackend) - 1)
      BY <1>3
    <3> QED
      BY <1>3, <1>4, <1>5, <3>1
  <2>3. Len(arrived') + Len(toBackend') <= sent'
    BY <1>1, <1>2, <1>3, <1>4, <1>5
  <2> QED
    BY <2>1, <2>2, <2>3 DEF OnItsWay
<1>10. KeptInOrder'
  <2>1. Len(arrived') + Len(toBackend') = Len(arrived) + Len(toBackend)
    BY <1>3, <1>4
  <2> QED
    BY <1>1, <2>1 DEF SocketInv, KeptInOrder
<1> QED
  BY <1>6, <1>7, <1>8, <1>9, <1>10 DEF SocketInv

(* A handler takes the first event.                                        *)
LEMMA EventHandled ==
  ASSUME SocketInv, NEW type, Socket!Handle(type)
  PROVE  /\ events \in Seq(SocketEvents) /\ events' \in Seq(SocketEvents)
         /\ Len(events) \in Nat \ {0} /\ Len(events') = Len(events) - 1
         /\ \A i \in 1..Len(events') : i + 1 \in 1..Len(events) /\ events'[i] = events[i + 1]
         /\ events[1].type = type /\ 1 \in 1..Len(events)
         /\ Head(events) = events[1] /\ Head(events) \in SocketEvents
         /\ OpeningEvent' = 0
         /\ OpeningEvent = IF type = "open" THEN 1 ELSE 0
<1>1. events \in Seq(SocketEvents) /\ events # << >> /\ Head(events).type = type /\ events' = Tail(events)
  BY DEF SocketInv, SocketTypes, Socket!Handle
<1>2. /\ events' \in Seq(SocketEvents) /\ Len(events) \in Nat \ {0} /\ Len(events') = Len(events) - 1
      /\ \A i \in 1..(Len(events) - 1) : events'[i] = events[i + 1]
      /\ Head(events) = events[1] /\ Head(events) \in SocketEvents
  BY <1>1, Tails
<1>3. events' # << >> => events'[1].type # "open"
  <2> SUFFICES ASSUME events' # << >> PROVE events'[1].type # "open"
    OBVIOUS
  <2>1. Len(events') # 0
    BY <1>2
  <2>2. 2 \in 1..Len(events) /\ events'[1] = events[2]
    BY <1>2, <2>1
  <2> QED
    BY <2>2 DEF SocketInv, EventsInOrder
<1> QED
  BY <1>1, <1>2, <1>3 DEF OpeningEvent

(* What stays true of events and of handlers that were told nothing.       *)
LEMMA OrderKept ==
  ASSUME SocketInv, NEW type, Socket!Handle(type), UNCHANGED readyState,
         type = "open" \/ UNCHANGED toBackend, readyState = "closed" => toBackend' = << >>,
         UNCHANGED posted
  PROVE  EventsInOrder'
<1>1. /\ Len(events) \in Nat \ {0} /\ Len(events') = Len(events) - 1
      /\ \A i \in 1..Len(events') : i + 1 \in 1..Len(events) /\ events'[i] = events[i + 1]
      /\ 1 \in 1..Len(events)
  BY EventHandled
<1>2. readyState # "connecting"
  BY <1>1 DEF SocketInv, EventsInOrder
<1>3. ASSUME NEW i \in 1..Len(events')
      PROVE  /\ events'[i].type # "open"
             /\ events'[i].type \in {"error", "close"} => readyState = "closed"
             /\ events'[i].type = "close" => i = Len(events')
             /\ events'[i].type = "error" => i = Len(events') - 1 /\ events'[Len(events')].type = "close"
  <2>1. i + 1 \in 1..Len(events) /\ events'[i] = events[i + 1] /\ i # 0 /\ i + 1 # 1
    BY <1>1
  <2>2. /\ events[i + 1].type # "open"
        /\ events[i + 1].type \in {"error", "close"} => readyState = "closed"
        /\ events[i + 1].type = "close" => i + 1 = Len(events)
        /\ events[i + 1].type = "error" => i + 1 = Len(events) - 1 /\ events[Len(events)].type = "close"
    BY <2>1 DEF SocketInv, EventsInOrder
  <2>3. events'[Len(events')] = events[Len(events)]
    BY <1>1, <2>1
  <2> QED
    BY <1>1, <2>1, <2>2, <2>3
<1> QED
  BY <1>2, <1>3 DEF EventsInOrder

LEMMA OnOpenInv == ASSUME SocketInv, Socket!onOpen PROVE SocketInv'
<1>1. /\ Socket!Handle("open")
      /\ IF listening
         THEN /\ connected' = TRUE /\ onerror' = "console"
              /\ toBackend' = IF readyState = "open" THEN toBackend \o messages ELSE toBackend
              /\ messages' = << >>
         ELSE UNCHANGED <<connected, onerror, toBackend, messages>>
      /\ UNCHANGED <<hasSocket, listening, onclose, readyState, sent, arrived, posted, heard, told>>
  BY DEF Socket!onOpen, Socket!keptMessages, Socket!keptAfterOpen
<1>2. /\ toBackend \in Seq(Nat) /\ messages \in Seq(Nat) /\ arrived \in Seq(Nat) /\ heard \in Seq(Nat)
      /\ sent \in Nat /\ Len(arrived) \in Nat /\ Len(heard) \in Nat
  BY DEF SocketInv, SocketTypes
<1>3. /\ toBackend \o messages \in Seq(Nat) /\ Len(toBackend) \in Nat /\ Len(messages) \in Nat
      /\ Len(toBackend \o messages) = Len(toBackend) + Len(messages)
      /\ \A i \in 1..Len(toBackend) : (toBackend \o messages)[i] = toBackend[i]
      /\ \A i \in 1..Len(messages) : (toBackend \o messages)[Len(toBackend) + i] = messages[i]
  BY <1>2, Joined
<1>4. /\ events' \in Seq(SocketEvents)
      /\ Len(events) \in Nat \ {0} /\ Len(events') = Len(events) - 1
      /\ \A i \in 1..Len(events') : i + 1 \in 1..Len(events) /\ events'[i] = events[i + 1]
      /\ 1 \in 1..Len(events) /\ OpeningEvent' = 0 /\ OpeningEvent = 1
  BY <1>1, EventHandled
<1>5. readyState # "connecting"
  BY <1>4 DEF SocketInv, EventsInOrder
<1>6. SocketTypes'
  <2>1. toBackend' \in Seq(Nat)
    BY <1>1, <1>2, <1>3
  <2>2. messages' \in Seq(Nat)
    <3>1. messages' = << >> \/ messages' = messages
      BY <1>1
    <3>2. << >> \in Seq(Nat)
      OBVIOUS
    <3> QED
      BY <1>2, <3>1, <3>2, Zenon
  <2>3. onerror \in {"onError", "console", "none"} /\ connected \in BOOLEAN
    BY DEF SocketInv, SocketTypes
  <2>4. onerror' \in {"onError", "console", "none"} /\ connected' \in BOOLEAN
    BY <1>1, <2>3
  <2>5. /\ hasSocket' \in BOOLEAN /\ onclose' \in {"onClose", "callback", "none"}
        /\ readyState' \in {"connecting", "open", "closing", "closed"}
        /\ arrived' \in Seq(Nat) /\ heard' \in Seq(Nat)
        /\ sent' \in Nat /\ posted' \in Nat /\ told' \in Nat
    BY <1>1 DEF SocketInv, SocketTypes
  <2> QED
    BY <1>4, <2>1, <2>2, <2>4, <2>5 DEF SocketTypes
<1>7. EventsInOrder'
  <2>1. readyState = "closed" => toBackend' = << >>
    BY <1>1 DEF SocketInv, EventsInOrder
  <2> QED
    BY <1>1, <2>1, OrderKept
<1>8. HandlersFit'
  BY <1>1 DEF SocketInv, HandlersFit
<1>9. ToldOnce'
  <2>1. told > 0 /\ onclose = "callback" => \A i \in 1..Len(events) : events[i].type # "close"
    BY DEF SocketInv, ToldOnce
  <2> QED
    BY <1>1, <1>4, <2>1 DEF SocketInv, ToldOnce
<1>10. OnItsWay' /\ KeptInOrder'
  <2>1. CASE listening /\ readyState = "open"
    <3>1. toBackend' = toBackend \o messages /\ messages' = << >> /\ Len(messages') = 0
      BY <1>1, <2>1
    <3>2. /\ \A i \in 1..Len(toBackend) : toBackend[i] = Len(arrived) + i
          /\ \A i \in 1..Len(messages) : messages[i] = Len(arrived) + Len(toBackend) + i
          /\ Len(arrived) + Len(toBackend) + Len(messages) = sent
      BY <2>1 DEF SocketInv, OnItsWay, KeptInOrder
    <3>3. \A i \in 1..Len(toBackend') : toBackend'[i] = Len(arrived) + i
      <4> SUFFICES ASSUME NEW i \in 1..Len(toBackend') PROVE toBackend'[i] = Len(arrived) + i
        OBVIOUS
      <4>1. CASE i \in 1..Len(toBackend)
        BY <1>3, <3>1, <3>2, <4>1
      <4>2. CASE i \notin 1..Len(toBackend)
        <5>1. i - Len(toBackend) \in 1..Len(messages) /\ i = Len(toBackend) + (i - Len(toBackend))
          BY <1>3, <3>1, <4>2
        <5> QED
          BY <1>2, <1>3, <3>1, <3>2, <5>1
      <4> QED
        BY <4>1, <4>2
    <3>4. Len(arrived) + Len(toBackend') = sent
      BY <1>2, <1>3, <3>1, <3>2
    <3> QED
      BY <1>1, <1>2, <1>5, <3>1, <3>3, <3>4 DEF SocketInv, OnItsWay, KeptInOrder
  <2>2. CASE listening /\ readyState # "open"
    BY <1>1, <1>5, <2>2 DEF SocketInv, OnItsWay, KeptInOrder
  <2>3. CASE ~listening
    BY <1>1, <2>3 DEF SocketInv, OnItsWay, KeptInOrder
  <2> QED
    BY <2>1, <2>2, <2>3
<1>11. OnItsWayBack'
  <2> SUFFICES ASSUME listening PROVE OnItsWayBack'
    BY <1>1 DEF OnItsWayBack
  <2>1. /\ \A i \in 1..Len(heard) : heard[i] = i
        /\ \A i \in 1..Len(events) : events[i].type = "message" => events[i].n = Len(heard) + i - OpeningEvent
        /\ readyState # "closed" => posted = Len(heard) + Len(events) - OpeningEvent
    BY DEF SocketInv, OnItsWayBack
  <2>2. ASSUME NEW i \in 1..Len(events'), events'[i].type = "message"
        PROVE  events'[i].n = Len(heard) + i - 0
    <3>1. i + 1 \in 1..Len(events) /\ events'[i] = events[i + 1] /\ i \in Nat
      BY <1>4
    <3>2. events[i + 1].n = Len(heard) + (i + 1) - 1
      BY <1>4, <2>1, <2>2, <3>1
    <3> QED
      BY <1>2, <3>1, <3>2
  <2>3. readyState # "closed" => posted = Len(heard) + Len(events') - 0
    BY <1>2, <1>4, <2>1
  <2> QED
    BY <1>1, <1>4, <2>1, <2>2, <2>3 DEF OnItsWayBack
<1> QED
  BY <1>6, <1>7, <1>8, <1>9, <1>10, <1>11 DEF SocketInv

LEMMA OnMessageInv == ASSUME SocketInv, Socket!onMessage PROVE SocketInv'
<1>1. /\ Socket!Handle("message")
      /\ heard' = IF listening THEN Append(heard, Head(events).n) ELSE heard
      /\ UNCHANGED <<hasSocket, listening, onerror, onclose, connected, messages, readyState,
                     toBackend, sent, arrived, posted, told>>
  BY DEF Socket!onMessage, Socket!handlers
<1>2. heard \in Seq(Nat) /\ Len(heard) \in Nat
  BY DEF SocketInv, SocketTypes
<1>3. /\ events' \in Seq(SocketEvents) /\ events[1].type = "message" /\ 1 \in 1..Len(events)
      /\ Head(events) = events[1] /\ Head(events) \in SocketEvents
      /\ Len(events) \in Nat \ {0} /\ Len(events') = Len(events) - 1
      /\ \A i \in 1..Len(events') : i + 1 \in 1..Len(events) /\ events'[i] = events[i + 1]
      /\ OpeningEvent' = 0 /\ OpeningEvent = 0
  BY <1>1, EventHandled
<1>4. events[1].n \in Nat
  BY <1>3 DEF SocketEvents
<1>5. /\ Append(heard, events[1].n) \in Seq(Nat) /\ Len(Append(heard, events[1].n)) = Len(heard) + 1
      /\ \A i \in 1..Len(heard) : Append(heard, events[1].n)[i] = heard[i]
      /\ Append(heard, events[1].n)[Len(heard) + 1] = events[1].n
  BY <1>2, <1>4, Appended
<1>6. SocketTypes'
  BY <1>1, <1>3, <1>5 DEF SocketInv, SocketTypes
<1>7. EventsInOrder'
  <2>1. readyState = "closed" => toBackend' = << >>
    BY <1>1 DEF SocketInv, EventsInOrder
  <2> QED
    BY <1>1, <2>1, OrderKept
<1>8. HandlersFit' /\ OnItsWay' /\ KeptInOrder'
  BY <1>1 DEF SocketInv, HandlersFit, OnItsWay, KeptInOrder
<1>9. ToldOnce'
  <2>1. told > 0 /\ onclose = "callback" => \A i \in 1..Len(events) : events[i].type # "close"
    BY DEF SocketInv, ToldOnce
  <2> QED
    BY <1>1, <1>3, <2>1 DEF SocketInv, ToldOnce
<1>10. OnItsWayBack'
  <2> SUFFICES ASSUME listening PROVE OnItsWayBack'
    BY <1>1 DEF OnItsWayBack
  <2>1. /\ \A i \in 1..Len(heard) : heard[i] = i
        /\ \A i \in 1..Len(events) : events[i].type = "message" => events[i].n = Len(heard) + i - 0
        /\ readyState # "closed" => posted = Len(heard) + Len(events) - 0
    BY <1>3 DEF SocketInv, OnItsWayBack
  <2>2. heard' = Append(heard, events[1].n) /\ events[1].n = Len(heard) + 1 /\ Len(heard') = Len(heard) + 1
    BY <1>1, <1>2, <1>3, <1>5, <2>1
  <2>3. \A i \in 1..Len(heard') : heard'[i] = i
    <3>1. \A i \in 1..Len(heard') : i \in 1..Len(heard) \/ i = Len(heard) + 1
      BY <1>2, <2>2
    <3> QED
      BY <1>5, <2>1, <2>2, <3>1
  <2>4. ASSUME NEW i \in 1..Len(events'), events'[i].type = "message"
        PROVE  events'[i].n = Len(heard') + i - 0
    <3>1. i + 1 \in 1..Len(events) /\ events'[i] = events[i + 1] /\ i \in Nat
      BY <1>3
    <3>2. events[i + 1].n = Len(heard) + (i + 1) - 0
      BY <2>1, <2>4, <3>1
    <3> QED
      BY <1>2, <2>2, <3>1, <3>2
  <2>5. readyState # "closed" => posted = Len(heard') + Len(events') - 0
    BY <1>2, <1>3, <2>1, <2>2
  <2> QED
    BY <1>1, <1>3, <2>3, <2>4, <2>5 DEF OnItsWayBack
<1> QED
  BY <1>6, <1>7, <1>8, <1>9, <1>10 DEF SocketInv

(* onError and onClose: what the handler of this end and the callback of   *)
(* disconnect do, with readyState closed.                                  *)
LEMMA GoneInv ==
  ASSUME SocketInv, NEW type \in {"error", "close"}, Socket!Handle(type),
         UNCHANGED <<connected, messages, toBackend, sent, arrived, posted, heard>>,
         \/ /\ hasSocket /\ told' = told + 1
            /\ hasSocket' = FALSE /\ listening' = FALSE /\ onerror' = "none" /\ onclose' = "none"
            /\ readyState' = IF readyState = "closed" THEN "closed" ELSE "closing"
         \/ /\ type = "close" /\ onclose = "callback" /\ told' = told + 1
            /\ UNCHANGED <<hasSocket, listening, onerror, onclose, readyState>>
         \/ /\ onclose # "callback" \/ type = "error"
            /\ UNCHANGED <<hasSocket, listening, onerror, onclose, readyState, told>>
  PROVE  SocketInv'
<1>1. /\ events' \in Seq(SocketEvents) /\ events[1].type = type /\ 1 \in 1..Len(events)
      /\ Len(events) \in Nat \ {0} /\ Len(events') = Len(events) - 1
      /\ \A i \in 1..Len(events') : i + 1 \in 1..Len(events) /\ events'[i] = events[i + 1]
      /\ OpeningEvent' = 0 /\ OpeningEvent = 0
  BY EventHandled
<1>2. readyState = "closed" /\ readyState' = "closed" /\ toBackend = << >>
  BY <1>1 DEF SocketInv, EventsInOrder
<1>3. told \in Nat /\ (hasSocket => told = 0)
  BY DEF SocketInv, SocketTypes, HandlersFit
<1>4. type = "close" /\ onclose = "callback" => told = 0
  BY <1>1, <1>3 DEF SocketInv, ToldOnce
<1>5. type = "close" => Len(events') = 0
  BY <1>1 DEF SocketInv, EventsInOrder
<1>6. SocketTypes'
  <2>1. told' \in Nat
    BY <1>3
  <2>2. hasSocket' \in BOOLEAN /\ onerror' \in {"onError", "console", "none"}
        /\ onclose' \in {"onClose", "callback", "none"}
    BY DEF SocketInv, SocketTypes
  <2> QED
    BY <1>1, <1>2, <2>1, <2>2 DEF SocketInv, SocketTypes
<1>7. EventsInOrder'
  BY <1>2, OrderKept
<1>8. OnItsWay' /\ KeptInOrder'
  BY <1>2 DEF SocketInv, OnItsWay, KeptInOrder
<1>9. HandlersFit'
  <2>1. CASE UNCHANGED <<hasSocket, listening, onerror, onclose>> /\ (told' = told
      \/ onclose = "callback")
    <3>1. (hasSocket => onclose # "callback") /\ listening = hasSocket
      BY DEF SocketInv, HandlersFit
    <3> QED
      BY <1>2, <2>1, <3>1 DEF SocketInv, HandlersFit
  <2>2. CASE /\ hasSocket /\ told' = 1
             /\ hasSocket' = FALSE /\ listening' = FALSE /\ onerror' = "none" /\ onclose' = "none"
    BY <1>2, <2>2 DEF HandlersFit
  <2>3. hasSocket /\ told' = told + 1 => told' = 1
    BY <1>3
  <2> QED
    BY <2>1, <2>2, <2>3
<1>10. ToldOnce'
  <2>1. CASE told' = told + 1
    BY <1>2, <1>3, <1>4, <1>5, <2>1 DEF SocketInv, HandlersFit, ToldOnce
  <2>2. CASE told' = told /\ UNCHANGED <<hasSocket, onclose>>
    <3>1. told > 0 /\ onclose = "callback" => \A i \in 1..Len(events) : events[i].type # "close"
      BY DEF SocketInv, ToldOnce
    <3> QED
      BY <1>1, <1>2, <2>2, <3>1 DEF SocketInv, ToldOnce
  <2> QED
    BY <2>1, <2>2
<1>11. OnItsWayBack'
  <2> SUFFICES ASSUME listening' PROVE OnItsWayBack'
    BY DEF OnItsWayBack
  <2>1. listening
    BY DEF SocketInv, SocketTypes
  <2>2. \A i \in 1..Len(events') : events'[i].type # "message"
    <3>1. ASSUME NEW i \in 1..Len(events') PROVE events'[i].type # "message"
      <4>1. type = "error" /\ Len(events) = 2 /\ events[2].type = "close"
        BY <1>1, <1>5, <3>1 DEF SocketInv, EventsInOrder
      <4>2. i = 1 /\ events'[1] = events[2]
        BY <1>1, <4>1
      <4> QED
        BY <4>1, <4>2
    <3> QED
      BY <3>1
  <2> QED
    BY <1>2, <2>1, <2>2 DEF SocketInv, OnItsWayBack
<1> QED
  BY <1>6, <1>7, <1>8, <1>9, <1>10, <1>11 DEF SocketInv

LEMMA OnErrorInv == ASSUME SocketInv, Socket!onError PROVE SocketInv'
<1>1. /\ Socket!Handle("error")
      /\ UNCHANGED <<connected, messages, toBackend, sent, arrived, posted, heard>>
  BY DEF Socket!onError
<1>2. CASE onerror = "onError"
  <2>1. hasSocket
    BY <1>2 DEF SocketInv, HandlersFit
  <2> QED
    BY <1>1, <1>2, <2>1, GoneInv DEF Socket!onError, Socket!reportsGone, Socket!close,
       Socket!dropsOnClose
<1>3. CASE onerror # "onError"
  <2>1. UNCHANGED <<hasSocket, listening, onerror, onclose, readyState, told>>
    BY <1>3 DEF Socket!onError, Socket!handlers
  <2> QED
    BY <1>1, <2>1, GoneInv
<1> QED
  BY <1>2, <1>3

LEMMA OnCloseInv == ASSUME SocketInv, Socket!onClose PROVE SocketInv'
<1>1. /\ Socket!Handle("close")
      /\ UNCHANGED <<connected, messages, toBackend, sent, arrived, posted, heard>>
  BY DEF Socket!onClose
<1>2. CASE onclose = "onClose"
  <2>1. hasSocket
    BY <1>2 DEF SocketInv, HandlersFit
  <2>2. Socket!reportsGone
    BY <1>2 DEF Socket!onClose
  <2> QED
    BY <1>1, <2>1, <2>2, GoneInv DEF Socket!reportsGone, Socket!close, Socket!dropsOnClose
<1>3. CASE onclose = "callback"
  <2>1. Socket!keepsPromise
    BY <1>3 DEF Socket!onClose
  <2>2. told' = told + 1 /\ UNCHANGED <<hasSocket, listening, onerror, onclose, readyState>>
    BY <2>1 DEF Socket!keepsPromise, Socket!handlers
  <2> QED
    BY <1>1, <1>3, <2>2, GoneInv
<1>4. CASE onclose = "none"
  <2>1. UNCHANGED <<hasSocket, listening, onerror, onclose, readyState, told>>
    BY <1>4 DEF Socket!onClose, Socket!handlers
  <2> QED
    BY <1>1, <1>4, <2>1, GoneInv
<1> QED
  BY <1>2, <1>3, <1>4 DEF SocketInv, SocketTypes

LEMMA InitSocket == Socket!Init => SocketInv
<1> SUFFICES ASSUME Socket!Init PROVE SocketInv
  OBVIOUS
<1>1. << >> \in Seq(Nat) /\ << >> \in Seq(SocketEvents)
  OBVIOUS
<1>2. SocketTypes
  BY <1>1 DEF Socket!Init, SocketTypes
<1> QED
  BY <1>2 DEF Socket!Init, SocketInv, HandlersFit, EventsInOrder, ToldOnce, OnItsWay,
     KeptInOrder, OnItsWayBack, OpeningEvent

LEMMA StepSocket == SocketInv /\ [Socket!Next]_(Socket!vars) => SocketInv'
<1> SUFFICES ASSUME SocketInv, [Socket!Next]_(Socket!vars) PROVE SocketInv'
  OBVIOUS
<1>1. CASE UNCHANGED Socket!vars
  BY <1>1 DEF Socket!vars, SocketInv, SocketTypes, HandlersFit, EventsInOrder, ToldOnce,
     OnItsWay, KeptInOrder, OnItsWayBack, OpeningEvent
<1> QED
  BY <1>1, SendInv, DisconnectInv, OpensInv, FailsInv, ClosesInv, ReceivesInv, PostsInv,
     OnOpenInv, OnMessageInv, OnErrorInv, OnCloseInv DEF Socket!Next, Socket!Handlers

-----------------------------------------------------------------------------
ChannelStep == Socket!Wire!Send \/ Socket!Wire!Arrive \/ Socket!Wire!Hear \/ Socket!Wire!Tell

LEMMA StepIsChannelStep ==
  ASSUME SocketInv, [Socket!Next]_(Socket!vars)
  PROVE  [ChannelStep]_(Socket!Wire!channelVars)
<1>1. CASE Socket!sendRawMessage
  BY <1>1 DEF ChannelStep, Socket!sendRawMessage, Socket!Wire!Send
<1>2. CASE Socket!disconnect \/ Socket!socketOpens \/ Socket!socketFails
    \/ Socket!socketCloses \/ Socket!backendPosts \/ Socket!onOpen \/ UNCHANGED Socket!vars
  BY <1>2 DEF Socket!disconnect, Socket!socketOpens, Socket!socketFails, Socket!socketCloses,
     Socket!backendPosts, Socket!onOpen, Socket!vars, Socket!Wire!channelVars
<1>3. CASE Socket!backendReceives
  <2>1. toBackend # << >> /\ toBackend \in Seq(Nat) /\ arrived \in Seq(Nat) /\ Len(arrived) \in Nat
        /\ sent \in Nat /\ told \in Nat
    BY <1>3 DEF Socket!backendReceives, SocketInv, SocketTypes
  <2>2. Len(toBackend) \in Nat \ {0} /\ 1 \in 1..Len(toBackend) /\ Head(toBackend) = toBackend[1]
    BY <2>1
  <2>3. Head(toBackend) = Len(arrived) + 1 /\ Len(arrived) + 1 <= sent
    BY <2>1, <2>2 DEF SocketInv, OnItsWay
  <2>4. Socket!Wire!NextOf(arrived) = Len(arrived) + 1
    <3>1. CASE arrived = << >>
      BY <3>1 DEF Socket!Wire!NextOf
    <3>2. CASE arrived # << >>
      <4>1. Len(arrived) \in 1..Len(arrived)
        BY <2>1, <3>2
      <4> QED
        BY <3>2, <4>1 DEF SocketInv, OnItsWay, Socket!Wire!NextOf
    <3> QED
      BY <3>1, <3>2
  <2>5. told = 0
    BY <2>1 DEF SocketInv, ToldOnce, EventsInOrder
  <2> QED
    BY <1>3, <2>3, <2>4, <2>5 DEF ChannelStep, Socket!backendReceives, Socket!Wire!Arrive
<1>4. CASE Socket!onMessage
  <2>1. CASE ~listening
    BY <1>4, <2>1 DEF Socket!onMessage, Socket!Wire!channelVars
  <2>2. CASE listening
    <3>1. heard \in Seq(Nat) /\ Len(heard) \in Nat
      BY DEF SocketInv, SocketTypes
    <3>2. /\ events[1].type = "message" /\ 1 \in 1..Len(events) /\ Head(events) = events[1] /\ OpeningEvent = 0
      BY <1>4, EventHandled DEF Socket!onMessage
    <3>3. events[1].n = Len(heard) + 1 - 0
      BY <2>2, <3>2 DEF SocketInv, OnItsWayBack
    <3>4. Socket!Wire!NextOf(heard) = Len(heard) + 1
      <4>1. CASE heard = << >>
        BY <4>1 DEF Socket!Wire!NextOf
      <4>2. CASE heard # << >>
        <5>1. Len(heard) \in 1..Len(heard)
          BY <3>1, <4>2
        <5> QED
          BY <2>2, <4>2, <5>1 DEF SocketInv, OnItsWayBack, Socket!Wire!NextOf
      <4> QED
        BY <4>1, <4>2
    <3>5. told = 0
      BY <2>2 DEF SocketInv, HandlersFit
    <3>6. heard' = Append(heard, Len(heard) + 1)
      BY <1>4, <2>2, <3>1, <3>2, <3>3 DEF Socket!onMessage
    <3> QED
      BY <1>4, <3>4, <3>5, <3>6 DEF ChannelStep, Socket!onMessage, Socket!Wire!Hear
  <2> QED
    BY <2>1, <2>2
<1>5. CASE Socket!onError \/ Socket!onClose
  <2>1. UNCHANGED <<sent, arrived, heard>>
    BY <1>5 DEF Socket!onError, Socket!onClose
  <2>2. told' = told \/ told' = told + 1
    BY <1>5 DEF Socket!onError, Socket!onClose, Socket!reportsGone, Socket!keepsPromise,
       SocketInv, SocketTypes
  <2>3. SocketInv' /\ told \in Nat
    BY <1>5, OnErrorInv, OnCloseInv DEF SocketInv, SocketTypes
  <2>4. told' = told + 1 => told = 0
    BY <2>3 DEF SocketInv, ToldOnce
  <2> QED
    BY <2>1, <2>2, <2>4 DEF ChannelStep, Socket!Wire!Tell, Socket!Wire!channelVars
<1> QED
  BY <1>1, <1>2, <1>3, <1>4, <1>5 DEF Socket!Next, Socket!Handlers

-----------------------------------------------------------------------------
(* The bounds of the instance, and how the connection ends: by the one     *)
(* disconnect that found the socket, whose promise its callback keeps, or  *)
(* by a loss.                                                              *)
SocketEventsBounded == [type : {"open", "message", "error", "close"}, n : 0..MaxMessages]

SocketBounds ==
  /\ messages \in Seq(1..MaxMessages) /\ toBackend \in Seq(1..MaxMessages)
  /\ arrived \in Seq(1..MaxMessages) /\ heard \in Seq(1..MaxMessages)
  /\ events \in Seq(SocketEventsBounded)
  /\ sent \in 0..MaxMessages /\ posted \in 0..MaxMessages

Promises == [kept : BOOLEAN, found : BOOLEAN]
Found == \E i \in DOMAIN promises : promises[i].found
Kept == \E i \in DOMAIN promises : promises[i].kept

EndsInv ==
  /\ promises \in Seq(Promises) /\ Len(promises) <= MaxDisconnects
  /\ \A i \in DOMAIN promises : promises[i].kept => promises[i].found
  /\ \A i, j \in DOMAIN promises : promises[i].found /\ promises[j].found => i = j
  /\ lost = IF hasSocket \/ Found THEN 0 ELSE 1
  /\ hasSocket => ~Found /\ readyState # "closing"
  /\ onclose = "callback" <=> Found
  /\ told = IF Kept THEN 1 ELSE lost

LEMMA SocketBound == MaxMessages \in Nat /\ MaxDisconnects \in Nat
BY SocketAssumption DEF Socket!BoundsAssumption

LEMMA InitBounds == Socket!Init => SocketBounds /\ EndsInv
<1> SUFFICES ASSUME Socket!Init PROVE SocketBounds /\ EndsInv
  OBVIOUS
<1>1. SocketBounds
  BY SocketBound DEF Socket!Init, SocketBounds
<1>2. ~Found /\ ~Kept
  BY DEF Socket!Init, Found, Kept
<1> QED
  BY <1>1, <1>2, SocketBound DEF Socket!Init, EndsInv

LEMMA StepBounds ==
  ASSUME SocketInv, SocketBounds, [Socket!Next]_(Socket!vars)
  PROVE  SocketBounds'
<1>0. MaxMessages \in Nat /\ sent \in Nat /\ posted \in Nat
  BY SocketBound DEF SocketBounds
<1>1. CASE Socket!sendRawMessage
  <2>1. sent' = sent + 1 /\ sent + 1 \in 1..MaxMessages
        /\ heard' = heard /\ arrived' = arrived /\ events' = events /\ posted' = posted
    BY <1>0, <1>1 DEF Socket!sendRawMessage
  <2>2. toBackend' = toBackend \/ toBackend' = Append(toBackend, sent + 1)
    BY <1>1 DEF Socket!sendRawMessage
  <2>3. messages' = messages \/ messages' = Append(messages, sent + 1)
    BY <1>1 DEF Socket!sendRawMessage
  <2>4. ASSUME NEW s \in Seq(1..MaxMessages) PROVE Append(s, sent + 1) \in Seq(1..MaxMessages)
    BY <2>1, Appended
  <2>5. toBackend' \in Seq(1..MaxMessages) /\ messages' \in Seq(1..MaxMessages)
    BY <2>2, <2>3, <2>4 DEF SocketBounds
  <2>6. sent' \in 0..MaxMessages
    BY <1>0, <2>1
  <2> QED
    BY <2>1, <2>5, <2>6 DEF SocketBounds
<1>2. CASE Socket!disconnect
  BY <1>2 DEF Socket!disconnect, SocketBounds
<1>3. CASE Socket!socketOpens
  <2>1. Socket!Event("open", 0) \in SocketEventsBounded
    BY <1>0 DEF Socket!Event, SocketEventsBounded
  <2>2. events' \in Seq(SocketEventsBounded)
    BY <1>3, <2>1 DEF Socket!socketOpens, SocketBounds
  <2> QED
    BY <1>3, <2>2 DEF Socket!socketOpens, SocketBounds
<1>4. CASE Socket!socketFails
  <2>1. <<Socket!Event("error", 0), Socket!Event("close", 0)>> \in Seq(SocketEventsBounded)
    BY <1>0 DEF Socket!Event, SocketEventsBounded
  <2>2. events' \in Seq(SocketEventsBounded)
    BY <1>4, <2>1, Joined DEF Socket!socketFails, SocketBounds
  <2> QED
    BY <1>4, <2>2 DEF Socket!socketFails, SocketBounds
<1>5. CASE Socket!socketCloses
  <2>1. Socket!Event("close", 0) \in SocketEventsBounded
    BY <1>0 DEF Socket!Event, SocketEventsBounded
  <2>2. events' \in Seq(SocketEventsBounded)
    BY <1>5, <2>1 DEF Socket!socketCloses, SocketBounds
  <2> QED
    BY <1>5, <2>2 DEF Socket!socketCloses, SocketBounds
<1>6. CASE Socket!backendReceives
  <2>1. /\ toBackend # << >> /\ arrived' = Append(arrived, Head(toBackend))
        /\ toBackend' = Tail(toBackend)
    BY <1>6 DEF Socket!backendReceives
  <2>2. arrived' \in Seq(1..MaxMessages) /\ toBackend' \in Seq(1..MaxMessages)
    BY <2>1, Tails, Appended DEF SocketBounds
  <2> QED
    BY <1>6, <2>2 DEF Socket!backendReceives, SocketBounds
<1>7. CASE Socket!backendPosts
  <2>1. Socket!Event("message", posted + 1) \in SocketEventsBounded /\ posted + 1 \in 0..MaxMessages
    BY <1>0, <1>7 DEF Socket!backendPosts, Socket!Event, SocketEventsBounded
  <2>2. events' \in Seq(SocketEventsBounded) /\ posted' \in 0..MaxMessages
    BY <1>7, <2>1 DEF Socket!backendPosts, SocketBounds
  <2> QED
    BY <1>7, <2>2 DEF Socket!backendPosts, SocketBounds
<1>8. ASSUME NEW type, Socket!Handle(type)
      PROVE  events' \in Seq(SocketEventsBounded) /\ Head(events) \in SocketEventsBounded
  BY <1>8, Tails DEF Socket!Handle, SocketBounds
<1>9. CASE Socket!onOpen
  <2>1. toBackend' = toBackend \/ toBackend' = toBackend \o messages
    BY <1>9 DEF Socket!onOpen, Socket!keptMessages
  <2>2. messages' = messages \/ messages' = << >>
    BY <1>9 DEF Socket!onOpen, Socket!keptAfterOpen
  <2>3. toBackend' \in Seq(1..MaxMessages) /\ messages' \in Seq(1..MaxMessages)
    <3>1. toBackend \in Seq(1..MaxMessages) /\ messages \in Seq(1..MaxMessages)
      BY DEF SocketBounds
    <3>2. toBackend \o messages \in Seq(1..MaxMessages) /\ << >> \in Seq(1..MaxMessages)
      BY <3>1
    <3> QED
      BY <2>1, <2>2, <3>1, <3>2
  <2>4. events' \in Seq(SocketEventsBounded)
    BY <1>8, <1>9 DEF Socket!onOpen
  <2> QED
    BY <1>9, <2>3, <2>4 DEF Socket!onOpen, SocketBounds
<1>10. CASE Socket!onMessage
  <2>1. events' \in Seq(SocketEventsBounded) /\ Head(events) \in SocketEventsBounded
    BY <1>8, <1>10 DEF Socket!onMessage
  <2>2. heard' \in Seq(1..MaxMessages)
    <3>1. CASE ~listening
      BY <1>10, <3>1 DEF Socket!onMessage, SocketBounds
    <3>2. CASE listening
      <4>1. /\ events[1].type = "message" /\ 1 \in 1..Len(events) /\ Head(events) = events[1]
            /\ OpeningEvent = 0
        BY <1>10, EventHandled DEF Socket!onMessage
      <4>2. Head(events).n = Len(heard) + 1 - 0 /\ Len(heard) \in Nat
        BY <3>2, <4>1 DEF SocketInv, OnItsWayBack, SocketBounds
      <4>3. Head(events).n \in 0..MaxMessages
        BY <2>1 DEF SocketEventsBounded
      <4>4. Head(events).n \in 1..MaxMessages
        BY <1>0, <4>2, <4>3
      <4>5. heard' = Append(heard, Head(events).n)
        BY <1>10, <3>2 DEF Socket!onMessage
      <4> QED
        BY <4>4, <4>5, Appended DEF SocketBounds
    <3> QED
      BY <3>1, <3>2
  <2> QED
    BY <1>10, <2>1, <2>2 DEF Socket!onMessage, SocketBounds
<1>11. CASE Socket!onError
  <2>1. events' \in Seq(SocketEventsBounded)
    BY <1>8, <1>11 DEF Socket!onError
  <2> QED
    BY <1>11, <2>1 DEF Socket!onError, SocketBounds
<1>12. CASE Socket!onClose
  <2>1. events' \in Seq(SocketEventsBounded)
    BY <1>8, <1>12 DEF Socket!onClose
  <2> QED
    BY <1>12, <2>1 DEF Socket!onClose, SocketBounds
<1>13. CASE UNCHANGED Socket!vars
  BY <1>13 DEF Socket!vars, SocketBounds
<1> QED
  BY <1>1, <1>2, <1>3, <1>4, <1>5, <1>6, <1>7, <1>9, <1>10, <1>11, <1>12, <1>13
     DEF Socket!Next, Socket!Handlers

(* The two ways in which the owner is told.                                *)
LEMMA GoneEnds ==
  ASSUME SocketInv, EndsInv, hasSocket, Socket!reportsGone
  PROVE  EndsInv'
<1>1. /\ lost' = lost + 1 /\ told' = told + 1 /\ promises' = promises
      /\ ~hasSocket' /\ onclose' = "none"
  BY DEF Socket!reportsGone, Socket!close, Socket!dropsOnClose
<1>2. ~Found /\ ~Kept /\ lost = 0 /\ told = 0
  BY DEF EndsInv, Found, Kept
<1>3. ~Found' /\ ~Kept'
  BY <1>1, <1>2 DEF Found, Kept
<1> QED
  BY <1>1, <1>2, <1>3 DEF EndsInv

LEMMA PromiseEnds ==
  ASSUME SocketInv, EndsInv, onclose = "callback", told = 0, Socket!keepsPromise
  PROVE  EndsInv'
<1>1. /\ told' = told + 1 /\ lost' = lost /\ hasSocket' = hasSocket
      /\ onclose' = onclose /\ readyState' = readyState
      /\ promises' = [i \in DOMAIN promises |->
                        [promises[i] EXCEPT !.kept = promises[i].kept \/ promises[i].found]]
  BY DEF Socket!keepsPromise, Socket!handlers
<1>2. promises \in Seq(Promises) /\ Found /\ ~hasSocket /\ lost = 0
  BY DEF EndsInv
<1>3. ASSUME NEW i \in DOMAIN promises
      PROVE  promises'[i] \in Promises /\ (promises'[i].found <=> promises[i].found)
             /\ (promises'[i].kept <=> promises[i].kept \/ promises[i].found)
  <2>1. PICK x \in BOOLEAN : x = (promises[i].kept \/ promises[i].found)
    BY Zenon
  <2>2. promises[i] \in Promises
    BY <1>2
  <2>3. promises'[i] = [promises[i] EXCEPT !.kept = x]
    BY <1>1, <2>1
  <2>4. promises'[i] \in Promises /\ promises'[i].found = promises[i].found /\ promises'[i].kept = x
    BY <2>2, <2>3 DEF Promises
  <2> QED
    BY <2>1, <2>4
<1>4. promises' \in Seq(Promises) /\ Len(promises') = Len(promises) /\ DOMAIN promises' = DOMAIN promises
  <2>1. \A i \in DOMAIN promises :
          [promises[i] EXCEPT !.kept = promises[i].kept \/ promises[i].found] \in Promises
    BY <1>1, <1>3
  <2>2. DOMAIN promises = 1..Len(promises) /\ Len(promises) \in Nat
    BY <1>2
  <2> QED
    BY <1>1, <2>1, <2>2
<1>5. Found' /\ Kept'
  <2>1. PICK i \in DOMAIN promises : promises[i].found
    BY <1>2 DEF Found
  <2> QED
    BY <1>3, <1>4, <2>1 DEF Found, Kept
<1>6. Len(promises') <= MaxDisconnects
  BY <1>4 DEF EndsInv
<1>7. /\ \A i \in DOMAIN promises' : promises'[i].kept => promises'[i].found
      /\ \A i, j \in DOMAIN promises' : promises'[i].found /\ promises'[j].found => i = j
  BY <1>3, <1>4 DEF EndsInv
<1>8. ~hasSocket' /\ onclose' = "callback" /\ lost' = 0 /\ told' = 1
  BY <1>1, <1>2
<1> QED
  BY <1>4, <1>5, <1>6, <1>7, <1>8 DEF EndsInv

LEMMA DisconnectEnds ==
  ASSUME SocketInv, EndsInv, Socket!disconnect
  PROVE  EndsInv'
<1> DEFINE p == [kept |-> FALSE, found |-> hasSocket]
<1>1. /\ Len(promises) < MaxDisconnects /\ promises' = Append(promises, p)
      /\ told' = told /\ lost' = lost
      /\ IF hasSocket THEN ~hasSocket' /\ onclose' = "callback"
         ELSE hasSocket' = hasSocket /\ onclose' = onclose /\ readyState' = readyState
  BY DEF Socket!disconnect, Socket!close, Socket!callbackSet, Socket!handlers
<1>2. p \in Promises /\ ~p.kept /\ (p.found <=> hasSocket)
  <2>1. hasSocket \in BOOLEAN /\ FALSE \in BOOLEAN
    BY Zenon DEF SocketInv, SocketTypes
  <2> QED
    BY <2>1 DEF Promises
<1> HIDE DEF p
<1>3. PICK n \in Nat \ {0} : n = Len(promises) + 1
  BY DEF EndsInv
<1>4. /\ promises' \in Seq(Promises) /\ Len(promises') = n /\ promises'[n] = p /\ n <= MaxDisconnects
      /\ DOMAIN promises' = 1..n /\ DOMAIN promises = 1..n - 1
      /\ \A i \in 1..n - 1 : promises'[i] = promises[i]
  BY <1>1, <1>2, <1>3, SocketBound DEF EndsInv
<1>5. \A i \in 1..n : i = n \/ i \in 1..n - 1
  OBVIOUS
<1>6. (Kept' <=> Kept) /\ (Found' <=> Found \/ hasSocket)
  <2>1. Kept' <=> \E i \in 1..n : promises'[i].kept
    BY <1>4 DEF Kept
  <2>2. Found' <=> \E i \in 1..n : promises'[i].found
    BY <1>4 DEF Found
  <2>3. Kept <=> \E i \in 1..n - 1 : promises[i].kept
    BY <1>4 DEF Kept
  <2>4. Found <=> \E i \in 1..n - 1 : promises[i].found
    BY <1>4 DEF Found
  <2>5. n \in 1..n /\ \A i \in 1..n - 1 : i \in 1..n
    OBVIOUS
  <2>6. Kept' <=> Kept
    BY <1>2, <1>4, <1>5, <2>1, <2>3, <2>5
  <2>7. Found' <=> Found \/ hasSocket
    BY <1>2, <1>4, <1>5, <2>2, <2>4, <2>5
  <2> QED
    BY <2>6, <2>7
<1>7. \A i \in 1..n : promises'[i].kept => promises'[i].found
  BY <1>2, <1>4, <1>5 DEF EndsInv
<1>8. \A i, j \in 1..n : promises'[i].found /\ promises'[j].found => i = j
  BY <1>2, <1>4, <1>5 DEF EndsInv, Found
<1>9. Kept => Found
  BY DEF EndsInv, Kept, Found
<1> QED
  BY <1>1, <1>4, <1>6, <1>7, <1>8, <1>9 DEF EndsInv

LEMMA StepEnds ==
  ASSUME SocketInv, EndsInv, [Socket!Next]_(Socket!vars)
  PROVE  EndsInv'
<1>1. ASSUME promises' = promises, lost' = lost, told' = told, hasSocket' = hasSocket,
             onclose' = onclose, readyState' = "closing" => readyState = "closing"
      PROVE  EndsInv'
  BY <1>1 DEF EndsInv, Found, Kept
<1>2. CASE Socket!sendRawMessage \/ Socket!backendReceives \/ Socket!backendPosts
           \/ UNCHANGED Socket!vars
  BY <1>1, <1>2 DEF Socket!sendRawMessage, Socket!backendReceives, Socket!backendPosts,
     Socket!vars, Socket!handlers
<1>3. CASE Socket!socketOpens \/ Socket!socketFails \/ Socket!socketCloses
  BY <1>1, <1>3 DEF Socket!socketOpens, Socket!socketFails, Socket!socketCloses, Socket!handlers
<1>4. CASE Socket!onOpen \/ Socket!onMessage
  BY <1>1, <1>4 DEF Socket!onOpen, Socket!onMessage, Socket!handlers
<1>5. CASE Socket!onError
  <2>1. onerror = "onError" => hasSocket
    BY DEF SocketInv, SocketTypes, HandlersFit
  <2> QED
    BY <1>1, <1>5, <2>1, GoneEnds DEF Socket!onError, Socket!handlers
<1>6. CASE Socket!onClose
  <2>1. onclose = "onClose" => hasSocket
    BY DEF SocketInv, SocketTypes, HandlersFit
  <2>2. onclose = "callback" => told = 0
    <3>1. 1 \in 1..Len(events) /\ events[1].type = "close"
      BY <1>6, EventHandled DEF Socket!onClose
    <3> QED
      BY <3>1 DEF SocketInv, ToldOnce, SocketTypes
  <2>3. CASE onclose = "onClose"
    BY <1>6, <2>1, <2>3, GoneEnds DEF Socket!onClose
  <2>4. CASE onclose = "callback"
    BY <1>6, <2>2, <2>4, PromiseEnds DEF Socket!onClose
  <2>5. CASE onclose = "none"
    BY <1>1, <1>6, <2>5 DEF Socket!onClose, Socket!handlers
  <2> QED
    BY <2>3, <2>4, <2>5 DEF SocketInv, SocketTypes
<1> QED
  BY <1>2, <1>3, <1>4, <1>5, <1>6, DisconnectEnds DEF Socket!Next, Socket!Handlers

-----------------------------------------------------------------------------
LEMMA SameCardinality == \A S : Socket!Cardinality(S) = Cardinality(S)
BY DEF Cardinality, Socket!Cardinality

(* A set with at most one element.                                         *)
LEMMA AtMostOne ==
  ASSUME NEW S, \A x, y \in S : x = y
  PROVE  Cardinality(S) = IF S = {} THEN 0 ELSE 1
<1>1. CASE S = {}
  BY <1>1, FS_EmptySet
<1>2. ASSUME NEW x \in S PROVE Cardinality(S) = 1
  <2>1. S = {x}
    OBVIOUS
  <2> QED
    BY <2>1, FS_Singleton
<1> QED
  BY <1>1, <1>2

LEMMA SocketHolds ==
  SocketInv /\ SocketBounds /\ EndsInv =>
    Socket!TypeOK /\ Socket!NothingLostWhileUp /\ Socket!EndsOnce
<1> SUFFICES ASSUME SocketInv, SocketBounds, EndsInv
             PROVE  Socket!TypeOK /\ Socket!NothingLostWhileUp /\ Socket!EndsOnce
  OBVIOUS
<1>1. Socket!TypeOK
  <2>1. told \in 0..1 /\ lost \in 0..1
    BY DEF EndsInv
  <2>2. {hasSocket, connected, listening} \subseteq BOOLEAN
    BY Zenon DEF SocketInv, SocketTypes, HandlersFit
  <2> QED
    BY <2>1, <2>2 DEF Socket!TypeOK, SocketInv, SocketTypes, SocketBounds, SocketEventsBounded,
       EndsInv, Promises
<1>2. Socket!NothingLostWhileUp
  <2> SUFFICES ASSUME hasSocket, readyState # "closed"
               PROVE  arrived \o toBackend \o messages = [i \in 1..sent |-> i]
    BY DEF Socket!NothingLostWhileUp
  <2>1. readyState \in {"connecting", "open"}
    BY DEF EndsInv, SocketInv, SocketTypes
  <2>2. arrived \in Seq(Nat) /\ toBackend \in Seq(Nat) /\ messages \in Seq(Nat)
    BY DEF SocketInv, SocketTypes
  <2>3. PICK a, b, c \in Nat : a = Len(arrived) /\ b = Len(toBackend) /\ c = Len(messages)
    BY <2>2
  <2>4. /\ \A i \in 1..a : arrived[i] = i
        /\ \A i \in 1..b : toBackend[i] = a + i
        /\ \A i \in 1..c : messages[i] = a + b + i
        /\ sent = a + b + c
    BY <2>1, <2>3 DEF SocketInv, OnItsWay, KeptInOrder
  <2>5. PICK s : s = arrived \o toBackend
    OBVIOUS
  <2>6. s \in Seq(Nat) /\ Len(s) = a + b /\ \A i \in 1..a + b : s[i] = i
    <3>1. s \in Seq(Nat) /\ Len(s) = a + b
      BY <2>2, <2>3, <2>5
    <3>2. ASSUME NEW i \in 1..a + b PROVE s[i] = i
      <4>1. CASE i <= a
        BY <2>2, <2>3, <2>4, <2>5, <4>1
      <4>2. CASE i > a
        <5>1. PICK j \in 1..b : i = a + j
          BY <4>2
        <5>2. s[i] = toBackend[j]
          BY <2>2, <2>3, <2>5, <5>1
        <5> QED
          BY <2>4, <5>1, <5>2
      <4> QED
        BY <4>1, <4>2
    <3> QED
      BY <3>1, <3>2
  <2>7. PICK t : t = s \o messages
    OBVIOUS
  <2>8. t \in Seq(Nat) /\ Len(t) = sent /\ \A i \in 1..sent : t[i] = i
    <3>0. /\ t \in Seq(Nat) /\ Len(t) = Len(s) + Len(messages)
          /\ \A i \in 1..Len(messages) : t[Len(s) + i] = messages[i]
      <4>1. s \in Seq(Nat) /\ messages \in Seq(Nat)
        BY <2>2, <2>6
      <4>2. /\ s \o messages \in Seq(Nat) /\ Len(s \o messages) = Len(s) + Len(messages)
            /\ \A i \in 1..Len(messages) : (s \o messages)[Len(s) + i] = messages[i]
        BY <4>1, Joined
      <4> QED
        BY <2>7, <4>2
    <3>1. t \in Seq(Nat) /\ Len(t) = sent
      BY <2>3, <2>4, <2>6, <3>0
    <3>2. ASSUME NEW i \in 1..sent PROVE t[i] = i
      <4>1. CASE i <= a + b
        BY <2>2, <2>3, <2>4, <2>6, <2>7, <4>1
      <4>2. CASE i > a + b
        <5>1. PICK j \in 1..c : i = a + b + j
          BY <2>4, <4>2
        <5>2. t[i] = messages[j]
          BY <2>3, <2>6, <3>0, <5>1
        <5> QED
          BY <2>4, <5>1, <5>2
      <4> QED
        BY <2>4, <4>1, <4>2
    <3> QED
      BY <3>1, <3>2
  <2>9. t = [i \in 1..sent |-> i]
    <3>1. DOMAIN t = 1..sent /\ t = [i \in DOMAIN t |-> t[i]]
      BY <2>8
    <3> QED
      BY <2>8, <3>1
  <2> QED
    BY <2>5, <2>7, <2>9
<1>3. Socket!EndsOnce
  <2> DEFINE found == {i \in DOMAIN promises : promises[i].found}
             kept == {i \in DOMAIN promises : promises[i].kept}
  <2>1. \A i, j \in found : i = j
    BY DEF EndsInv
  <2>2. \A i, j \in kept : i = j
    BY DEF EndsInv
  <2>3. (found = {} <=> ~Found) /\ (kept = {} <=> ~Kept)
    BY DEF Found, Kept
  <2>4. kept # {} => found # {}
    BY DEF EndsInv
  <2>5. /\ Socket!Cardinality(found) = IF found = {} THEN 0 ELSE 1
        /\ Socket!Cardinality(kept) = IF kept = {} THEN 0 ELSE 1
    BY <2>1, <2>2, AtMostOne, SameCardinality
  <2> HIDE DEF found, kept
  <2>6. /\ lost + Socket!Cardinality(found) <= 1
        /\ hasSocket <=> lost + Socket!Cardinality(found) = 0
        /\ told = lost + Socket!Cardinality(kept)
    BY <2>3, <2>4, <2>5 DEF EndsInv
  <2> QED
    BY <2>6 DEF Socket!EndsOnce, found, kept
<1> QED
  BY <1>1, <1>2, <1>3

(* WebSocketConnection (Connections.ts:79 to 174) is a Channel, for any    *)
(* number of messages in either direction and any calls of disconnect:     *)
(* they pass in order, each at most once, none is lost while the socket is *)
(* up, and nothing passes after the owner was told, once, that the         *)
(* connection is gone.                                                     *)
THEOREM ConnectionIsChannel == PanelsSpec => SocketIsChannel
<1>1. PanelsInit => Socket!Init
  BY DEF PanelsInit
<1>2. [PanelsNext]_<<part, vars, coverageVars, socketVars>> => [Socket!Next]_(Socket!vars)
  BY DEF PanelsNext, socketVars, Socket!vars
<1>3. Socket!Init => SocketInv /\ Socket!Wire!ChannelInit
  BY InitSocket DEF Socket!Init, Socket!Wire!ChannelInit
<1>4. SocketInv /\ [Socket!Next]_(Socket!vars) => SocketInv'
  BY StepSocket
<1>5. SocketInv /\ SocketBounds /\ [Socket!Next]_(Socket!vars) => SocketBounds'
  BY StepBounds
<1>6. SocketInv /\ EndsInv /\ [Socket!Next]_(Socket!vars) => EndsInv'
  BY StepEnds
<1>7. SocketInv /\ [Socket!Next]_(Socket!vars) => [ChannelStep]_(Socket!Wire!channelVars)
  BY StepIsChannelStep
<1>8. PanelsSpec => [](Socket!TypeOK /\ Socket!NothingLostWhileUp /\ Socket!EndsOnce)
  BY <1>1, <1>2, <1>3, <1>4, <1>5, <1>6, InitBounds, SocketHolds, PTL DEF PanelsSpec
<1>9. PanelsSpec => Socket!ImplementsChannel
  BY <1>1, <1>2, <1>3, <1>4, <1>7, PTL
  DEF PanelsSpec, Socket!ImplementsChannel, Socket!Wire!ChannelSpec, ChannelStep
<1> QED
  BY <1>8, <1>9 DEF SocketIsChannel
=============================================================================
