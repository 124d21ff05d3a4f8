--------------------------- MODULE LighthouseRuns ---------------------------
(***************************************************************************)
(* Runs of Lighthouse: LighthousePanel, LighthouseController and           *)
(* ProtocolService of panels/lighthouse/.  A run takes over the targets    *)
(* (suspended), the page (emulation, a second protocol session, a handler  *)
(* for dialogs) and a worker, and gives all back when it ends, fails or is *)
(* cancelled.                                                              *)
(*                                                                         *)
(* Starting, collecting and cancelling are async functions: each is an     *)
(* entry of ops, and pc says what it awaits.  They share the fields of     *)
(* controller and service, and nothing keeps two of them from being under  *)
(* way together: the start view stays while a run without a timespan       *)
(* starts, and the buttons to cancel may be clicked at any time.  A        *)
(* timespan is started and collected by the user; the other modes collect  *)
(* as soon as they started.                                                *)
(*                                                                         *)
(* clashed only records, for the properties, that two ops met which the    *)
(* code cannot tell apart.  No action depends on it.                       *)
(***************************************************************************)
EXTENDS Naturals, Sequences, FiniteSets

CONSTANTS MaxOps,     \* bound: async functions called
          MaxAtOnce,  \* bound: of them under way when the user calls another
          MaxWorkers  \* bound: workers made

Awaits == {"url", "suspend", "connect", "worker", "answer", "oldWorker", "resume", "navigate"}

BoundsAssumption == MaxOps \in Nat /\ MaxAtOnce \in Nat /\ MaxWorkers \in Nat

VARIABLES
  ops,           \* the async functions called: kind, mode, pc, and what they hold
  view,          \* what the panel shows, which decides what the user may do
  timespan,      \* the dialog of a timespan over it: "none", "starting" or "ready"
  run,           \* currentLighthouseRun: the number of the op that started it, or 0
  worker,        \* lighthouseWorkerPromise: the number of its worker, or 0
  connection,    \* parallelConnection: its number, or 0
  workers,       \* of each worker, "loading", "ready" or "terminated"
  open,          \* of each parallel connection, whether it is open
  suspended,     \* whether all targets are suspended
  dialogs,       \* dialog handlers that listen, numbered as their connections
  removesDialog, \* the handler that removeDialogHandler removes
  emulation,     \* whose emulation the page has: "own" or "lighthouse"
  savedEmulation,\* emulationStateBefore: the same, or "none"
  clashed        \* history: a run was started while an op was under way, or
                 \* cancelled while it was set up

service == <<worker, connection, workers, open, suspended, dialogs, removesDialog>>
vars == <<ops, view, timespan, run, service, emulation, savedEmulation, clashed>>

Modes == {"timespan", "snapshot", "navigation"}
Op == [kind : {"start", "collect", "cancel"}, mode : Modes, pc : Awaits \cup {"ended"},
       worker : 0..MaxWorkers, connection : Nat, failed : BOOLEAN]

Init ==
  /\ ops = << >> /\ view = "start" /\ timespan = "none" /\ run = 0
  /\ worker = 0 /\ connection = 0 /\ workers = << >> /\ open = << >>
  /\ suspended = FALSE /\ dialogs = {} /\ removesDialog = 0
  /\ emulation = "own" /\ savedEmulation = "none"
  /\ clashed = FALSE

NewOp(kind, mode, pc) ==
  [kind |-> kind, mode |-> mode, pc |-> pc, worker |-> 0, connection |-> 0, failed |-> FALSE]

Awaiting(o, pc) == o \in DOMAIN ops /\ ops[o].pc = pc

(* Nothing is under way: every op has ended, or waits for a worker that is *)
(* gone.                                                                   *)
Quiet ==
  \A o \in DOMAIN ops : \/ ops[o].pc = "ended"
                        \/ ops[o].pc = "answer" /\ workers[ops[o].worker] = "terminated"

UserActs ==
  /\ Len(ops) < MaxOps
  /\ Cardinality({o \in DOMAIN ops : ops[o].pc \notin {"answer", "ended"}}) <= MaxAtOnce

SettingUp == \E o \in DOMAIN ops : ops[o].pc \in {"url", "suspend", "connect"}

-----------------------------------------------------------------------------
(* ensureWorkerExists, which a request and a message of the back end call. *)
Ensured == IF worker = 0 THEN Len(workers) + 1 ELSE worker

ensureWorkerExists ==
  /\ Ensured <= MaxWorkers
  /\ worker' = Ensured
  /\ workers' = IF worker = 0 THEN Append(workers, "loading") ELSE workers

(* What an op does once its restoring is over.  It threw if there was no   *)
(* run any more to read the mode of.  An error is written into the status  *)
(* view, and seen only if that is shown.                                   *)
Ended(op) == [op EXCEPT !.pc = "ended"]

handleError == view' = IF view = "status" THEN "error" ELSE view

afterRestore(o, threw, previous) ==
  /\ ops' = [previous EXCEPT ![o] = Ended(@)]
  /\ CASE previous[o].kind = "start"   -> handleError /\ UNCHANGED run
       [] previous[o].kind = "collect" ->
            run' = 0 /\ IF threw \/ previous[o].failed THEN handleError ELSE view' = "report"
       [] previous[o].kind = "cancel"  ->
            IF threw THEN UNCHANGED <<run, view>> ELSE run' = 0 /\ view' = "start"

(* From the end of detach: the dialog handler goes, the emulation is what  *)
(* it was, and after a navigation the page is loaded again.  The mode of   *)
(* the run is read only now; the mutant has forgotten the run by then.     *)
restoredEmulation == IF savedEmulation = "none" THEN emulation ELSE savedEmulation

runForgotten == TRUE

runGone == run = 0

restoreRest(o, previous) ==
  /\ dialogs' = dialogs \ {removesDialog}
  /\ emulation' = restoredEmulation
  /\ savedEmulation' = "none"
  /\ IF ~runGone /\ ops[run].mode = "navigation"
     THEN ops' = [previous EXCEPT ![o].pc = "navigate"] /\ UNCHANGED <<view, run>>
     ELSE afterRestore(o, runGone, previous)

(* From the end of the wait for the old worker: it is terminated, the      *)
(* connection closed, and the targets are resumed unless they are.         *)
keepsOpen(c) == open

closes(c) == [open EXCEPT ![c] = FALSE]

terminates(w) == [workers EXCEPT ![w] = "terminated"]

detachRest(o, w, c, previous) ==
  /\ workers' = IF w = 0 THEN workers ELSE terminates(w)
  /\ open' = IF c = 0 THEN open ELSE closes(c)
  /\ IF suspended
     THEN /\ suspended' = FALSE
          /\ ops' = [previous EXCEPT ![o].pc = "resume"]
          /\ UNCHANGED <<view, run, dialogs, emulation, savedEmulation>>
     ELSE restoreRest(o, previous) /\ UNCHANGED suspended

(* restoreEmulationAndProtocolConnection with detach, called by op o: it   *)
(* does nothing without a run.  The fields are reset before anything is    *)
(* awaited.                                                                *)
nothingToRestore == run = 0

restore(o, previous) ==
  IF nothingToRestore
  THEN /\ afterRestore(o, FALSE, previous)
       /\ UNCHANGED <<service, emulation, savedEmulation>>
  ELSE /\ worker' = 0 /\ connection' = 0
       /\ UNCHANGED removesDialog
       /\ IF worker # 0 /\ workers[worker] = "loading"
          THEN /\ ops' = [previous EXCEPT ![o].pc = "oldWorker", ![o].worker = worker,
                                          ![o].connection = connection]
               /\ UNCHANGED <<view, run, workers, open, suspended, dialogs, emulation, savedEmulation>>
          ELSE detachRest(o, worker, connection, previous)

-----------------------------------------------------------------------------
(* Starting.                                                               *)

(* The user starts a run.  The start view stays until the run is set up,   *)
(* under the dialog of a timespan if it is one.                            *)
clickStart(mode) ==
  /\ view = "start" /\ timespan = "none"
  /\ UserActs
  /\ ops' = Append(ops, NewOp("start", mode, "url"))
  /\ timespan' = IF mode = "timespan" THEN "starting" ELSE "none"
  /\ clashed' = (clashed \/ ~Quiet)
  /\ UNCHANGED <<view, run, service, emulation, savedEmulation>>

(* setupEmulationAndProtocolConnection up to what attach awaits.           *)
startSetup(o) ==
  /\ Awaiting(o, "url") /\ ops[o].kind = "start"
  /\ run' = o
  /\ savedEmulation' = emulation
  /\ emulation' = "lighthouse"
  /\ suspended' = TRUE
  /\ ops' = [ops EXCEPT ![o].pc = IF suspended THEN "connect" ELSE "suspend"]
  /\ UNCHANGED <<view, timespan, worker, connection, workers, open, dialogs, removesDialog>>

(* attach goes on, if there is a main frame, and opens a session.          *)
startConnects(o) ==
  /\ Awaiting(o, "suspend")
  /\ ops' = [ops EXCEPT ![o].pc = "connect"]
  /\ UNCHANGED <<view, timespan, run, service, emulation, savedEmulation>>

startFails(o) == Awaiting(o, "suspend") /\ restore(o, ops) /\ UNCHANGED timespan

(* The rest of attach, and what its caller does with it: a timespan is     *)
(* sent to the worker, and the other modes go on to collect, with the      *)
(* status view, which hides another dialog.                                *)
Request(o, previous) ==
  /\ ensureWorkerExists
  /\ ops' = [previous EXCEPT ![o].pc = "worker", ![o].worker = Ensured]

startAttached(o) ==
  LET c == Len(open) + 1
      collecting == Append([ops EXCEPT ![o] = Ended(@)], NewOp("collect", ops[o].mode, "worker"))
  IN  /\ Awaiting(o, "connect")
      /\ open' = Append(open, TRUE)
      /\ connection' = c
      /\ dialogs' = dialogs \cup {c}
      /\ removesDialog' = c
      /\ UNCHANGED <<suspended, emulation, savedEmulation>>
      /\ IF ops[o].mode = "timespan"
         THEN /\ UNCHANGED timespan
              /\ IF run = 0
                 THEN afterRestore(o, FALSE, ops) /\ UNCHANGED <<worker, workers>>
                 ELSE Request(o, ops) /\ UNCHANGED <<view, run>>
         ELSE /\ Len(ops) < MaxOps
              /\ timespan' = "none"
              /\ IF run = 0
                 THEN /\ ops' = [collecting EXCEPT ![Len(ops) + 1] = Ended(@)]
                      /\ view' = "error"
                      /\ UNCHANGED <<run, worker, workers>>
                 ELSE /\ view' = "status"
                      /\ Request(Len(ops) + 1, collecting)
                      /\ UNCHANGED run

(* The user ends a timespan.                                               *)
clickEnd ==
  /\ timespan = "ready"
  /\ UserActs
  /\ timespan' = "none"
  /\ LET collecting == Append(ops, NewOp("collect", "timespan", "worker"))
     IN  IF run = 0
         THEN /\ ops' = [collecting EXCEPT ![Len(ops) + 1] = Ended(@)]
              /\ view' = "error"
              /\ UNCHANGED <<worker, workers>>
         ELSE view' = "status" /\ Request(Len(ops) + 1, collecting)
  /\ UNCHANGED <<run, connection, open, suspended, dialogs, removesDialog, emulation, savedEmulation,
                 clashed>>

-----------------------------------------------------------------------------
(* The worker and the back end.                                            *)

workerReady(w) ==
  /\ workers[w] = "loading"
  /\ workers' = [workers EXCEPT ![w] = "ready"]
  /\ UNCHANGED <<ops, view, timespan, run, worker, connection, open, suspended, dialogs, removesDialog,
                 emulation, savedEmulation, clashed>>

(* A request is posted; a worker that is terminated by then never answers. *)
requestPosted(o) ==
  /\ Awaiting(o, "worker") /\ workers[ops[o].worker] # "loading"
  /\ ops' = [ops EXCEPT ![o].pc = "answer"]
  /\ UNCHANGED <<view, timespan, run, service, emulation, savedEmulation>>

(* Lighthouse answers, with a result or an error.  The answer to the start *)
(* of a timespan is not looked at.  A worker that an op waited for to      *)
(* terminate it is terminated in the microtasks after it loaded, before it *)
(* can answer.                                                             *)
answered(o) ==
  /\ Awaiting(o, "answer") /\ workers[ops[o].worker] = "ready"
  /\ \A x \in DOMAIN ops : ~(ops[x].pc = "oldWorker" /\ ops[x].worker = ops[o].worker)
  /\ UNCHANGED clashed
  /\ IF ops[o].kind = "start"
     THEN /\ ops' = [ops EXCEPT ![o] = Ended(@)]
          /\ timespan' = IF timespan = "starting" THEN "ready" ELSE timespan
          /\ UNCHANGED <<view, run, service, emulation, savedEmulation>>
     ELSE /\ \E failed \in BOOLEAN : restore(o, [ops EXCEPT ![o].failed = failed])
          /\ UNCHANGED timespan

(* dispatchProtocolMessage: the messages of the back end reach the worker  *)
(* through an open connection, and make one if there is none.              *)
protocolMessage ==
  /\ \E c \in DOMAIN open : open[c]
  /\ worker = 0
  /\ ensureWorkerExists
  /\ UNCHANGED <<ops, view, timespan, run, connection, open, suspended, dialogs, removesDialog,
                 emulation, savedEmulation, clashed>>

-----------------------------------------------------------------------------
(* Ending.                                                                 *)

(* The user cancels, in the dialog of a timespan, which goes, or in the    *)
(* status view, where the button stays while another op gives back.        *)
clickCancel ==
  /\ timespan # "none" \/ view \in {"status", "error"}
  /\ UserActs
  /\ timespan' = "none"
  /\ clashed' = (clashed \/ SettingUp)
  /\ restore(Len(ops) + 1, Append(ops, NewOp("cancel", "snapshot", "ended")))

oldWorkerReady(o) ==
  /\ Awaiting(o, "oldWorker") /\ workers[ops[o].worker] # "loading"
  /\ detachRest(o, ops[o].worker, ops[o].connection, ops)
  /\ UNCHANGED <<timespan, worker, connection, removesDialog>>

targetsResumed(o) ==
  /\ Awaiting(o, "resume")
  /\ restoreRest(o, ops)
  /\ UNCHANGED <<timespan, worker, connection, workers, open, suspended, removesDialog>>

pageReloaded(o) ==
  /\ Awaiting(o, "navigate")
  /\ afterRestore(o, FALSE, ops)
  /\ UNCHANGED <<timespan, service, emulation, savedEmulation>>

(* From a report the user goes back to the start view.                     *)
clickNew ==
  /\ view = "report"
  /\ timespan = "none"
  /\ view' = "start"
  /\ UNCHANGED <<ops, timespan, run, service, emulation, savedEmulation, clashed>>

Continues(o) ==
  /\ \/ startSetup(o) \/ startConnects(o) \/ startFails(o) \/ startAttached(o)
     \/ requestPosted(o) \/ oldWorkerReady(o) \/ targetsResumed(o) \/ pageReloaded(o)
  /\ UNCHANGED clashed

Next ==
  \/ \E mode \in Modes : clickStart(mode)
  \/ clickEnd \/ clickCancel \/ clickNew
  \/ \E w \in DOMAIN workers : workerReady(w)
  \/ \E o \in DOMAIN ops : Continues(o) \/ answered(o)
  \/ protocolMessage

(* What the front end awaits comes: answers of the back end and workers    *)
(* that load.  Lighthouse itself may take for ever.                        *)
Fairness ==
  /\ \A o \in 1..MaxOps : WF_vars(Continues(o))
  /\ \A w \in 1..MaxWorkers : WF_vars(w \in DOMAIN workers /\ workerReady(w))

Spec == Init /\ [][Next]_vars /\ Fairness

-----------------------------------------------------------------------------
(* Type invariant.                                                         *)
TypeOK ==
  /\ ops \in Seq(Op) /\ Len(ops) <= MaxOps
  /\ view \in {"start", "status", "report", "error"}
  /\ timespan \in {"none", "starting", "ready"}
  /\ run \in 0..Len(ops)
  /\ worker \in 0..Len(workers) /\ connection \in 0..Len(open)
  /\ workers \in Seq({"loading", "ready", "terminated"})
  /\ open \in Seq(BOOLEAN)
  /\ suspended \in BOOLEAN
  /\ dialogs \subseteq 1..Len(open) /\ removesDialog \in 0..Len(open)
  /\ emulation \in {"own", "lighthouse"} /\ savedEmulation \in {"own", "lighthouse", "none"}

(* What a run took is given back, when nothing is under way and the run is *)
(* over, or could not be set up: no session is open, no handler listens,   *)
(* the targets are resumed and the page has the emulation of the user.     *)
(* A worker may be left: until the one that a cancelled run waits for is   *)
(* loaded the session is open, and a message that comes there makes        *)
(* another.                                                                *)
AllGivenBack ==
  ~clashed /\ Quiet /\ (run = 0 \/ connection = 0) =>
    /\ \A c \in DOMAIN open : ~open[c]
    /\ ~suspended
    /\ dialogs = {}
    /\ emulation = "own" /\ savedEmulation = "none"

(* A run has one session and one worker, and those are the ones that the   *)
(* service would close, or that an op is about to.                         *)
NothingStray ==
  ~clashed =>
    /\ \A c \in DOMAIN open : open[c] =>
         c = connection \/ \E o \in DOMAIN ops : ops[o].pc = "oldWorker" /\ ops[o].connection = c
    /\ \A w \in DOMAIN workers : workers[w] # "terminated" =>
         w = worker \/ \E o \in DOMAIN ops : ops[o].pc = "oldWorker" /\ ops[o].worker = w

(* The emulation that is put back is never that of a run.                  *)
SavesOwnEmulation == ~clashed => savedEmulation # "lighthouse"

(* A user who cancels is not left waiting, though Lighthouse never answers *)
(* and its worker may still be loading: the status view goes, whatever     *)
(* else is giving back at the time; and where nothing else is, the start   *)
(* view comes back.                                                        *)
GivesBackAlone(o) ==
  /\ run # 0 /\ o \in DOMAIN ops /\ ops[o].kind = "cancel"
  /\ ops[o].pc \in {"oldWorker", "resume", "navigate"}
  /\ \A x \in DOMAIN ops \ {o} : ops[x].pc \in {"worker", "answer", "ended"}

CancelReturns ==
  \A o \in 1..MaxOps :
    /\ (o \in DOMAIN ops /\ ops[o].kind = "cancel") ~> (view # "status" \/ Len(ops) > o)
    /\ GivesBackAlone(o) ~> (view = "start" \/ Len(ops) > o)
=============================================================================
