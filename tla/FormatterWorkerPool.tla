------------------------ MODULE FormatterWorkerPool ------------------------
(***************************************************************************)
(* models/formatter/FormatterWorkerPool.ts with the WorkerWrapper of       *)
(* core/common/Worker.ts: tasks are queued and posted to a few workers.  A *)
(* worker answers a task with one message, or, when the task is chunked,   *)
(* with several of which the last says so; or it throws, and is replaced.  *)
(*                                                                         *)
(* A worker runs in a thread of its own: the messages it posts wait in     *)
(* outbox until the front end takes them.  What is posted to a worker      *)
(* before it says that it is ready waits in its wrapper.  A worker that    *)
(* was terminated is not heard any more.                                   *)
(***************************************************************************)
EXTENDS Naturals, SequencesExt, FiniteSetsExt

CONSTANTS Tasks,               \* calls of format, parseCSS, ...
          Chunked,             \* those whose answer comes in chunks
          HardwareConcurrency, \* navigator.hardwareConcurrency
          MaxChunks,           \* bound: messages of a task before its last
          MaxErrors            \* bound: tasks that make a worker throw

NoTask == "none"

PoolAssumption == /\ Chunked \subseteq Tasks /\ NoTask \notin Tasks
                  /\ HardwareConcurrency \in Nat \ {0}
                  /\ MaxChunks \in Nat /\ MaxErrors \in Nat
                  /\ IsFiniteSet(Tasks)

MAX_WORKERS == Min({2, HardwareConcurrency - 1})

VARIABLES
  taskQueue,   \* tasks that wait for a worker
  workerTasks, \* the Map from worker to task or null: entries in the order they were set
  workers,     \* of every worker made, whether it is loading, ready or terminated
  inbox,       \* of every worker, the tasks posted to it that it has not begun
  work,        \* of every worker, the task it computes
  outbox,      \* of every worker, what it posted and the front end has not taken
  parts,       \* of every task, how many chunks its callback was called with
  answers,     \* of every task, the calls that told its callback that it is over
  errors       \* number of times a worker threw

vars == <<taskQueue, workerTasks, workers, inbox, work, outbox, parts, answers, errors>>

Workers == DOMAIN workers
Entry == [worker : Workers, task : Tasks \cup {NoTask}]
Message == [task : Tasks, kind : {"chunk", "last", "error"}]

Init ==
  /\ taskQueue = << >>
  /\ workerTasks = << >>
  /\ workers = << >>
  /\ inbox = << >> /\ work = << >> /\ outbox = << >>
  /\ parts = [t \in Tasks |-> 0]
  /\ answers = [t \in Tasks |-> << >>]
  /\ errors = 0

(* A worker has one entry, if any.                                         *)
EntryOf(w) == CHOOSE i \in DOMAIN workerTasks : workerTasks[i].worker = w
TaskOf(w) == workerTasks[EntryOf(w)].task

SetTask(entries, w, t) ==
  [i \in DOMAIN entries |-> IF entries[i].worker = w THEN [worker |-> w, task |-> t] ELSE entries[i]]

FreeEntries(entries) == {i \in DOMAIN entries : entries[i].task = NoTask}

hasRoomForOne(entries) == entries = << >>

hasRoom(entries) == Len(entries) < MAX_WORKERS

(* processNextTask, after the queue and the map of workers have become     *)
(* queue and entries, and made workers have been made: a free worker, or a *)
(* new one if there is room, gets the first task of the queue.  The result *)
(* says how many workers there are then, and who gets what.                *)
processNextTask(queue, entries, made) ==
  LET free == FreeEntries(entries)
      w == IF free # {} THEN entries[Min(free)].worker ELSE made + 1
  IN  IF queue = << >> \/ (free = {} /\ ~hasRoom(entries))
      THEN [queue |-> queue, entries |-> entries, made |-> made, to |-> 0]
      ELSE [queue |-> Tail(queue), to |-> w, made |-> Max({made, w}),
            entries |-> IF free # {} THEN SetTask(entries, w, Head(queue))
                        ELSE Append(entries, [worker |-> w, task |-> Head(queue)])]

(* The state after it: new workers load, and the task is in the inbox.     *)
Posted(queue, entries, made) ==
  LET next == processNextTask(queue, entries, made)
      of(sequence, w, default) == IF w \in DOMAIN sequence THEN sequence[w] ELSE default
  IN  /\ taskQueue' = next.queue
      /\ workerTasks' = next.entries
      /\ inbox' = [w \in 1..next.made |-> of(inbox, w, << >>) \o (IF w = next.to THEN <<Head(queue)>> ELSE << >>)]
      /\ work' = [w \in 1..next.made |-> of(work, w, NoTask)]

Loading(made, terminated) ==
  [w \in 1..made |-> CASE w \in terminated -> "terminated"
                       [] w \notin Workers -> "loading"
                       [] OTHER -> workers[w]]

Outboxes(made, cleared) ==
  [w \in 1..made |-> IF w \notin Workers \/ w \in cleared THEN << >> ELSE outbox[w]]

Answered(t) == answers[t] # << >>

(* runTask and runChunkedTask.                                             *)
runTask(t) ==
  /\ t \notin ToSet(taskQueue) /\ ~Answered(t)
  /\ \A i \in DOMAIN workerTasks : workerTasks[i].task # t
  /\ Posted(Append(taskQueue, t), workerTasks, Len(workers))
  /\ workers' = Loading(Len(inbox'), {})
  /\ outbox' = Outboxes(Len(inbox'), {})
  /\ UNCHANGED <<parts, answers, errors>>

(* The worker says that it is ready, and its wrapper hands on what waits.  *)
workerReady(w) ==
  /\ workers[w] = "loading"
  /\ workers' = [workers EXCEPT ![w] = "ready"]
  /\ UNCHANGED <<taskQueue, workerTasks, inbox, work, outbox, parts, answers, errors>>

(* The worker begins the task posted to it.                                *)
workerBegins(w) ==
  /\ workers[w] = "ready"
  /\ inbox[w] # << >> /\ work[w] = NoTask
  /\ work' = [work EXCEPT ![w] = Head(inbox[w])]
  /\ inbox' = [inbox EXCEPT ![w] = Tail(@)]
  /\ UNCHANGED <<taskQueue, workerTasks, workers, outbox, parts, answers, errors>>

Post(w, kind) == outbox' = [outbox EXCEPT ![w] = Append(@, [task |-> work[w], kind |-> kind])]

workerPostsChunk(w) ==
  /\ workers[w] = "ready" /\ work[w] \in Chunked
  /\ parts[work[w]] + Len(outbox[w]) < MaxChunks
  /\ Post(w, "chunk")
  /\ UNCHANGED <<taskQueue, workerTasks, workers, inbox, work, parts, answers, errors>>

workerPostsLast(w) ==
  /\ workers[w] = "ready" /\ work[w] # NoTask
  /\ Post(w, "last")
  /\ work' = [work EXCEPT ![w] = NoTask]
  /\ UNCHANGED <<taskQueue, workerTasks, workers, inbox, parts, answers, errors>>

workerThrows(w) ==
  /\ workers[w] = "ready" /\ work[w] # NoTask
  /\ errors < MaxErrors
  /\ errors' = errors + 1
  /\ Post(w, "error")
  /\ work' = [work EXCEPT ![w] = NoTask]
  /\ UNCHANGED <<taskQueue, workerTasks, workers, inbox, parts, answers>>

(* The message that the front end takes next.                              *)
Oldest(w) == Head(outbox[w])

isPart(task, message) == task \in Chunked /\ message.kind # "last"

(* onWorkerMessage for a chunk: the worker keeps its task.                 *)
onWorkerChunk(w) ==
  /\ outbox[w] # << >> /\ Oldest(w).kind # "error"
  /\ isPart(TaskOf(w), Oldest(w))
  /\ parts' = [parts EXCEPT ![TaskOf(w)] = @ + 1]
  /\ outbox' = [outbox EXCEPT ![w] = Tail(@)]
  /\ UNCHANGED <<taskQueue, workerTasks, workers, inbox, work, answers, errors>>

(* onWorkerMessage for the last or only message: the worker is free, it    *)
(* gets the next task, and the callback is called.                         *)
onWorkerMessage(w) ==
  /\ outbox[w] # << >> /\ Oldest(w).kind # "error"
  /\ ~isPart(TaskOf(w), Oldest(w))
  /\ answers' = [answers EXCEPT ![TaskOf(w)] = Append(@, Oldest(w))]
  /\ Posted(taskQueue, SetTask(workerTasks, w, NoTask), Len(workers))
  /\ workers' = Loading(Len(inbox'), {})
  /\ outbox' = [Outboxes(Len(inbox'), {}) EXCEPT ![w] = Tail(@)]
  /\ UNCHANGED <<parts, errors>>

queueAfterError(w) == taskQueue

newEntry(new, w) == [worker |-> new, task |-> NoTask]

entriesWithout(w) == RemoveAt(workerTasks, EntryOf(w))

(* onWorkerError: the worker is terminated and another takes its place;    *)
(* the callback is called with null, which says that the task is over.     *)
onWorkerError(w) ==
  /\ outbox[w] # << >> /\ Oldest(w).kind = "error"
  /\ LET new == Len(workers) + 1
     IN  Posted(queueAfterError(w), Append(entriesWithout(w), newEntry(new, w)), new)
  /\ workers' = Loading(Len(inbox'), {w})
  /\ outbox' = Outboxes(Len(inbox'), {w})
  /\ answers' = [answers EXCEPT ![TaskOf(w)] = Append(@, Oldest(w))]
  /\ UNCHANGED <<parts, errors>>

WorkerSteps(w) ==
  workerReady(w) \/ workerBegins(w) \/ workerPostsLast(w) \/ onWorkerChunk(w) \/ onWorkerMessage(w) \/ onWorkerError(w)

Next ==
  \/ \E t \in Tasks : runTask(t)
  \/ \E w \in Workers : WorkerSteps(w) \/ workerPostsChunk(w) \/ workerThrows(w)

(* Workers load, they compute for a finite time, and events are handled.   *)
Fairness == \A w \in 1..(2 + MaxErrors) : WF_vars(w \in Workers /\ WorkerSteps(w))

Spec == Init /\ [][Next]_vars /\ Fairness

-----------------------------------------------------------------------------
(* Type invariant.                                                         *)
TypeOK ==
  /\ taskQueue \in Seq(Tasks)
  /\ workerTasks \in Seq(Entry)
  /\ workers \in Seq({"loading", "ready", "terminated"})
  /\ inbox \in [Workers -> Seq(Tasks)]
  /\ work \in [Workers -> Tasks \cup {NoTask}]
  /\ outbox \in [Workers -> Seq(Message)]
  /\ parts \in [Tasks -> 0..MaxChunks]
  /\ answers \in [Tasks -> Seq(Message)]
  /\ errors \in 0..MaxErrors

(* The pool never holds more than MAX_WORKERS workers, also after errors,  *)
(* none of them terminated and none twice.                                 *)
PoolIsBounded ==
  /\ Len(workerTasks) <= MAX_WORKERS
  /\ \A i, j \in DOMAIN workerTasks :
       /\ workers[workerTasks[i].worker] # "terminated"
       /\ workerTasks[i].worker = workerTasks[j].worker => i = j

(* A message of a worker is about the task that the pool holds for it: no  *)
(* callback gets the answer of another task.                               *)
AnswersAreOwn ==
  /\ \A w \in Workers : outbox[w] # << >> =>
       (\E i \in DOMAIN workerTasks : workerTasks[i].worker = w) /\ Oldest(w).task = TaskOf(w)
  /\ \A t \in Tasks : \A i \in DOMAIN answers[t] : answers[t][i].task = t

(* The pool implements TaskPool: in order, no slot idle while a task       *)
(* waits, at most MAX_WORKERS at a time, each task over exactly once.      *)
Pool == INSTANCE TaskPool WITH
  Limit <- MAX_WORKERS,
  waiting <- taskQueue,
  running <- {workerTasks[i].task : i \in DOMAIN workerTasks} \ {NoTask},
  over <- {t \in Tasks : Answered(t)}

ImplementsTaskPool == Pool!PoolSpec

(* After the call that says that a task is over, its callback is not       *)
(* called again.                                                           *)
OverIsOver ==
  [][\A t \in Tasks : Answered(t) => UNCHANGED <<answers[t], parts[t]>>]_vars

(* On a machine with more than one core every task is over in the end,     *)
(* though workers throw.                                                   *)
EveryTaskIsAnswered ==
  MAX_WORKERS > 0 =>
    \A t \in Tasks :
      (t \in ToSet(taskQueue) \/ \E i \in DOMAIN workerTasks : workerTasks[i].task = t) ~> Answered(t)
=============================================================================
