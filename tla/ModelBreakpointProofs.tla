----------------------- MODULE ModelBreakpointProofs -----------------------
(***************************************************************************)
(* One breakpoint in one target, for any locations, conditions and number  *)
(* of updates at once: the back-end is never asked for a position it has,  *)
(* and has the right ones in the end.  BreakpointInv holds however         *)
(* suspensions and resumes overlap: the mutex lets one update in           *)
(* (MutexOf), who awaits an answer has one command on the wire (WireOf),   *)
(* the ids are those the back-end has positions for (IdsOf), and what is   *)
(* set is what was read last (ReadOf).  DebuggerInv and ProgressInv hold   *)
(* until a suspension is overtaken: what is out of step always has an      *)
(* update that will look at it.                                            *)
(***************************************************************************)
EXTENDS ModelBreakpoint, TLAPS

Commands == [op : {"set", "remove", "enable", "depth", "disable"}, by : Procs \cup {0},
             state : SUBSET Positions]

Flags ==
  /\ enabled \in BOOLEAN /\ isRemoved \in BOOLEAN /\ diverged \in BOOLEAN
  /\ debuggerEnabled \in BOOLEAN /\ isReadyToPause \in BOOLEAN /\ disposed \in BOOLEAN
  /\ cancelCallback \in BOOLEAN /\ resolved \in BOOLEAN
  /\ backendOn \in BOOLEAN /\ cutShort \in BOOLEAN

Data ==
  /\ condition \in Conditions
  /\ read \in [Procs -> Conditions \cup {NoCondition}]
  /\ lastRead \in Conditions \cup {NoCondition}
  /\ breakpointIds \subseteq Locs /\ currentState \subseteq Positions /\ backend \subseteq Positions

(* The commands of disableDebugger.                                        *)
Offs == {"depth", "disable"}

(* The mutex: who is in its queue waits, but for the first.                *)
MutexOf(queue, ph) ==
  /\ queue \in Seq(Procs) /\ ph \in [Procs -> Phases]
  /\ \A i, j \in DOMAIN queue : queue[i] = queue[j] => i = j
  /\ \A u \in Procs :
       ph[u] \in {"idle", "refreshing"} <=> u \notin {queue[i] : i \in DOMAIN queue}
  /\ \A i \in DOMAIN queue : i > 1 => ph[queue[i]] = "waiting"

MutexInv == MutexOf(updateMutex, phase)

(* A command of an update is answered once, and the update awaits it.      *)
WireOf(w, ph) ==
  /\ w \in Seq(Commands)
  /\ \A i \in DOMAIN w :
       /\ w[i].op = "set" => w[i].by \in Procs /\ ph[w[i].by] = "setting"
       /\ w[i].op = "remove" => w[i].by \in Procs /\ ph[w[i].by] \in {"resetting", "refreshing"}
  /\ \A i, j \in DOMAIN w :
       /\ w[i].op \in {"set", "remove"} /\ w[j].op \in {"set", "remove"}
       /\ w[i].by = w[j].by
       => i = j

WireInv == WireOf(wire, phase)

(* Ids are known while nothing is being set, and are those the back-end    *)
(* has positions for; what is to be removed is all there is.               *)
IdsOf(w, ids, cut, be) ==
  /\ \A i \in DOMAIN w : w[i].op = "set" => ids = {}
  /\ \A i, j \in DOMAIN w : w[i].op = "set" /\ w[j].op = "remove" => j < i
  /\ \A i \in DOMAIN w : w[i].op = "remove" =>
       \E I \in SUBSET Locs : w[i].state = I \X Conditions /\ ids \subseteq I
  /\ ~cut => be = {} \/ At(be) = ids

IdsInv == IdsOf(wire, breakpointIds, cutShort, backend)

(* The one that holds the mutex has read last, and sets what it read.      *)
ReadOf(w, ph, rd, last) ==
  /\ \A u \in Procs : ph[u] = "resolving" => rd[u] = last /\ last \in Conditions
  /\ \A i \in DOMAIN w : w[i].op = "set" =>
       w[i].state \subseteq Locs \X {last} /\ w[i].state # {} /\ last \in Conditions

ReadInv == ReadOf(wire, phase, read, lastRead)

(* No suspension was overtaken: the debugger that counts as enabled is not *)
(* being disabled, and of one that does not the last command under way, if *)
(* any, disables it.                                                       *)
DebuggerInv ==
  /\ \A i, j \in DOMAIN wire :
       /\ wire[i].op = "enable" /\ wire[j].op = "enable" => i = j
       /\ wire[i].op \in Offs /\ wire[j].op \in Offs => i = j
  /\ \A i \in DOMAIN wire :
       /\ wire[i].op \in Offs => ~debuggerEnabled
       /\ wire[i].op = "enable" /\ ~debuggerEnabled =>
            \E j \in DOMAIN wire : j > i /\ wire[j].op \in Offs
  /\ ~debuggerEnabled /\ (\A i \in DOMAIN wire : wire[i].op \notin Offs) => ~backendOn
  /\ ~disposed => (backendOn <=> isReadyToPause)

(* What the model thinks the back-end has.                                 *)
StateInv ==
  ~cutShort =>
    /\ backend \subseteq currentState
    /\ breakpointIds # {} /\ currentState # {} => backend # {} \/ isRemoved \/ disposed

(* The breakpoint was removed while the debugger was disabled: nothing     *)
(* reaches the back-end any more.                                          *)
Gone ==
  /\ isRemoved /\ backend = {} /\ \A u \in Procs : phase[u] # "resolving"
  /\ \A i \in DOMAIN wire : wire[i].op = "set" =>
       ~backendOn /\ \E j \in DOMAIN wire : j > i /\ wire[j].op = "enable"

Fresh ==
  IF enabled /\ ~isRemoved THEN lastRead \in {condition, NoCondition}
  ELSE lastRead = NoCondition \/ Gone

Somebody(phases) == \E u \in Procs : phase[u] \in phases

InLine ==
  IF lastRead = NoCondition THEN backend = {}
  ELSE backend # {} /\ backend \subseteq Locs \X {lastRead}

ProgressInv ==
  debuggerEnabled /\ ~disposed =>
    /\ Fresh \/ Somebody({"waiting"})
    /\ ~cutShort => InLine \/ Gone \/
         Somebody({"waiting", "resolving", "resetting", "setting", "refreshing"})

(* What holds however suspensions and resumes overlap, and what holds if   *)
(* no suspension was overtaken.                                            *)
BreakpointInv ==
  /\ Flags /\ Data /\ MutexInv /\ WireInv /\ IdsInv /\ ReadInv
  /\ ~backendOn => backend = {}
  /\ disposed => ~backendOn

InStepInv ==
  /\ overtaken \in BOOLEAN /\ StateInv
  /\ ~overtaken => DebuggerInv /\ ProgressInv

(* What appending to a sequence and taking its head off do.                *)
LEMMA Appended ==
  ASSUME NEW S, NEW s \in Seq(S), NEW e \in S
  PROVE  /\ Append(s, e) \in Seq(S) /\ Len(s) \in Nat
         /\ DOMAIN s = 1..Len(s) /\ DOMAIN Append(s, e) = DOMAIN s \cup {Len(s) + 1}
         /\ Append(s, e)[Len(s) + 1] = e
         /\ \A i \in DOMAIN s : Append(s, e)[i] = s[i] /\ i \in Nat /\ 1 <= i /\ i < Len(s) + 1
OBVIOUS

LEMMA Tailed ==
  ASSUME NEW S, NEW s \in Seq(S), s # << >>
  PROVE  /\ Tail(s) \in Seq(S) /\ Len(s) \in Nat /\ 1 \in DOMAIN s /\ Head(s) = s[1] /\ s[1] \in S
         /\ Len(Tail(s)) = Len(s) - 1
         /\ \A i \in DOMAIN Tail(s) :
              i \in Nat /\ 1 <= i /\ i + 1 \in DOMAIN s /\ Tail(s)[i] = s[i + 1]
         /\ \A i \in DOMAIN s : i = 1 \/ (i \in Nat /\ 1 < i /\ i - 1 \in DOMAIN Tail(s))
OBVIOUS

LEMMA Elements ==
  ASSUME NEW S, NEW s \in Seq(S) PROVE \A i \in DOMAIN s : s[i] \in S /\ i \in Nat /\ 1 <= i
OBVIOUS

-----------------------------------------------------------------------------
(* The mutex.  Only the first in its queue may be past waiting.            *)
Active == {"resolving", "resetting", "setting", "locating"}

LEMMA QueuedIs == ASSUME MutexInv PROVE Queued = {updateMutex[i] : i \in DOMAIN updateMutex}
<1>1. DOMAIN updateMutex = 1..Len(updateMutex)
  BY DEF MutexInv, MutexOf
<1> QED
  BY <1>1 DEF Queued

LEMMA ActiveHolds ==
  ASSUME MutexInv, NEW u \in Procs, phase[u] \in Active
  PROVE  Holds(u)
<1>1. PICK i \in DOMAIN updateMutex : updateMutex[i] = u
  BY DEF MutexInv, MutexOf, Active
<1>2. i \in Nat /\ 1 <= i /\ ~(i > 1)
  BY <1>1 DEF MutexInv, MutexOf, Active
<1>3. i = 1 /\ updateMutex # << >> /\ updateMutex \in Seq(Procs)
  BY <1>1, <1>2 DEF MutexInv, MutexOf
<1> QED
  BY <1>1, <1>3 DEF Holds

LEMMA OneActive ==
  ASSUME MutexInv, NEW u \in Procs, NEW v \in Procs, phase[u] \in Active, phase[v] \in Active
  PROVE  u = v
BY ActiveHolds DEF Holds

LEMMA HolderWaits ==
  ASSUME MutexInv, NEW u \in Procs, Holds(u)
  PROVE  /\ updateMutex # << >> /\ updateMutex[1] = u /\ 1 \in DOMAIN updateMutex
         /\ phase[u] \notin {"idle", "refreshing"}
<1>1. updateMutex # << >> /\ updateMutex[1] = u /\ 1 \in DOMAIN updateMutex
  BY DEF Holds, MutexInv, MutexOf
<1> QED
  BY <1>1 DEF MutexInv, MutexOf

(* Joining the queue and letting go of the mutex.                          *)
LEMMA Joins ==
  ASSUME NEW q, NEW ph, MutexOf(q, ph), NEW u \in Procs, ph[u] \in {"idle", "refreshing"}
  PROVE  MutexOf(Append(q, u), [ph EXCEPT ![u] = "waiting"])
<1> DEFINE qq == Append(q, u)
           pp == [ph EXCEPT ![u] = "waiting"]
<1>1. ph \in [Procs -> Phases] /\ q \in Seq(Procs) /\ u \notin {q[i] : i \in DOMAIN q}
  BY DEF MutexOf
<1>2. /\ pp \in [Procs -> Phases] /\ pp[u] = "waiting"
      /\ \A v \in Procs : v # u => pp[v] = ph[v]
  BY <1>1 DEF Phases
<1>3. /\ qq \in Seq(Procs) /\ Len(q) \in Nat /\ DOMAIN qq = DOMAIN q \cup {Len(q) + 1}
      /\ qq[Len(q) + 1] = u
      /\ \A i \in DOMAIN q : qq[i] = q[i] /\ q[i] # u /\ q[i] \in Procs
  BY <1>1, Appended
<1> HIDE DEF qq, pp
<1>4. \A i, j \in DOMAIN qq : qq[i] = qq[j] => i = j
  BY <1>3 DEF MutexOf
<1>5. {qq[i] : i \in DOMAIN qq} = {q[i] : i \in DOMAIN q} \cup {u}
  BY <1>3
<1>6. \A v \in Procs : pp[v] \in {"idle", "refreshing"} <=> v \notin {qq[i] : i \in DOMAIN qq}
  BY <1>2, <1>5 DEF MutexOf
<1>7. \A i \in DOMAIN qq : i > 1 => pp[qq[i]] = "waiting"
  BY <1>2, <1>3 DEF MutexOf
<1>8. MutexOf(qq, pp)
  BY <1>2, <1>3, <1>4, <1>6, <1>7 DEF MutexOf
<1> QED
  BY <1>8 DEF qq, pp

LEMMA LetsGo ==
  ASSUME NEW q, NEW ph, MutexOf(q, ph), NEW u \in Procs, q # << >>, q[1] = u
  PROVE  MutexOf(Tail(q), [ph EXCEPT ![u] = "idle"])
<1> DEFINE qq == Tail(q)
           pp == [ph EXCEPT ![u] = "idle"]
<1>1. ph \in [Procs -> Phases] /\ q \in Seq(Procs)
  BY DEF MutexOf
<1>2. /\ pp \in [Procs -> Phases] /\ pp[u] = "idle"
      /\ \A v \in Procs : v # u => pp[v] = ph[v]
  BY <1>1 DEF Phases
<1>3. /\ qq \in Seq(Procs) /\ 1 \in DOMAIN q
      /\ \A i \in DOMAIN qq :
           i \in Nat /\ 1 <= i /\ i + 1 \in DOMAIN q /\ qq[i] = q[i + 1]
      /\ \A i \in DOMAIN q : i = 1 \/ (i \in Nat /\ 1 < i /\ i - 1 \in DOMAIN qq)
  BY <1>1, Tailed
<1> HIDE DEF qq, pp
<1>4. \A i \in DOMAIN qq : qq[i] # u /\ qq[i] \in Procs
  <2> SUFFICES ASSUME NEW i \in DOMAIN qq PROVE q[i + 1] # u /\ q[i + 1] \in Procs
    BY <1>3
  <2>1. i + 1 # 1 /\ i + 1 \in DOMAIN q
    BY <1>3
  <2> QED
    BY <2>1, <1>1, <1>3 DEF MutexOf
<1>5. \A i, j \in DOMAIN qq : qq[i] = qq[j] => i = j
  <2> SUFFICES ASSUME NEW i \in DOMAIN qq, NEW j \in DOMAIN qq, q[i + 1] = q[j + 1]
               PROVE  i = j
    BY <1>3
  <2>1. i + 1 = j + 1
    BY <1>3 DEF MutexOf
  <2> QED
    BY <2>1, <1>3
<1>6. {qq[i] : i \in DOMAIN qq} = {q[i] : i \in DOMAIN q} \ {u}
  <2>1. ASSUME NEW i \in DOMAIN q, q[i] # u PROVE \E j \in DOMAIN qq : qq[j] = q[i]
    <3>1. i # 1
      BY <2>1
    <3>2. i - 1 \in DOMAIN qq /\ qq[i - 1] = q[(i - 1) + 1] /\ i \in Nat
      BY <3>1, <1>3
    <3>3. (i - 1) + 1 = i
      BY <3>2
    <3> QED
      BY <3>2, <3>3
  <2>2. ASSUME NEW i \in DOMAIN qq PROVE qq[i] # u /\ \E j \in DOMAIN q : q[j] = qq[i]
    BY <1>3, <1>4
  <2> QED
    BY <2>1, <2>2
<1>7. \A v \in Procs : pp[v] \in {"idle", "refreshing"} <=> v \notin {qq[i] : i \in DOMAIN qq}
  BY <1>2, <1>6 DEF MutexOf
<1>8. \A i \in DOMAIN qq : i > 1 => pp[qq[i]] = "waiting"
  <2> SUFFICES ASSUME NEW i \in DOMAIN qq PROVE pp[qq[i]] = "waiting"
    OBVIOUS
  <2>1. i + 1 \in DOMAIN q /\ i + 1 > 1 /\ qq[i] = q[i + 1]
    BY <1>3
  <2>2. ph[q[i + 1]] = "waiting"
    BY <2>1 DEF MutexOf
  <2> QED
    BY <2>1, <2>2, <1>2, <1>4
<1>9. MutexOf(qq, pp)
  BY <1>2, <1>3, <1>5, <1>7, <1>8 DEF MutexOf
<1> QED
  BY <1>9 DEF qq, pp

(* The phase of one update changes, the queue does not.                    *)
LEMMA AwaitKeeps ==
  ASSUME MutexInv, NEW u \in Procs, NEW x \in Phases, Await(u, x),
         \/ Holds(u) /\ x \notin {"idle", "refreshing"}
         \/ phase[u] \in {"idle", "refreshing"} /\ x \in {"idle", "refreshing"}
  PROVE  MutexInv' /\ phase' = [phase EXCEPT ![u] = x]
<1>1. /\ updateMutex' = updateMutex /\ phase' = [phase EXCEPT ![u] = x]
      /\ phase \in [Procs -> Phases] /\ updateMutex \in Seq(Procs)
  BY DEF Await, MutexInv, MutexOf
<1>2. phase' \in [Procs -> Phases] /\ phase'[u] = x /\ \A v \in Procs : v # u => phase'[v] = phase[v]
  BY <1>1
<1>3. \A v \in Procs : phase'[v] \in {"idle", "refreshing"} <=> phase[v] \in {"idle", "refreshing"}
  BY <1>2, HolderWaits
<1>4. \A i \in DOMAIN updateMutex : i > 1 => phase'[updateMutex[i]] = "waiting"
  <2> SUFFICES ASSUME NEW i \in DOMAIN updateMutex, i > 1 PROVE phase'[updateMutex[i]] = "waiting"
    OBVIOUS
  <2>1. updateMutex[i] \in Procs /\ phase[updateMutex[i]] = "waiting" /\ i # 1
    BY <1>1 DEF MutexInv, MutexOf
  <2>2. updateMutex[i] # u
    BY <2>1, HolderWaits DEF MutexInv, MutexOf
  <2> QED
    BY <1>2, <2>1, <2>2
<1>5. MutexOf(updateMutex, phase')
  BY <1>1, <1>2, <1>3, <1>4 DEF MutexInv, MutexOf
<1> QED
  BY <1>1, <1>5 DEF MutexInv

LEMMA EnqueueKeeps ==
  ASSUME MutexInv, NEW u \in Procs, phase[u] \in {"idle", "refreshing"}, Enqueue(u, updateMutex)
  PROVE  MutexInv' /\ phase' = [phase EXCEPT ![u] = "waiting"]
BY Joins DEF MutexInv, Enqueue

LEMMA ReleaseKeeps ==
  ASSUME MutexInv, NEW u \in Procs, Holds(u), Release(u)
  PROVE  MutexInv' /\ phase' = [phase EXCEPT ![u] = "idle"]
BY LetsGo, HolderWaits DEF MutexInv, Release

(* Lets go, and waits again behind the others.                             *)
LEMMA RequeueKeeps ==
  ASSUME MutexInv, NEW u \in Procs, Holds(u), Enqueue(u, Tail(updateMutex))
  PROVE  MutexInv' /\ phase' = [phase EXCEPT ![u] = "waiting"]
<1>1. MutexOf(Tail(updateMutex), [phase EXCEPT ![u] = "idle"]) /\ phase \in [Procs -> Phases]
  BY LetsGo, HolderWaits DEF MutexInv, MutexOf
<1>2. MutexOf(Append(Tail(updateMutex), u), [[phase EXCEPT ![u] = "idle"] EXCEPT ![u] = "waiting"])
  <2>1. [phase EXCEPT ![u] = "idle"][u] = "idle"
    BY <1>1
  <2> QED
    BY <1>1, <2>1, Joins
<1>3. [[phase EXCEPT ![u] = "idle"] EXCEPT ![u] = "waiting"] = [phase EXCEPT ![u] = "waiting"]
  BY <1>1
<1> QED
  BY <1>2, <1>3 DEF MutexInv, Enqueue

-----------------------------------------------------------------------------
(* The commands on the wire.                                               *)
Asking == {"setting", "resetting", "refreshing"}
Controls == {"enable", "depth", "disable"}

LEMMA CommandIs ==
  ASSUME NEW op, NEW u, NEW st
  PROVE  /\ Command(op, u, st).op = op /\ Command(op, u, st).by = u
         /\ Command(op, u, st).state = st
         /\ (op \in {"set", "remove", "enable", "depth", "disable"} /\ u \in Procs \cup {0}
              /\ st \subseteq Positions => Command(op, u, st) \in Commands)
BY DEF Command, Commands

LEMMA WireCalm ==
  ASSUME NEW w, NEW ph \in [Procs -> Phases], WireOf(w, ph), NEW u \in Procs, ph[u] \notin Asking,
         NEW x
  PROVE  WireOf(w, [ph EXCEPT ![u] = x])
BY DEF WireOf, Asking

LEMMA WireSends ==
  ASSUME NEW w, NEW ph \in [Procs -> Phases], WireOf(w, ph), NEW u \in Procs, ph[u] \notin Asking,
         NEW op, NEW x, NEW st, st \subseteq Positions,
         \/ op = "set" /\ x = "setting"
         \/ op = "remove" /\ x \in {"resetting", "refreshing"}
  PROVE  WireOf(Append(w, Command(op, u, st)), [ph EXCEPT ![u] = x])
<1> DEFINE c == Command(op, u, st)
           ww == Append(w, c)
           pp == [ph EXCEPT ![u] = x]
<1>1. c \in Commands /\ c.op = op /\ c.by = u
  BY CommandIs
<1>2. pp[u] = x /\ \A v \in Procs : v # u => pp[v] = ph[v]
  OBVIOUS
<1> HIDE DEF c
<1>3. /\ ww \in Seq(Commands) /\ Len(w) \in Nat /\ DOMAIN ww = DOMAIN w \cup {Len(w) + 1}
      /\ ww[Len(w) + 1] = c /\ \A i \in DOMAIN w : ww[i] = w[i]
  BY <1>1, Appended DEF WireOf
<1>4. \A i \in DOMAIN w : w[i].op \in {"set", "remove"} => w[i].by \in Procs /\ w[i].by # u
  BY DEF WireOf, Asking
<1> HIDE DEF ww, pp
<1>5. ASSUME NEW i \in DOMAIN ww
      PROVE  /\ ww[i].op = "set" => ww[i].by \in Procs /\ pp[ww[i].by] = "setting"
             /\ ww[i].op = "remove" => ww[i].by \in Procs /\ pp[ww[i].by] \in {"resetting", "refreshing"}
  <2>1. CASE i \in DOMAIN w
    BY <2>1, <1>2, <1>3, <1>4 DEF WireOf
  <2>2. CASE i = Len(w) + 1
    BY <2>2, <1>1, <1>2, <1>3
  <2> QED
    BY <2>1, <2>2, <1>3
<1>6. ASSUME NEW i \in DOMAIN ww, NEW j \in DOMAIN ww, ww[i].op \in {"set", "remove"},
             ww[j].op \in {"set", "remove"}, ww[i].by = ww[j].by
      PROVE  i = j
  <2>1. CASE i \in DOMAIN w /\ j \in DOMAIN w
    BY <2>1, <1>3, <1>6 DEF WireOf
  <2>2. CASE i \in DOMAIN w /\ j = Len(w) + 1
    BY <2>2, <1>1, <1>3, <1>4, <1>6
  <2>3. CASE i = Len(w) + 1 /\ j \in DOMAIN w
    BY <2>3, <1>1, <1>3, <1>4, <1>6
  <2>4. CASE i = Len(w) + 1 /\ j = Len(w) + 1
    BY <2>4
  <2> QED
    BY <2>1, <2>2, <2>3, <2>4, <1>3
<1>7. WireOf(ww, pp)
  BY <1>3, <1>5, <1>6 DEF WireOf
<1> QED
  BY <1>7 DEF ww, pp, c

LEMMA WireControls ==
  ASSUME NEW w, NEW ph, WireOf(w, ph), NEW op \in Controls
  PROVE  WireOf(Append(w, Command(op, 0, {})), ph)
<1> DEFINE c == Command(op, 0, {})
           ww == Append(w, c)
<1>1. c \in Commands /\ c.op \notin {"set", "remove"}
  BY CommandIs DEF Controls
<1> HIDE DEF c
<1>3. /\ ww \in Seq(Commands) /\ Len(w) \in Nat /\ DOMAIN ww = DOMAIN w \cup {Len(w) + 1}
      /\ ww[Len(w) + 1] = c /\ \A i \in DOMAIN w : ww[i] = w[i]
  BY <1>1, Appended DEF WireOf
<1> HIDE DEF ww
<1>4. \A i \in DOMAIN ww : ww[i].op \in {"set", "remove"} => i \in DOMAIN w
  BY <1>1, <1>3
<1>7. WireOf(ww, ph)
  BY <1>3, <1>4 DEF WireOf
<1> QED
  BY <1>7 DEF ww, c

LEMMA WireAnswered ==
  ASSUME NEW w, NEW ph \in [Procs -> Phases], WireOf(w, ph), w # << >>,
         w[1].op \in {"set", "remove"}, NEW x
  PROVE  WireOf(Tail(w), [ph EXCEPT ![w[1].by] = x])
<1> DEFINE ww == Tail(w)
           pp == [ph EXCEPT ![w[1].by] = x]
<1>1. /\ ww \in Seq(Commands) /\ 1 \in DOMAIN w
      /\ \A i \in DOMAIN ww : i \in Nat /\ 1 <= i /\ i + 1 \in DOMAIN w /\ ww[i] = w[i + 1]
  BY Tailed DEF WireOf
<1>2. w[1].by \in Procs /\ \A v \in Procs : v # w[1].by => pp[v] = ph[v]
  BY <1>1 DEF WireOf
<1> HIDE DEF ww, pp
<1>3. \A i \in DOMAIN ww : ww[i].op \in {"set", "remove"} => ww[i].by # w[1].by
  <2> SUFFICES ASSUME NEW i \in DOMAIN ww, ww[i].op \in {"set", "remove"} PROVE ww[i].by # w[1].by
    OBVIOUS
  <2>1. i + 1 \in DOMAIN w /\ i + 1 # 1 /\ ww[i] = w[i + 1]
    BY <1>1
  <2> QED
    BY <2>1, <1>1 DEF WireOf
<1>4. \A i \in DOMAIN ww :
        /\ ww[i].op = "set" => ww[i].by \in Procs /\ pp[ww[i].by] = "setting"
        /\ ww[i].op = "remove" => ww[i].by \in Procs /\ pp[ww[i].by] \in {"resetting", "refreshing"}
  BY <1>1, <1>2, <1>3 DEF WireOf
<1>5. \A i, j \in DOMAIN ww :
        /\ ww[i].op \in {"set", "remove"} /\ ww[j].op \in {"set", "remove"}
        /\ ww[i].by = ww[j].by
        => i = j
  <2> SUFFICES ASSUME NEW i \in DOMAIN ww, NEW j \in DOMAIN ww, ww[i].op \in {"set", "remove"},
                      ww[j].op \in {"set", "remove"}, ww[i].by = ww[j].by
               PROVE  i = j
    OBVIOUS
  <2>1. i + 1 = j + 1
    BY <1>1 DEF WireOf
  <2> QED
    BY <2>1, <1>1
<1>6. WireOf(ww, pp)
  BY <1>1, <1>4, <1>5 DEF WireOf
<1> QED
  BY <1>6 DEF ww, pp

LEMMA WireTail ==
  ASSUME NEW w, NEW ph, WireOf(w, ph), w # << >>
  PROVE  WireOf(Tail(w), ph)
<1> DEFINE ww == Tail(w)
<1>1. /\ ww \in Seq(Commands) /\ 1 \in DOMAIN w
      /\ \A i \in DOMAIN ww : i \in Nat /\ 1 <= i /\ i + 1 \in DOMAIN w /\ ww[i] = w[i + 1]
  BY Tailed DEF WireOf
<1> HIDE DEF ww
<1>4. \A i \in DOMAIN ww :
        /\ ww[i].op = "set" => ww[i].by \in Procs /\ ph[ww[i].by] = "setting"
        /\ ww[i].op = "remove" => ww[i].by \in Procs /\ ph[ww[i].by] \in {"resetting", "refreshing"}
  BY <1>1 DEF WireOf
<1>5. \A i, j \in DOMAIN ww :
        /\ ww[i].op \in {"set", "remove"} /\ ww[j].op \in {"set", "remove"}
        /\ ww[i].by = ww[j].by
        => i = j
  <2> SUFFICES ASSUME NEW i \in DOMAIN ww, NEW j \in DOMAIN ww, ww[i].op \in {"set", "remove"},
                      ww[j].op \in {"set", "remove"}, ww[i].by = ww[j].by
               PROVE  i = j
    OBVIOUS
  <2>1. i + 1 = j + 1
    BY <1>1 DEF WireOf
  <2> QED
    BY <2>1, <1>1
<1>6. WireOf(ww, ph)
  BY <1>1, <1>4, <1>5 DEF WireOf
<1> QED
  BY <1>6 DEF ww

(* At most one update sets.                                                *)
LEMMA OneSet ==
  ASSUME MutexInv, WireInv, NEW i \in DOMAIN wire, NEW j \in DOMAIN wire,
         wire[i].op = "set", wire[j].op = "set"
  PROVE  i = j
<1>1. wire[i].by \in Procs /\ wire[j].by \in Procs /\ wire[i].by = wire[j].by
  BY OneActive DEF WireInv, WireOf, Active
<1> QED
  BY <1>1 DEF WireInv, WireOf

-----------------------------------------------------------------------------
(* The ids.                                                                *)
LEMMA IdsSame ==
  ASSUME NEW w, NEW ids, NEW cut, NEW be, IdsOf(w, ids, cut, be), NEW cut2, cut => cut2,
         NEW be2 \in {be, {}}
  PROVE  IdsOf(w, ids, cut2, be2)
BY DEF IdsOf

LEMMA IdsSets ==
  ASSUME NEW w \in Seq(Commands), NEW cut, NEW be, IdsOf(w, {}, cut, be), NEW u \in Procs,
         NEW st, st \subseteq Positions
  PROVE  IdsOf(Append(w, Command("set", u, st)), {}, cut, be)
<1> DEFINE c == Command("set", u, st)
           ww == Append(w, c)
<1>1. c \in Commands /\ c.op = "set"
  BY CommandIs
<1> HIDE DEF c
<1>3. /\ Len(w) \in Nat /\ DOMAIN ww = DOMAIN w \cup {Len(w) + 1} /\ ww[Len(w) + 1] = c
      /\ \A i \in DOMAIN w : ww[i] = w[i] /\ i < Len(w) + 1
  BY <1>1, Appended
<1> HIDE DEF ww
<1>4. \A i \in DOMAIN ww : ww[i].op = "remove" => i \in DOMAIN w
  BY <1>1, <1>3
<1>5. \A i, j \in DOMAIN ww : ww[i].op = "set" /\ ww[j].op = "remove" => j < i
  <2> SUFFICES ASSUME NEW i \in DOMAIN ww, NEW j \in DOMAIN ww, ww[i].op = "set", ww[j].op = "remove"
               PROVE  j < i
    OBVIOUS
  <2>1. j \in DOMAIN w /\ ww[j] = w[j] /\ j < Len(w) + 1
    BY <1>3, <1>4
  <2>2. CASE i \in DOMAIN w
    BY <2>1, <2>2, <1>3 DEF IdsOf
  <2> QED
    BY <2>1, <2>2, <1>3
<1>6. IdsOf(ww, {}, cut, be)
  BY <1>3, <1>4, <1>5 DEF IdsOf
<1> QED
  BY <1>6 DEF ww, c

LEMMA IdsRemoves ==
  ASSUME NEW w \in Seq(Commands), NEW ids, ids \subseteq Locs, ids # {}, NEW cut, NEW be,
         IdsOf(w, ids, cut, be), NEW u \in Procs
  PROVE  IdsOf(Append(w, Command("remove", u, ids \X Conditions)), ids, cut, be)
<1> DEFINE c == Command("remove", u, ids \X Conditions)
           ww == Append(w, c)
<1>1. c \in Commands /\ c.op = "remove" /\ c.state = ids \X Conditions
  BY CommandIs DEF Positions
<1> HIDE DEF c
<1>3. /\ Len(w) \in Nat /\ DOMAIN ww = DOMAIN w \cup {Len(w) + 1} /\ ww[Len(w) + 1] = c
      /\ \A i \in DOMAIN w : ww[i] = w[i]
  BY <1>1, Appended
<1> HIDE DEF ww
<1>4. \A i \in DOMAIN ww : ww[i].op # "set"
  BY <1>1, <1>3 DEF IdsOf
<1>5. \A i \in DOMAIN ww : ww[i].op = "remove" =>
        \E I \in SUBSET Locs : ww[i].state = I \X Conditions /\ ids \subseteq I
  BY <1>1, <1>3 DEF IdsOf
<1>6. IdsOf(ww, ids, cut, be)
  BY <1>4, <1>5 DEF IdsOf
<1> QED
  BY <1>6 DEF ww, c

LEMMA IdsControls ==
  ASSUME NEW w \in Seq(Commands), NEW ids, NEW cut, NEW be, IdsOf(w, ids, cut, be), NEW op \in Controls
  PROVE  IdsOf(Append(w, Command(op, 0, {})), ids, cut, be)
<1> DEFINE c == Command(op, 0, {})
           ww == Append(w, c)
<1>1. c \in Commands /\ c.op \notin {"set", "remove"}
  BY CommandIs DEF Controls
<1> HIDE DEF c
<1>3. /\ Len(w) \in Nat /\ DOMAIN ww = DOMAIN w \cup {Len(w) + 1} /\ ww[Len(w) + 1] = c
      /\ \A i \in DOMAIN w : ww[i] = w[i]
  BY <1>1, Appended
<1> HIDE DEF ww
<1>4. \A i \in DOMAIN ww : ww[i].op \in {"set", "remove"} => i \in DOMAIN w
  BY <1>1, <1>3
<1>5. \A i \in DOMAIN ww : ww[i].op = "set" => ids = {}
  BY <1>3, <1>4 DEF IdsOf
<1>6. \A i, j \in DOMAIN ww : ww[i].op = "set" /\ ww[j].op = "remove" => j < i
  BY <1>3, <1>4 DEF IdsOf
<1>7. \A i \in DOMAIN ww : ww[i].op = "remove" =>
        \E I \in SUBSET Locs : ww[i].state = I \X Conditions /\ ids \subseteq I
  <2> SUFFICES ASSUME NEW i \in DOMAIN ww, ww[i].op = "remove"
               PROVE  \E I \in SUBSET Locs : ww[i].state = I \X Conditions /\ ids \subseteq I
    OBVIOUS
  <2>1. i \in DOMAIN w /\ ww[i] = w[i]
    BY <1>3, <1>4
  <2> QED
    BY <2>1 DEF IdsOf
<1>8. IdsOf(ww, ids, cut, be)
  BY <1>5, <1>6, <1>7 DEF IdsOf
<1> QED
  BY <1>8 DEF ww, c

LEMMA IdsTail ==
  ASSUME NEW w \in Seq(Commands), NEW ids, NEW cut, NEW be, IdsOf(w, ids, cut, be), w # << >>
  PROVE  IdsOf(Tail(w), ids, cut, be)
<1> DEFINE ww == Tail(w)
<1>1. \A i \in DOMAIN ww : i \in Nat /\ 1 <= i /\ i + 1 \in DOMAIN w /\ ww[i] = w[i + 1]
  BY Tailed
<1> HIDE DEF ww
<1>2. \A i \in DOMAIN ww : ww[i].op = "set" => ids = {}
  BY <1>1 DEF IdsOf
<1>3. \A i, j \in DOMAIN ww : ww[i].op = "set" /\ ww[j].op = "remove" => j < i
  <2> SUFFICES ASSUME NEW i \in DOMAIN ww, NEW j \in DOMAIN ww, ww[i].op = "set", ww[j].op = "remove"
               PROVE  j < i
    OBVIOUS
  <2>1. j + 1 < i + 1
    BY <1>1 DEF IdsOf
  <2> QED
    BY <2>1, <1>1
<1>4. \A i \in DOMAIN ww : ww[i].op = "remove" =>
        \E I \in SUBSET Locs : ww[i].state = I \X Conditions /\ ids \subseteq I
  BY <1>1 DEF IdsOf
<1>5. IdsOf(ww, ids, cut, be)
  BY <1>2, <1>3, <1>4 DEF IdsOf
<1> QED
  BY <1>5 DEF ww

(* Answered: all that was there is removed, and whether the ids are        *)
(* forgotten or kept, they are right.                                      *)
LEMMA IdsRemoved ==
  ASSUME NEW w \in Seq(Commands), NEW ids, NEW cut, NEW be, IdsOf(w, ids, cut, be), w # << >>,
         w[1].op = "remove", be \subseteq Positions, NEW ids2, ids2 = ids \/ ids2 = {}
  PROVE  IdsOf(Tail(w), ids2, cut, be \ w[1].state)
<1>1. 1 \in DOMAIN w
  BY Tailed
<1>2. ~cut => be \ w[1].state = {}
  <2> SUFFICES ASSUME ~cut, NEW p \in be PROVE p \in w[1].state
    OBVIOUS
  <2>1. PICK I \in SUBSET Locs : w[1].state = I \X Conditions /\ ids \subseteq I
    BY <1>1 DEF IdsOf
  <2>2. p \in Locs \X Conditions /\ p[1] \in At(be) /\ At(be) = ids
    BY DEF IdsOf, At, Positions
  <2>3. p[1] \in I /\ p[2] \in Conditions /\ p = <<p[1], p[2]>>
    BY <2>1, <2>2
  <2> QED
    BY <2>1, <2>3
<1>3. IdsOf(Tail(w), ids, cut, be)
  BY IdsTail
<1>4. IdsOf(Tail(w), ids2, cut, be \ w[1].state)
  BY <1>2, <1>3 DEF IdsOf
<1> QED
  BY <1>4

(* Answered: the ids are those of the positions that were set.             *)
LEMMA IdsAreSet ==
  ASSUME NEW w \in Seq(Commands), NEW ids, NEW cut, NEW be, IdsOf(w, ids, cut, be), w # << >>,
         w[1].op = "set", \A i \in DOMAIN w : w[i].op = "set" => i = 1, NEW done
  PROVE  IdsOf(Tail(w), At(done), cut, be \cup done) /\ ids = {}
<1>1. /\ 1 \in DOMAIN w
      /\ \A i \in DOMAIN Tail(w) : i \in Nat /\ 1 <= i /\ i + 1 \in DOMAIN w /\ Tail(w)[i] = w[i + 1]
  BY Tailed
<1>2. ids = {} /\ (~cut => be = {})
  <2>1. ids = {}
    BY <1>1 DEF IdsOf
  <2>2. At(be) = {} => be = {}
    BY DEF At
  <2> QED
    BY <2>1, <2>2 DEF IdsOf
<1>3. \A i \in DOMAIN Tail(w) : Tail(w)[i].op \notin {"set", "remove"}
  <2> SUFFICES ASSUME NEW i \in DOMAIN Tail(w) PROVE w[i + 1].op \notin {"set", "remove"}
    BY <1>1
  <2>1. i + 1 \in DOMAIN w /\ i + 1 # 1 /\ ~(i + 1 < 1)
    BY <1>1
  <2>2. w[i + 1].op # "remove"
    BY <1>1, <2>1 DEF IdsOf
  <2> QED
    BY <2>1, <2>2
<1>4. ~cut => be \cup done = done
  BY <1>2
<1> QED
  BY <1>2, <1>3, <1>4 DEF IdsOf

-----------------------------------------------------------------------------
(* What was read last.                                                     *)
LEMMA ReadCalm ==
  ASSUME NEW w, NEW ph \in [Procs -> Phases], NEW rd, NEW last, ReadOf(w, ph, rd, last),
         NEW u \in Procs, NEW x, x \notin {"resolving", "setting"}
  PROVE  ReadOf(w, [ph EXCEPT ![u] = x], rd, last)
BY DEF ReadOf

LEMMA ReadDone ==
  ASSUME NEW w, NEW ph, NEW rd, NEW rx, NEW last, ReadOf(w, ph, rd, last),
         \A v \in Procs : ph[v] = "resolving" => rx[v] = rd[v]
  PROVE  ReadOf(w, ph, rx, last)
BY DEF ReadOf

LEMMA ReadTail ==
  ASSUME NEW w \in Seq(Commands), NEW ph, NEW rd, NEW last, ReadOf(w, ph, rd, last), w # << >>
  PROVE  ReadOf(Tail(w), ph, rd, last)
<1>1. \A i \in DOMAIN Tail(w) : i + 1 \in DOMAIN w /\ Tail(w)[i] = w[i + 1]
  BY Tailed
<1> QED
  BY <1>1 DEF ReadOf

LEMMA ReadOthers ==
  ASSUME NEW w \in Seq(Commands), NEW ph, NEW rd, NEW last, ReadOf(w, ph, rd, last),
         NEW c \in Commands, c.op # "set"
  PROVE  ReadOf(Append(w, c), ph, rd, last)
<1>1. /\ DOMAIN Append(w, c) = DOMAIN w \cup {Len(w) + 1} /\ Append(w, c)[Len(w) + 1] = c
      /\ \A i \in DOMAIN w : Append(w, c)[i] = w[i]
  BY Appended
<1> QED
  BY <1>1 DEF ReadOf

LEMMA ReadSets ==
  ASSUME NEW w \in Seq(Commands), NEW ph \in [Procs -> Phases], NEW rd, NEW last, NEW u \in Procs,
         ReadOf(w, [ph EXCEPT ![u] = "idle"], rd, last), last \in Conditions,
         NEW c \in Commands, c.state \subseteq Locs \X {last}, c.state # {}
  PROVE  ReadOf(Append(w, c), [ph EXCEPT ![u] = "setting"], rd, last)
<1>1. /\ DOMAIN Append(w, c) = DOMAIN w \cup {Len(w) + 1} /\ Append(w, c)[Len(w) + 1] = c
      /\ \A i \in DOMAIN w : Append(w, c)[i] = w[i]
  BY Appended
<1> QED
  BY <1>1 DEF ReadOf

(* The one that waits and holds the mutex: nobody else reads or sets.      *)
LEMMA ReadAnew ==
  ASSUME MutexInv, WireInv, NEW u \in Procs, Holds(u), phase[u] = "waiting",
         NEW rd, NEW x, NEW last,
         x \in {"resolving", "setting"} => rd[u] = last /\ last \in Conditions
  PROVE  ReadOf(wire, [phase EXCEPT ![u] = x], rd, last)
<1>1. phase \in [Procs -> Phases]
  BY DEF MutexInv, MutexOf
<1>2. \A v \in Procs : phase[v] \in {"resolving", "setting"} => FALSE
  <2> SUFFICES ASSUME NEW v \in Procs, phase[v] \in {"resolving", "setting"} PROVE FALSE
    OBVIOUS
  <2>1. Holds(v)
    BY ActiveHolds DEF Active
  <2> QED
    BY <2>1 DEF Holds
<1>3. \A i \in DOMAIN wire : wire[i].op # "set"
  BY <1>2 DEF WireInv, WireOf
<1> QED
  BY <1>1, <1>2, <1>3 DEF ReadOf

-----------------------------------------------------------------------------
(* The steps.                                                              *)
LEMMA InvTypes ==
  ASSUME BreakpointInv
  PROVE  /\ phase \in [Procs -> Phases] /\ updateMutex \in Seq(Procs) /\ wire \in Seq(Commands)
         /\ MutexInv /\ WireOf(wire, phase) /\ IdsOf(wire, breakpointIds, cutShort, backend)
         /\ ReadOf(wire, phase, read, lastRead)
         /\ breakpointIds \subseteq Locs /\ currentState \subseteq Positions
         /\ backend \subseteq Positions
BY DEF BreakpointInv, MutexInv, MutexOf, WireInv, WireOf, IdsInv, ReadInv, Data

(* The rest of an update, once the new state is known.                     *)
LEMMA DecideKeeps ==
  ASSUME BreakpointInv, NEW u \in Procs, Holds(u), phase[u] \notin Asking,
         NEW newState, newState \subseteq Positions, Decide(u, newState),
         UNCHANGED <<cutShort, backend>>,
         newState # {} => newState \subseteq Locs \X {lastRead'} /\ lastRead' \in Conditions,
         ReadOf(wire, [phase EXCEPT ![u] = "idle"], read', lastRead')
  PROVE  /\ MutexInv' /\ WireInv' /\ IdsInv' /\ ReadInv'
         /\ breakpointIds' = breakpointIds /\ currentState' = currentState
         /\ cancelCallback' = cancelCallback /\ resolved' \in {resolved, FALSE}
<1>1. CASE Release(u) /\ UNCHANGED <<modelVars, wire>>
  <2>1. MutexInv' /\ phase' = [phase EXCEPT ![u] = "idle"]
    BY <1>1, InvTypes, ReleaseKeeps
  <2>2. WireOf(wire, phase')
    BY <2>1, InvTypes, WireCalm
  <2> QED
    BY <1>1, <2>1, <2>2, InvTypes DEF WireInv, IdsInv, ReadInv, modelVars
<1>2. CASE breakpointIds # {} /\ startReset(u) /\ Await(u, "resetting")
  <2>1. MutexInv' /\ phase' = [phase EXCEPT ![u] = "resetting"]
    BY <1>2, InvTypes, AwaitKeeps DEF Phases
  <2>2. /\ wire' = Append(wire, Command("remove", u, breakpointIds \X Conditions))
        /\ resolved' = FALSE /\ UNCHANGED <<breakpointIds, currentState, cancelCallback>>
    BY <1>2 DEF startReset, Send
  <2>3. breakpointIds \X Conditions \subseteq Positions
    BY InvTypes DEF Positions
  <2>4. WireInv'
    BY <2>1, <2>2, <2>3, InvTypes, WireSends DEF WireInv
  <2>5. IdsInv'
    BY <1>2, <2>2, InvTypes, IdsRemoves DEF IdsInv
  <2>6. [[phase EXCEPT ![u] = "idle"] EXCEPT ![u] = "resetting"] = phase'
    BY <2>1, InvTypes
  <2>7. [phase EXCEPT ![u] = "idle"] \in [Procs -> Phases]
    BY InvTypes DEF Phases
  <2>8. ReadOf(wire, phase', read', lastRead')
    BY <2>6, <2>7, ReadCalm
  <2>9. /\ Command("remove", u, breakpointIds \X Conditions) \in Commands
        /\ Command("remove", u, breakpointIds \X Conditions).op # "set"
    BY <2>3, CommandIs
  <2>10. ReadInv'
    BY <2>2, <2>8, <2>9, InvTypes, ReadOthers DEF ReadInv
  <2> QED
    BY <2>1, <2>2, <2>4, <2>5, <2>10
<1>3. CASE /\ breakpointIds = {} /\ newState # {} /\ Send(Command("set", u, newState))
           /\ Await(u, "setting") /\ UNCHANGED modelVars
  <2>1. MutexInv' /\ phase' = [phase EXCEPT ![u] = "setting"]
    BY <1>3, InvTypes, AwaitKeeps DEF Phases
  <2>2. /\ wire' = Append(wire, Command("set", u, newState))
        /\ UNCHANGED <<breakpointIds, currentState, cancelCallback, resolved>>
    BY <1>3 DEF modelVars, Send
  <2>4. WireInv'
    BY <2>1, <2>2, InvTypes, WireSends DEF WireInv
  <2>5. IdsInv'
    BY <1>3, <2>2, InvTypes, IdsSets DEF IdsInv
  <2>6. /\ Command("set", u, newState) \in Commands
        /\ Command("set", u, newState).state = newState
    BY CommandIs
  <2>7. ReadInv'
    BY <1>3, <2>1, <2>2, <2>6, InvTypes, ReadSets DEF ReadInv
  <2> QED
    BY <2>1, <2>2, <2>4, <2>5, <2>7
<1> QED
  BY <1>1, <1>2, <1>3 DEF Decide

LEMMA Holder ==
  ASSUME BreakpointInv, NEW u \in Procs, phase[u] \in Active PROVE Holds(u)
BY ActiveHolds DEF BreakpointInv

LEMMA UpdateKeeps ==
  ASSUME BreakpointInv, NEW u \in Procs, updateInDebugger(u) PROVE BreakpointInv'
<1>1. /\ Holds(u) /\ phase[u] = "waiting" /\ phase[u] \notin Asking
      /\ UNCHANGED <<breakpointVars, debuggerVars, backendVars, cutShort, overtaken>>
  BY DEF updateInDebugger, Asking
<1>2. UNCHANGED <<enabled, condition, isRemoved, diverged, debuggerEnabled, isReadyToPause,
                  disposed, backendOn, backend, cutShort>>
  BY <1>1 DEF breakpointVars, debuggerVars, backendVars, history
<1>3. CASE disposed
  <2>1. /\ cleanUpAfterDebuggerIsGone /\ Release(u) /\ UNCHANGED <<read, wire, lastRead>>
    BY <1>3 DEF updateInDebugger
  <2>2. /\ cancelCallback' = (breakpointIds = {}) /\ resolved' = FALSE /\ currentState' = {}
        /\ breakpointIds' = breakpointIds
    BY <2>1 DEF cleanUpAfterDebuggerIsGone
  <2>3. cancelCallback' \in BOOLEAN /\ resolved' \in BOOLEAN
    BY <2>2, Zenon
  <2>4. MutexInv' /\ phase' = [phase EXCEPT ![u] = "idle"]
    BY <1>1, <2>1, InvTypes, ReleaseKeeps
  <2>5. WireOf(wire, phase')
    BY <1>1, <2>4, InvTypes, WireCalm
  <2>6. WireInv' /\ IdsInv'
    BY <1>2, <2>1, <2>2, <2>5, InvTypes DEF WireInv, IdsInv
  <2>8. ReadInv'
    BY <2>1, <2>4, InvTypes, ReadCalm DEF ReadInv
  <2>7. Flags' /\ Data'
    BY <1>2, <2>1, <2>2, <2>3 DEF BreakpointInv, Flags, Data
  <2> QED
    BY <1>2, <2>4, <2>6, <2>7, <2>8 DEF BreakpointInv
<1>4. CASE ~disposed
  <2>1. IF Wanted
          THEN /\ read' = [read EXCEPT ![u] = condition] /\ lastRead' = condition
               /\ Await(u, "resolving") /\ UNCHANGED <<modelVars, wire>>
          ELSE lastRead' = NoCondition /\ read' = read /\ Decide(u, {})
    BY <1>4 DEF updateInDebugger
  <2>2. /\ read' \in [Procs -> Conditions \cup {NoCondition}]
        /\ lastRead' \in Conditions \cup {NoCondition}
    BY <2>1 DEF BreakpointInv, Data
  <2>3. CASE Wanted
    <3>1. Await(u, "resolving") /\ UNCHANGED <<modelVars, wire>>
      BY <2>1, <2>3
    <3>2. MutexInv' /\ phase' = [phase EXCEPT ![u] = "resolving"]
      BY <1>1, <3>1, InvTypes, AwaitKeeps DEF Phases
    <3>3. WireOf(wire, phase')
      BY <1>1, <3>2, InvTypes, WireCalm
    <3>4. WireInv' /\ IdsInv'
      BY <1>2, <3>1, <3>3, InvTypes DEF WireInv, IdsInv, modelVars
    <3>5. Flags' /\ Data'
      BY <1>2, <2>2, <3>1 DEF BreakpointInv, Flags, Data, modelVars
    <3>6. read'[u] = lastRead' /\ lastRead' \in Conditions
      BY <2>1, <2>3 DEF BreakpointInv, Data
    <3>7. ReadOf(wire, phase', read', lastRead')
      BY <1>1, <3>2, <3>6, ReadAnew DEF BreakpointInv
    <3>8. ReadInv'
      BY <3>1, <3>7 DEF ReadInv
    <3> QED
      BY <1>2, <3>2, <3>4, <3>5, <3>8 DEF BreakpointInv
  <2>4. CASE ~Wanted
    <3>1. Decide(u, {})
      BY <2>1, <2>4
    <3>6. ReadOf(wire, [phase EXCEPT ![u] = "idle"], read', lastRead')
      BY <1>1, ReadAnew DEF BreakpointInv
    <3>2. /\ MutexInv' /\ WireInv' /\ IdsInv' /\ ReadInv'
          /\ breakpointIds' = breakpointIds /\ currentState' = currentState
          /\ cancelCallback' = cancelCallback /\ resolved' \in {resolved, FALSE}
      BY <1>1, <1>2, <3>1, <3>6, DecideKeeps
    <3>3. resolved' \in BOOLEAN
      BY <3>2 DEF BreakpointInv, Flags
    <3>5. Flags' /\ Data'
      BY <1>2, <2>2, <3>2, <3>3 DEF BreakpointInv, Flags, Data
    <3> QED
      BY <1>2, <3>2, <3>5 DEF BreakpointInv
  <2> QED
    BY <2>3, <2>4
<1> QED
  BY <1>3, <1>4

LEMMA ResolvedKeeps ==
  ASSUME BreakpointInv, NEW u \in Procs, locationsResolved(u) PROVE BreakpointInv'
<1>1. PICK L \in (SUBSET Locs) \ {{}} : Decide(u, L \X {read[u]})
  BY DEF locationsResolved
<1>2. /\ phase[u] = "resolving" /\ phase[u] \notin Asking /\ phase[u] \in Active
      /\ UNCHANGED <<breakpointVars, debuggerVars, backendVars, history>>
  BY DEF locationsResolved, Asking, Active
<1>3. UNCHANGED <<enabled, condition, isRemoved, diverged, debuggerEnabled, isReadyToPause,
                  disposed, backendOn, backend, cutShort, lastRead>>
      /\ read' = [read EXCEPT ![u] = NoCondition]
  BY <1>2 DEF locationsResolved, breakpointVars, debuggerVars, backendVars, history
<1>4. read[u] = lastRead /\ lastRead \in Conditions
  BY <1>2, InvTypes DEF ReadOf
<1>5. /\ L \X {read[u]} \subseteq Positions /\ L \X {read[u]} \subseteq Locs \X {lastRead'}
      /\ lastRead' \in Conditions
  BY <1>3, <1>4 DEF Positions
<1>6. ReadOf(wire, [phase EXCEPT ![u] = "idle"], read', lastRead')
  <2>1. ReadOf(wire, [phase EXCEPT ![u] = "idle"], read, lastRead)
    BY InvTypes, ReadCalm
  <2>2. \A v \in Procs : v # u => read'[v] = read[v]
    BY <1>3 DEF BreakpointInv, Data
  <2>3. \A v \in Procs : [phase EXCEPT ![u] = "idle"][v] = "resolving" => v # u
    BY InvTypes
  <2> QED
    BY <1>3, <2>1, <2>2, <2>3, ReadDone
<1>7. /\ MutexInv' /\ WireInv' /\ IdsInv' /\ ReadInv'
      /\ breakpointIds' = breakpointIds /\ currentState' = currentState
      /\ cancelCallback' = cancelCallback /\ resolved' \in {resolved, FALSE}
  <2>1. Holds(u)
    BY <1>2, Holder
  <2> QED
    BY <1>1, <1>2, <1>3, <1>5, <1>6, <2>1, DecideKeeps
<1>8. resolved' \in BOOLEAN
  BY <1>7 DEF BreakpointInv, Flags
<1>9. Flags' /\ Data'
  BY <1>3, <1>7, <1>8 DEF BreakpointInv, Flags, Data
<1> QED
  BY <1>3, <1>7, <1>9 DEF BreakpointInv

(* The update that holds the mutex ends with an error.                     *)
LEMMA RemoveKeeps ==
  ASSUME BreakpointInv, NEW u \in Procs, Holds(u), ReleaseAndRemove(u)
  PROVE  /\ MutexInv' /\ UNCHANGED <<enabled, condition, diverged>> /\ isRemoved' \in BOOLEAN
         /\ \E x \in {"idle", "waiting"} : phase' = [phase EXCEPT ![u] = x]
<1>1. isRemoved' = TRUE /\ UNCHANGED <<enabled, condition, diverged>>
  BY DEF ReleaseAndRemove
<1>2. isRemoved' \in BOOLEAN
  BY <1>1, Zenon
<1>3. CASE Enqueue(u, Tail(updateMutex))
  <2>1. MutexInv' /\ phase' = [phase EXCEPT ![u] = "waiting"]
    BY <1>3, InvTypes, RequeueKeeps
  <2> QED
    BY <1>1, <1>2, <2>1
<1>4. CASE Release(u)
  <2>1. MutexInv' /\ phase' = [phase EXCEPT ![u] = "idle"]
    BY <1>4, InvTypes, ReleaseKeeps
  <2> QED
    BY <1>1, <1>2, <2>1
<1> QED
  BY <1>3, <1>4 DEF ReleaseAndRemove

LEMMA AddedKeeps ==
  ASSUME BreakpointInv, NEW u \in Procs, locationsAdded(u) PROVE BreakpointInv'
<1>1. /\ phase[u] = "locating" /\ phase[u] \notin Asking /\ phase[u] \in Active
      /\ UNCHANGED <<debuggerVars, read, modelVars, wire, backendVars, history>>
  BY DEF locationsAdded, Asking, Active
<1>2. UNCHANGED <<debuggerEnabled, isReadyToPause, disposed, breakpointIds,
                  currentState, cancelCallback, resolved, wire, backendOn, backend, cutShort,
                  read, lastRead>>
  BY <1>1 DEF debuggerVars, modelVars, backendVars, history
<1>3. Holds(u)
  BY <1>1, Holder
<1>4. /\ MutexInv' /\ UNCHANGED <<enabled, condition, diverged>> /\ isRemoved' \in BOOLEAN
      /\ \E x \in {"idle", "waiting"} : phase' = [phase EXCEPT ![u] = x]
  <2>1. CASE Release(u) /\ UNCHANGED breakpointVars
    <3>1. MutexInv' /\ phase' = [phase EXCEPT ![u] = "idle"]
      BY <1>3, <2>1, InvTypes, ReleaseKeeps
    <3>2. isRemoved' \in BOOLEAN /\ UNCHANGED <<enabled, condition, diverged>>
      BY <2>1 DEF breakpointVars, BreakpointInv, Flags
    <3> QED
      BY <3>1, <3>2
  <2>2. CASE ReleaseAndRemove(u)
    BY <1>3, <2>2, RemoveKeeps
  <2> QED
    BY <2>1, <2>2 DEF locationsAdded
<1>5. PICK x \in {"idle", "waiting"} : phase' = [phase EXCEPT ![u] = x]
  BY <1>4
<1>6. WireOf(wire, phase') /\ ReadOf(wire, phase', read, lastRead)
  BY <1>1, <1>5, InvTypes, WireCalm, ReadCalm
<1>7. WireInv' /\ IdsInv' /\ ReadInv'
  BY <1>2, <1>6, InvTypes DEF WireInv, IdsInv, ReadInv
<1>8. Flags' /\ Data'
  BY <1>2, <1>4 DEF BreakpointInv, Flags, Data
<1> QED
  BY <1>2, <1>4, <1>7, <1>8 DEF BreakpointInv

(* What setting leads to, by the outcomes of the code.                     *)
LEMMA SetOutcomes ==
  ASSUME BreakpointInv, NEW u \in Procs, phase[u] = "setting", NEW newState, NEW done,
         breakpointsSet(u, newState, done)
  PROVE  /\ MutexInv' /\ UNCHANGED <<enabled, condition, diverged>> /\ isRemoved' \in BOOLEAN
         /\ \E x \in {"idle", "waiting", "locating"} : phase' = [phase EXCEPT ![u] = x]
         /\ currentState' \in {currentState, newState}
         /\ cancelCallback' \in BOOLEAN /\ resolved' \in BOOLEAN
         /\ \/ breakpointIds' = breakpointIds /\ done = {} /\ cutShort' = cutShort
            \/ breakpointIds' = breakpointIds /\ cutShort' = (cutShort \/ backendOn)
            \/ breakpointIds' = At(done) /\ cutShort' = cutShort
<1>0. Holds(u)
  BY Holder DEF Active
<1>1. cancelCallback \in BOOLEAN /\ resolved \in BOOLEAN /\ isRemoved \in BOOLEAN
  BY DEF BreakpointInv, Flags
<1>2. CASE /\ done = {} /\ Await(u, "waiting")
           /\ UNCHANGED <<breakpointVars, modelVars, cutShort>>
  <2>1. MutexInv' /\ phase' = [phase EXCEPT ![u] = "waiting"]
    BY <1>0, <1>2, InvTypes, AwaitKeeps DEF Phases
  <2> QED
    BY <1>1, <1>2, <2>1 DEF breakpointVars, modelVars
<1>3. CASE /\ currentState' = newState /\ cancelCallback' = FALSE /\ Release(u)
           /\ cutShort' = (cutShort \/ backendOn)
           /\ UNCHANGED <<breakpointVars, breakpointIds, resolved>>
  <2>1. MutexInv' /\ phase' = [phase EXCEPT ![u] = "idle"]
    BY <1>0, <1>3, InvTypes, ReleaseKeeps
  <2>2. cancelCallback' \in BOOLEAN
    BY <1>3, Zenon
  <2> QED
    BY <1>1, <1>3, <2>1, <2>2 DEF breakpointVars
<1>4. CASE /\ currentState' = newState /\ done = {} /\ ReleaseAndRemove(u)
           /\ UNCHANGED <<breakpointIds, cancelCallback, resolved, cutShort>>
  <2>1. /\ MutexInv' /\ UNCHANGED <<enabled, condition, diverged>> /\ isRemoved' \in BOOLEAN
        /\ \E x \in {"idle", "waiting"} : phase' = [phase EXCEPT ![u] = x]
    BY <1>0, <1>4, RemoveKeeps
  <2> QED
    BY <1>1, <1>4, <2>1
<1>5. CASE /\ currentState' = newState /\ breakpointIds' = At(done)
           /\ \/ resolved' = TRUE /\ Await(u, "locating")
              \/ UNCHANGED resolved /\ Release(u)
           /\ UNCHANGED <<breakpointVars, cancelCallback, cutShort>>
  <2>1. MutexInv' /\ \E x \in {"idle", "locating"} : phase' = [phase EXCEPT ![u] = x]
    <3>1. CASE Await(u, "locating")
      BY <1>0, <3>1, InvTypes, AwaitKeeps DEF Phases
    <3>2. CASE Release(u)
      BY <1>0, <3>2, InvTypes, ReleaseKeeps
    <3> QED
      BY <1>5, <3>1, <3>2
  <2>2. resolved' \in BOOLEAN
    BY <1>1, <1>5, Zenon
  <2> QED
    BY <1>1, <1>5, <2>1, <2>2 DEF breakpointVars
<1> QED
  BY <1>2, <1>3, <1>4, <1>5 DEF breakpointsSet

(* The answers.                                                            *)
LEMMA FirstOnWire ==
  ASSUME BreakpointInv, wire # << >>
  PROVE  1 \in DOMAIN wire /\ Head(wire) = wire[1] /\ wire[1] \in Commands
BY InvTypes, Tailed

LEMMA SetKeeps ==
  ASSUME BreakpointInv, wire # << >>, wire' = Tail(wire), UNCHANGED <<read, lastRead>>,
         answerSet(wire[1])
  PROVE  BreakpointInv'
<1>1. PICK refused \in SUBSET wire[1].state, done \in SUBSET wire[1].state :
        /\ done = IF backendOn THEN {p \in wire[1].state : p[1] \notin At(backend)} \ refused
                               ELSE {}
        /\ backend' = backend \cup done
        /\ breakpointsSet(wire[1].by, wire[1].state, done)
  BY DEF answerSet
<1>2. wire[1].op = "set" /\ UNCHANGED <<debuggerVars, backendOn>>
  BY DEF answerSet
<1>3. /\ 1 \in DOMAIN wire /\ wire[1].state \subseteq Positions
      /\ wire[1].by \in Procs /\ phase[wire[1].by] = "setting"
  BY <1>2, FirstOnWire, InvTypes DEF Commands, WireOf
<1>4. done \subseteq Positions /\ (~backendOn => done = {})
  BY <1>1, <1>3
<1>5. /\ MutexInv' /\ UNCHANGED <<enabled, condition, diverged>> /\ isRemoved' \in BOOLEAN
      /\ \E x \in {"idle", "waiting", "locating"} : phase' = [phase EXCEPT ![wire[1].by] = x]
      /\ currentState' \in {currentState, wire[1].state}
      /\ cancelCallback' \in BOOLEAN /\ resolved' \in BOOLEAN
      /\ \/ breakpointIds' = breakpointIds /\ done = {} /\ cutShort' = cutShort
         \/ breakpointIds' = breakpointIds /\ cutShort' = (cutShort \/ backendOn)
         \/ breakpointIds' = At(done) /\ cutShort' = cutShort
  BY <1>1, <1>3, SetOutcomes
<1>6. PICK x \in {"idle", "waiting", "locating"} : phase' = [phase EXCEPT ![wire[1].by] = x]
  BY <1>5
<1>7. WireInv'
  BY <1>2, <1>6, InvTypes, WireAnswered DEF WireInv
<1>8. \A i \in DOMAIN wire : wire[i].op = "set" => i = 1
  BY <1>2, <1>3, OneSet DEF BreakpointInv
<1>9. /\ IdsOf(Tail(wire), At(done), cutShort, backend \cup done)
      /\ breakpointIds = {} /\ (~cutShort => backend = {})
  <2>1. wire \in Seq(Commands) /\ IdsOf(wire, breakpointIds, cutShort, backend)
    BY InvTypes
  <2>2. IdsOf(Tail(wire), At(done), cutShort, backend \cup done) /\ breakpointIds = {}
    BY <1>2, <1>8, <2>1, IdsAreSet
  <2>3. At(backend) = {} => backend = {}
    BY DEF At
  <2> QED
    BY <2>1, <2>2, <2>3 DEF IdsOf
<1>10. IdsInv'
  <2>1. done = {} => At(done) = {}
    BY DEF At
  <2>2. CASE breakpointIds' = breakpointIds /\ done = {} /\ cutShort' = cutShort
    BY <1>1, <1>9, <2>1, <2>2 DEF IdsInv
  <2>3. CASE breakpointIds' = At(done) /\ cutShort' = cutShort
    BY <1>1, <1>9, <2>3 DEF IdsInv
  <2>4. CASE breakpointIds' = breakpointIds /\ cutShort' = (cutShort \/ backendOn)
    <3>1. CASE ~backendOn
      BY <1>1, <1>4, <1>9, <2>1, <2>4, <3>1 DEF IdsInv, BreakpointInv, Flags
    <3>2. CASE backendOn
      <4>1. IdsOf(Tail(wire), breakpointIds, cutShort, backend)
        BY InvTypes, IdsTail
      <4>2. cutShort'
        BY <2>4, <3>2
      <4> QED
        BY <2>4, <4>1, <4>2 DEF IdsInv, IdsOf
    <3> QED
      BY <3>1, <3>2
  <2> QED
    BY <1>5, <2>2, <2>3, <2>4
<1>11. ReadInv'
  <2>1. ReadOf(Tail(wire), phase, read, lastRead)
    BY InvTypes, ReadTail
  <2>2. ReadOf(Tail(wire), phase', read, lastRead)
    BY <1>3, <1>6, <2>1, InvTypes, ReadCalm
  <2> QED
    BY <2>2 DEF ReadInv
<1>12. Data'
  <2>1. At(done) \subseteq Locs
    BY <1>4 DEF At, Positions
  <2>2. breakpointIds' \subseteq Locs
    BY <1>5, <2>1, InvTypes
  <2>3. currentState' \subseteq Positions /\ backend' \subseteq Positions
    BY <1>1, <1>3, <1>4, <1>5, InvTypes
  <2> QED
    BY <1>2, <1>5, <2>2, <2>3 DEF BreakpointInv, Data, debuggerVars
<1>13. Flags'
  <2>1. cutShort' \in BOOLEAN
    BY <1>5 DEF BreakpointInv, Flags
  <2> QED
    BY <1>2, <1>5, <2>1 DEF BreakpointInv, Flags, debuggerVars
<1>14. (~backendOn' => backend' = {}) /\ (disposed' => ~backendOn')
  BY <1>1, <1>2, <1>4 DEF BreakpointInv, debuggerVars
<1> QED
  BY <1>5, <1>7, <1>10, <1>11, <1>12, <1>13, <1>14 DEF BreakpointInv

(* Removing is answered: one of an update, or one of onScriptWasEdited.    *)
LEMMA RemovedKeeps ==
  ASSUME BreakpointInv, wire # << >>, wire' = Tail(wire), UNCHANGED <<read, lastRead>>,
         answerRemove(wire[1])
  PROVE  BreakpointInv'
<1> DEFINE u == wire[1].by
<1>1. /\ wire[1].op = "remove" /\ backend' = backend \ wire[1].state
      /\ breakpointsRemoved(u)
      /\ UNCHANGED <<breakpointVars, debuggerVars, backendOn, cutShort>>
  BY DEF answerRemove
<1>2. UNCHANGED <<enabled, condition, isRemoved, diverged, debuggerEnabled, isReadyToPause,
                  disposed, backendOn, cutShort>>
  BY <1>1 DEF breakpointVars, debuggerVars
<1>3. u \in Procs /\ phase[u] \in {"resetting", "refreshing"}
  BY <1>1, FirstOnWire, InvTypes DEF WireOf
<1> HIDE DEF u
<1>4. /\ currentState' = {} /\ cancelCallback' = FALSE
      /\ breakpointIds' \in {breakpointIds, {}} /\ resolved' \in BOOLEAN
  <2>1. resolved' \in BOOLEAN
    <3>1. CASE cancelCallback
      BY <1>1, <3>1 DEF breakpointsRemoved, BreakpointInv, Flags
    <3>2. CASE ~cancelCallback
      <4>1. resolved' = FALSE
        BY <1>1, <3>2 DEF breakpointsRemoved
      <4> QED
        BY <4>1, Zenon
    <3> QED
      BY <3>1, <3>2
  <2> QED
    BY <1>1, <2>1 DEF breakpointsRemoved
<1>5. MutexInv' /\ \E x \in {"idle", "waiting"} : phase' = [phase EXCEPT ![u] = x]
  <2>1. CASE phase[u] = "resetting"
    <3>1. Holds(u) /\ Await(u, "waiting")
      <4>1. Await(u, "waiting")
        BY <1>1, <2>1 DEF breakpointsRemoved
      <4>2. Holds(u)
        BY <1>3, <2>1, Holder DEF Active
      <4> QED
        BY <4>1, <4>2
    <3> QED
      BY <1>3, <3>1, InvTypes, AwaitKeeps DEF Phases
  <2>2. CASE phase[u] = "refreshing" /\ Enqueue(u, updateMutex)
    BY <1>3, <2>2, InvTypes, EnqueueKeeps
  <2>3. CASE phase[u] = "refreshing" /\ Await(u, "idle")
    BY <1>3, <2>3, InvTypes, AwaitKeeps DEF Phases
  <2>4. \/ phase[u] = "resetting"
        \/ phase[u] = "refreshing" /\ (Enqueue(u, updateMutex) \/ Await(u, "idle"))
    BY <1>1, <1>3 DEF breakpointsRemoved
  <2> QED
    BY <2>1, <2>2, <2>3, <2>4
<1>6. PICK x \in {"idle", "waiting"} : phase' = [phase EXCEPT ![u] = x]
  BY <1>5
<1>7. WireInv'
  BY <1>1, <1>6, InvTypes, WireAnswered DEF WireInv, u
<1>8. IdsInv'
  <2>1. /\ wire \in Seq(Commands) /\ IdsOf(wire, breakpointIds, cutShort, backend)
        /\ backend \subseteq Positions
    BY InvTypes
  <2>2. IdsOf(Tail(wire), breakpointIds', cutShort, backend \ wire[1].state)
    <3>1. breakpointIds' = breakpointIds \/ breakpointIds' = {}
      BY <1>4
    <3>2. wire[1].op = "remove"
      BY <1>1
    <3> QED
      BY <3>1, <3>2, <2>1, IdsRemoved
  <2> QED
    BY <1>1, <1>2, <2>2 DEF IdsInv
<1>9. ReadInv'
  <2>1. ReadOf(Tail(wire), phase, read, lastRead)
    BY InvTypes, ReadTail
  <2>2. ReadOf(Tail(wire), phase', read, lastRead)
    BY <1>3, <1>6, <2>1, InvTypes, ReadCalm
  <2> QED
    BY <2>2 DEF ReadInv
<1>10. Data'
  BY <1>1, <1>2, <1>4 DEF BreakpointInv, Data
<1>11. Flags'
  <2>1. cancelCallback' \in BOOLEAN
    BY <1>4, Zenon
  <2> QED
    BY <1>2, <1>4, <2>1 DEF BreakpointInv, Flags
<1> QED
  BY <1>1, <1>2, <1>5, <1>7, <1>8, <1>9, <1>10, <1>11 DEF BreakpointInv

(* The answers to the commands of the debugger.                            *)
LEMMA EnabledKeeps ==
  ASSUME BreakpointInv, wire # << >>, wire' = Tail(wire), UNCHANGED <<read, lastRead>>,
         answerEnable(wire[1])
  PROVE  BreakpointInv'
<1>1. /\ UNCHANGED <<breakpointVars, debuggerEnabled, disposed, updateMutex, phase,
                     modelVars, backend, cutShort>>
      /\ \/ ~disposed /\ backendOn' = TRUE /\ isReadyToPause' = TRUE
         \/ UNCHANGED <<backendOn, isReadyToPause>>
  BY DEF answerEnable
<1>2. UNCHANGED <<enabled, condition, isRemoved, diverged, debuggerEnabled,
                  disposed, updateMutex, phase, breakpointIds, currentState, cancelCallback,
                  resolved, backend, cutShort>>
  BY <1>1 DEF breakpointVars, modelVars
<1>3. WireInv' /\ IdsInv' /\ ReadInv'
  BY <1>2, InvTypes, WireTail, IdsTail, ReadTail DEF WireInv, IdsInv, ReadInv
<1>4. backendOn' \in BOOLEAN /\ isReadyToPause' \in BOOLEAN
  BY <1>1 DEF BreakpointInv, Flags
<1>5. Flags' /\ Data' /\ MutexInv'
  BY <1>2, <1>4 DEF BreakpointInv, Flags, Data, MutexInv
<1>6. (~backendOn' => backend' = {}) /\ (disposed' => ~backendOn')
  BY <1>1, <1>2 DEF BreakpointInv
<1> QED
  BY <1>3, <1>5, <1>6 DEF BreakpointInv

LEMMA DisabledKeeps ==
  ASSUME BreakpointInv, wire # << >>, wire' = Tail(wire), UNCHANGED <<read, lastRead>>,
         answerDisable(wire[1])
  PROVE  BreakpointInv'
<1>1. /\ backendOn' = FALSE /\ backend' = {} /\ isReadyToPause' = FALSE
      /\ UNCHANGED <<enabled, condition, isRemoved, diverged, debuggerEnabled, disposed,
                     updateMutex, phase, cutShort>>
  BY DEF answerDisable, breakpointVars
<1>2. /\ breakpointIds' = breakpointIds /\ currentState' \in {currentState, {}}
      /\ cancelCallback' \in BOOLEAN /\ resolved' \in BOOLEAN
  <2>1. CASE UNCHANGED modelVars
    BY <2>1 DEF modelVars, BreakpointInv, Flags
  <2>2. CASE cleanUpAfterDebuggerIsGone
    <3>1. /\ cancelCallback' = (breakpointIds = {}) /\ resolved' = FALSE /\ currentState' = {}
          /\ breakpointIds' = breakpointIds
      BY <2>2 DEF cleanUpAfterDebuggerIsGone
    <3>2. cancelCallback' \in BOOLEAN /\ resolved' \in BOOLEAN
      BY <3>1, Zenon
    <3> QED
      BY <3>1, <3>2
  <2> QED
    BY <2>1, <2>2 DEF answerDisable
<1>3. IdsOf(Tail(wire), breakpointIds, cutShort, backend)
  BY InvTypes, IdsTail
<1>4. IdsInv'
  BY <1>1, <1>2, <1>3 DEF IdsInv, IdsOf
<1>5. WireInv' /\ ReadInv' /\ MutexInv'
  BY <1>1, InvTypes, WireTail, ReadTail DEF WireInv, ReadInv, MutexInv
<1>6. Data'
  BY <1>1, <1>2 DEF BreakpointInv, Data
<1>7. Flags'
  <2>1. backendOn' \in BOOLEAN /\ isReadyToPause' \in BOOLEAN
    BY <1>1, Zenon
  <2> QED
    BY <1>1, <1>2, <2>1 DEF BreakpointInv, Flags
<1>8. ~backendOn'
  BY <1>1, Zenon
<1> QED
  BY <1>1, <1>4, <1>5, <1>6, <1>7, <1>8 DEF BreakpointInv

LEMMA DepthKeeps ==
  ASSUME BreakpointInv, wire # << >>, wire' = Append(Tail(wire), Command("disable", 0, {})),
         UNCHANGED <<read, lastRead>>,
         UNCHANGED <<breakpointVars, debuggerEnabled, isReadyToPause, disposed,
                     updateMutex, phase, modelVars, backendVars, cutShort>>
  PROVE  BreakpointInv'
<1>1. UNCHANGED <<enabled, condition, isRemoved, diverged, debuggerEnabled, isReadyToPause,
                  disposed, updateMutex, phase, breakpointIds, currentState, cancelCallback,
                  resolved, backendOn, backend, cutShort, read, lastRead>>
  BY DEF breakpointVars, modelVars, backendVars, history
<1>2. /\ WireOf(Tail(wire), phase) /\ IdsOf(Tail(wire), breakpointIds, cutShort, backend)
      /\ ReadOf(Tail(wire), phase, read, lastRead) /\ Tail(wire) \in Seq(Commands)
  BY InvTypes, WireTail, IdsTail, ReadTail, Tailed
<1>3. /\ Command("disable", 0, {}) \in Commands /\ Command("disable", 0, {}).op # "set"
      /\ "disable" \in Controls
  BY CommandIs DEF Controls
<1>4. WireInv'
  BY <1>1, <1>2, <1>3, WireControls DEF WireInv
<1>5. IdsInv'
  BY <1>1, <1>2, <1>3, IdsControls DEF IdsInv
<1>6. ReadInv'
  BY <1>1, <1>2, <1>3, ReadOthers DEF ReadInv
<1>7. Flags' /\ Data' /\ MutexInv'
  BY <1>1 DEF BreakpointInv, Flags, Data, MutexInv
<1> QED
  BY <1>1, <1>4, <1>5, <1>6, <1>7 DEF BreakpointInv

LEMMA ReceiveKeeps == ASSUME BreakpointInv, Receive PROVE BreakpointInv'
<1>1. wire # << >> /\ Head(wire) = wire[1] /\ UNCHANGED <<read, lastRead>>
  BY FirstOnWire DEF Receive
<1>2. CASE wire[1].op = "depth"
  BY <1>1, <1>2, DepthKeeps DEF Receive
<1>3. CASE wire[1].op # "depth"
  <2>1. /\ wire' = Tail(wire)
        /\ answerSet(wire[1]) \/ answerRemove(wire[1]) \/ answerEnable(wire[1])
             \/ answerDisable(wire[1])
    BY <1>1, <1>3 DEF Receive
  <2> QED
    BY <1>1, <2>1, SetKeeps, RemovedKeeps, EnabledKeeps, DisabledKeeps
<1> QED
  BY <1>2, <1>3

-----------------------------------------------------------------------------
(* What happens to the breakpoint: at most one more update is scheduled.   *)
LEMMA ModelsKeep ==
  ASSUME BreakpointInv, updateModels \/ UNCHANGED <<updateMutex, phase>>
  PROVE  MutexInv' /\ WireOf(wire, phase') /\ ReadOf(wire, phase', read, lastRead)
<1>1. CASE UNCHANGED <<updateMutex, phase>>
  BY <1>1, InvTypes DEF MutexInv
<1>2. ASSUME NEW u \in Procs, Idle(u), Enqueue(u, updateMutex)
      PROVE  MutexInv' /\ WireOf(wire, phase') /\ ReadOf(wire, phase', read, lastRead)
  <2>1. phase[u] = "idle" /\ phase[u] \notin Asking
    BY <1>2 DEF Idle, Asking
  <2>2. MutexInv' /\ phase' = [phase EXCEPT ![u] = "waiting"]
    BY <1>2, <2>1, InvTypes, EnqueueKeeps
  <2> QED
    BY <2>1, <2>2, InvTypes, WireCalm, ReadCalm
<1> QED
  BY <1>1, <1>2 DEF updateModels

LEMMA UserKeeps ==
  ASSUME BreakpointInv, updateModels \/ UNCHANGED <<updateMutex, phase>>,
         enabled' \in BOOLEAN, condition' \in Conditions, isRemoved' \in BOOLEAN,
         diverged' \in BOOLEAN,
         UNCHANGED <<debuggerVars, read, modelVars, wire, backendVars, history>>
  PROVE  BreakpointInv'
<1>1. UNCHANGED <<debuggerEnabled, isReadyToPause, disposed, read, breakpointIds,
                  currentState, cancelCallback, resolved, wire, backendOn, backend, lastRead,
                  cutShort>>
  BY DEF debuggerVars, modelVars, backendVars, history
<1>2. MutexInv' /\ WireInv' /\ ReadInv'
  BY <1>1, ModelsKeep DEF WireInv, ReadInv
<1>3. IdsInv' /\ Flags' /\ Data'
  BY <1>1 DEF BreakpointInv, IdsInv, Flags, Data
<1> QED
  BY <1>1, <1>2, <1>3 DEF BreakpointInv

LEMMA EditedKeeps == ASSUME BreakpointInv, onScriptWasEdited PROVE BreakpointInv'
<1>1. PICK u \in Procs :
        /\ Idle(u)
        /\ IF breakpointIds = {}
             THEN Enqueue(u, updateMutex) /\ UNCHANGED <<modelVars, wire>>
             ELSE startReset(u) /\ Await(u, "refreshing")
  BY DEF onScriptWasEdited
<1>2. UNCHANGED <<enabled, condition, isRemoved, diverged, debuggerEnabled, isReadyToPause,
                  disposed, read, backendOn, backend, lastRead, cutShort>>
  BY DEF onScriptWasEdited, breakpointVars, debuggerVars, backendVars, history
<1>3. phase[u] = "idle" /\ phase[u] \notin Asking
  BY <1>1 DEF Idle, Asking
<1>4. CASE breakpointIds = {}
  <2>1. /\ Enqueue(u, updateMutex)
        /\ UNCHANGED <<breakpointIds, currentState, cancelCallback, resolved, wire>>
    BY <1>1, <1>4 DEF modelVars
  <2>2. MutexInv' /\ phase' = [phase EXCEPT ![u] = "waiting"]
    BY <1>3, <2>1, InvTypes, EnqueueKeeps
  <2>3. WireOf(wire, phase') /\ ReadOf(wire, phase', read, lastRead)
    BY <1>3, <2>2, InvTypes, WireCalm, ReadCalm
  <2>4. WireInv' /\ ReadInv' /\ IdsInv' /\ Flags' /\ Data'
    BY <1>2, <2>1, <2>3 DEF BreakpointInv, WireInv, ReadInv, IdsInv, Flags, Data
  <2> QED
    BY <1>2, <2>2, <2>4 DEF BreakpointInv
<1>5. CASE breakpointIds # {}
  <2>1. startReset(u) /\ Await(u, "refreshing")
    BY <1>1, <1>5
  <2>2. /\ wire' = Append(wire, Command("remove", u, breakpointIds \X Conditions))
        /\ resolved' = FALSE /\ UNCHANGED <<breakpointIds, currentState, cancelCallback>>
    BY <2>1 DEF startReset, Send
  <2>3. MutexInv' /\ phase' = [phase EXCEPT ![u] = "refreshing"]
    BY <1>3, <2>1, InvTypes, AwaitKeeps DEF Phases
  <2>4. breakpointIds \X Conditions \subseteq Positions
    BY InvTypes DEF Positions
  <2>5. WireInv'
    BY <1>3, <2>2, <2>3, <2>4, InvTypes, WireSends DEF WireInv
  <2>6. IdsInv'
    BY <1>2, <1>5, <2>2, InvTypes, IdsRemoves DEF IdsInv
  <2>7. ReadOf(wire, phase', read, lastRead)
    BY <2>3, InvTypes, ReadCalm
  <2>8. /\ Command("remove", u, breakpointIds \X Conditions) \in Commands
        /\ Command("remove", u, breakpointIds \X Conditions).op # "set"
    BY <2>4, CommandIs
  <2>9. ReadInv'
    BY <1>2, <2>2, <2>7, <2>8, InvTypes, ReadOthers DEF ReadInv
  <2>10. resolved' \in BOOLEAN
    BY <2>2, Zenon
  <2>11. Flags' /\ Data'
    BY <1>2, <2>2, <2>10 DEF BreakpointInv, Flags, Data
  <2> QED
    BY <1>2, <2>3, <2>5, <2>6, <2>9, <2>11 DEF BreakpointInv
<1> QED
  BY <1>4, <1>5

LEMMA BackendResolvesKeeps == ASSUME BreakpointInv, breakpointResolved PROVE BreakpointInv'
<1>1. /\ resolved' = TRUE
      /\ UNCHANGED <<enabled, condition, isRemoved, diverged, debuggerEnabled, isReadyToPause,
                     disposed, updateMutex, phase, read, breakpointIds,
                     currentState, cancelCallback, wire, backendOn, backend, lastRead, cutShort>>
  BY DEF breakpointResolved, breakpointVars, debuggerVars, backendVars, history
<1>2. resolved' \in BOOLEAN
  BY <1>1, Zenon
<1>3. Flags' /\ Data' /\ MutexInv' /\ WireInv' /\ IdsInv' /\ ReadInv'
  BY <1>1, <1>2 DEF BreakpointInv, Flags, Data, MutexInv, WireInv, IdsInv, ReadInv
<1> QED
  BY <1>1, <1>3 DEF BreakpointInv

LEMMA SuspendsKeeps == ASSUME BreakpointInv, disableDebugger PROVE BreakpointInv'
<1>1. /\ debuggerEnabled' = FALSE
      /\ wire' = Append(wire, Command("depth", 0, {}))
      /\ UNCHANGED <<enabled, condition, isRemoved, diverged, isReadyToPause, disposed,
                     updateMutex, phase, read, breakpointIds, currentState, cancelCallback,
                     resolved, backendOn, backend, lastRead, cutShort>>
  BY DEF disableDebugger, Send, breakpointVars, modelVars, backendVars, history
<1>2. debuggerEnabled' \in BOOLEAN
  BY <1>1, Zenon
<1>3. /\ Command("depth", 0, {}) \in Commands /\ Command("depth", 0, {}).op # "set"
      /\ "depth" \in Controls
  BY CommandIs DEF Controls
<1>4. WireInv'
  BY <1>1, <1>3, InvTypes, WireControls DEF WireInv
<1>5. IdsInv'
  BY <1>1, <1>3, InvTypes, IdsControls DEF IdsInv
<1>6. ReadInv'
  BY <1>1, <1>3, InvTypes, ReadOthers DEF ReadInv
<1>7. Flags' /\ Data' /\ MutexInv'
  BY <1>1, <1>2 DEF BreakpointInv, Flags, Data, MutexInv
<1> QED
  BY <1>1, <1>4, <1>5, <1>6, <1>7 DEF BreakpointInv

LEMMA ResumesKeeps == ASSUME BreakpointInv, enableDebugger PROVE BreakpointInv'
<1>1. /\ debuggerEnabled' = TRUE /\ wire' = Append(wire, Command("enable", 0, {}))
      /\ UNCHANGED <<enabled, condition, isRemoved, diverged, isReadyToPause,
                     disposed, read, breakpointIds, currentState, cancelCallback, resolved,
                     backendOn, backend, lastRead, cutShort>>
      /\ updateModels \/ UNCHANGED <<updateMutex, phase>>
  BY DEF enableDebugger, Send, breakpointVars, modelVars, backendVars, history
<1>2. debuggerEnabled' \in BOOLEAN
  BY <1>1, Zenon
<1>3. MutexInv' /\ WireOf(wire, phase') /\ ReadOf(wire, phase', read, lastRead)
  BY <1>1, ModelsKeep
<1>4. /\ Command("enable", 0, {}) \in Commands /\ Command("enable", 0, {}).op # "set"
      /\ "enable" \in Controls
  BY CommandIs DEF Controls
<1>5. WireInv'
  BY <1>1, <1>3, <1>4, WireControls DEF WireInv
<1>6. IdsInv'
  BY <1>1, <1>4, InvTypes, IdsControls DEF IdsInv
<1>7. ReadInv'
  BY <1>1, <1>3, <1>4, InvTypes, ReadOthers DEF ReadInv
<1>8. Flags' /\ Data'
  BY <1>1, <1>2 DEF BreakpointInv, Flags, Data
<1> QED
  BY <1>1, <1>3, <1>5, <1>6, <1>7, <1>8 DEF BreakpointInv

LEMMA DisposedKeeps == ASSUME BreakpointInv, modelRemoved PROVE BreakpointInv'
<1>1. /\ disposed' = TRUE /\ backendOn' = FALSE /\ backend' = {}
      /\ cancelCallback' = (breakpointIds = {}) /\ resolved' = FALSE /\ currentState' = {}
      /\ breakpointIds' = breakpointIds
      /\ UNCHANGED <<enabled, condition, isRemoved, diverged, debuggerEnabled, isReadyToPause,
                     updateMutex, phase, read, wire, lastRead, cutShort>>
  BY DEF modelRemoved, cleanUpAfterDebuggerIsGone, breakpointVars, history
<1>2. /\ disposed' \in BOOLEAN /\ backendOn' \in BOOLEAN /\ cancelCallback' \in BOOLEAN
      /\ resolved' \in BOOLEAN /\ ~backendOn'
  BY <1>1, Zenon
<1>3. IdsInv'
  BY <1>1, InvTypes DEF IdsInv, IdsOf
<1>4. Flags' /\ Data' /\ MutexInv' /\ WireInv' /\ ReadInv'
  BY <1>1, <1>2 DEF BreakpointInv, Flags, Data, MutexInv, WireInv, ReadInv
<1> QED
  BY <1>1, <1>2, <1>3, <1>4 DEF BreakpointInv

LEMMA InitKeeps == Init => BreakpointInv
<1> SUFFICES ASSUME Init PROVE BreakpointInv
  OBVIOUS
<1>1. /\ isRemoved = FALSE /\ diverged = FALSE /\ isReadyToPause = FALSE /\ disposed = FALSE
      /\ cancelCallback = FALSE /\ resolved = FALSE /\ backendOn = FALSE /\ cutShort = FALSE
      /\ enabled \in BOOLEAN /\ condition \in Conditions
      /\ debuggerEnabled \in BOOLEAN
      /\ updateMutex = IF debuggerEnabled THEN <<1>> ELSE <<>>
      /\ phase = [u \in Procs |-> IF u = 1 /\ debuggerEnabled THEN "waiting" ELSE "idle"]
      /\ read = [u \in Procs |-> NoCondition]
      /\ breakpointIds = {} /\ currentState = {} /\ backend = {} /\ lastRead = NoCondition
      /\ wire = IF debuggerEnabled THEN <<Command("enable", 0, {})>> ELSE <<>>
  BY DEF Init
<1>2. isRemoved \in BOOLEAN /\ diverged \in BOOLEAN /\ isReadyToPause \in BOOLEAN
      /\ disposed \in BOOLEAN /\ cancelCallback \in BOOLEAN /\ resolved \in BOOLEAN
      /\ backendOn \in BOOLEAN /\ cutShort \in BOOLEAN /\ debuggerEnabled \in BOOLEAN
  BY <1>1, Zenon
<1>3. Flags /\ Data
  BY <1>1, <1>2 DEF Flags, Data
<1>4. 1 \in Procs
  BY UpdatesAssumption DEF Procs
<1>5. Command("enable", 0, {}) \in Commands /\ Command("enable", 0, {}).op = "enable"
  BY CommandIs
<1>6. MutexInv
  <2>1. phase \in [Procs -> Phases]
    BY <1>1 DEF Phases
  <2>2. CASE debuggerEnabled
    <3>1. updateMutex = <<1>> /\ phase = [u \in Procs |-> IF u = 1 THEN "waiting" ELSE "idle"]
      BY <1>1, <2>2
    <3>2. {updateMutex[i] : i \in DOMAIN updateMutex} = {1} /\ DOMAIN updateMutex = {1}
      BY <3>1
    <3> QED
      BY <1>4, <2>1, <3>1, <3>2 DEF MutexInv, MutexOf
  <2>3. CASE ~debuggerEnabled
    BY <1>1, <2>1, <2>3 DEF MutexInv, MutexOf
  <2> QED
    BY <2>2, <2>3
<1>7. wire \in Seq(Commands) /\ \A i \in DOMAIN wire : wire[i].op = "enable"
  <2>1. CASE debuggerEnabled
    <3>1. wire = <<Command("enable", 0, {})>>
      BY <1>1, <2>1
    <3> HIDE DEF Command
    <3> QED
      BY <1>5, <3>1
  <2>2. CASE ~debuggerEnabled
    BY <1>1, <2>2
  <2> QED
    BY <2>1, <2>2
<1>8. WireInv
  BY <1>7 DEF WireInv, WireOf
<1>9. IdsInv
  BY <1>1, <1>7 DEF IdsInv, IdsOf
<1>10. ReadInv
  BY <1>1, <1>7 DEF ReadInv, ReadOf
<1>11. (~backendOn => backend = {}) /\ (disposed => ~backendOn)
  BY <1>1
<1> QED
  BY <1>3, <1>6, <1>8, <1>9, <1>10, <1>11 DEF BreakpointInv

LEMMA NextKeeps == ASSUME BreakpointInv, [Next]_vars PROVE BreakpointInv'
<1>1. ASSUME NEW u \in Procs, updateInDebugger(u) \/ locationsResolved(u) \/ locationsAdded(u)
      PROVE  BreakpointInv'
  BY <1>1, UpdateKeeps, ResolvedKeeps, AddedKeeps
<1>2. ASSUME NEW e \in BOOLEAN, NEW c \in Conditions, updateState(e, c) PROVE BreakpointInv'
  <2>1. /\ enabled' = e /\ condition' = c /\ updateModels /\ UNCHANGED <<isRemoved, diverged>>
        /\ UNCHANGED <<debuggerVars, read, modelVars, wire, backendVars, history>>
    BY <1>2 DEF updateState
  <2>2. isRemoved' \in BOOLEAN /\ diverged' \in BOOLEAN /\ enabled' \in BOOLEAN
    BY <2>1 DEF BreakpointInv, Flags
  <2> QED
    BY <2>1, <2>2, UserKeeps
<1>3. CASE remove
  <2>1. /\ isRemoved' = TRUE /\ updateModels /\ UNCHANGED <<enabled, condition, diverged>>
        /\ UNCHANGED <<debuggerVars, read, modelVars, wire, backendVars, history>>
    BY <1>3 DEF remove
  <2>2. isRemoved' \in BOOLEAN
    BY <2>1, Zenon
  <2>3. enabled' \in BOOLEAN /\ diverged' \in BOOLEAN /\ condition' \in Conditions
    BY <2>1 DEF BreakpointInv, Flags, Data
  <2> QED
    BY <2>1, <2>2, <2>3, UserKeeps
<1>4. CASE diverge
  <2>1. /\ diverged' = ~diverged /\ UNCHANGED <<enabled, condition, isRemoved>>
        /\ UNCHANGED <<updateMutex, phase>>
        /\ UNCHANGED <<debuggerVars, read, modelVars, wire, backendVars, history>>
    BY <1>4 DEF diverge
  <2>2. /\ diverged' \in BOOLEAN /\ enabled' \in BOOLEAN /\ isRemoved' \in BOOLEAN
        /\ condition' \in Conditions
    BY <2>1 DEF BreakpointInv, Flags, Data
  <2> QED
    BY <2>1, <2>2, UserKeeps
<1>5. CASE UNCHANGED vars
  <2>1. UNCHANGED <<enabled, condition, isRemoved, diverged, updateMutex, phase>>
    BY <1>5 DEF vars, breakpointVars
  <2>2. UNCHANGED <<debuggerVars, read, modelVars, wire, backendVars, history>>
    BY <1>5 DEF vars, debuggerVars, modelVars, backendVars, history
  <2>3. /\ diverged' \in BOOLEAN /\ enabled' \in BOOLEAN /\ isRemoved' \in BOOLEAN
        /\ condition' \in Conditions
    BY <2>1 DEF BreakpointInv, Flags, Data
  <2> QED
    BY <2>1, <2>2, <2>3, UserKeeps
<1> QED
  BY <1>1, <1>2, <1>3, <1>4, <1>5, ReceiveKeeps, EditedKeeps, BackendResolvesKeeps, SuspendsKeeps,
     ResumesKeeps, DisposedKeeps DEF Next

-----------------------------------------------------------------------------
(* However suspensions overlap and whatever is answered when, the back-end *)
(* is never asked for a position it has (BreakpointManager.ts:1102): what  *)
(* is set is set while no ids are known, and those are all there is.       *)
THEOREM PositionsAreSetOnce == Spec => []NeverSetTwice
<1>1. BreakpointInv => NeverSetTwice
  <2> SUFFICES ASSUME BreakpointInv, wire # << >>, Head(wire).op = "set", ~cutShort
               PROVE  At(Head(wire).state) \cap At(backend) = {}
    BY DEF NeverSetTwice
  <2>1. 1 \in DOMAIN wire /\ wire[1].op = "set"
    BY FirstOnWire
  <2>2. breakpointIds = {}
    BY <2>1, InvTypes DEF IdsOf
  <2>3. backend = {} \/ At(backend) = {}
    BY <2>2 DEF BreakpointInv, IdsInv, IdsOf
  <2>4. At({}) = {}
    BY DEF At
  <2> QED
    BY <2>3, <2>4
<1> QED
  BY InitKeeps, NextKeeps, <1>1, PTL DEF Spec

-----------------------------------------------------------------------------
(* The debugger, as long as no suspension is overtaken.  Its commands stay *)
(* the same, d places further on, where the others come and go.            *)
ControlsKept(w, x, d) ==
  /\ DOMAIN w \subseteq Int
  /\ \A i \in DOMAIN x : x[i].op \in Controls => i \in Int /\ i + d \in DOMAIN w /\ x[i] = w[i + d]
  /\ \A i \in DOMAIN w : w[i].op \in Controls => i - d \in DOMAIN x /\ x[i - d] = w[i]

LEMMA SameControls == ASSUME NEW w \in Seq(Commands) PROVE ControlsKept(w, w, 0)
BY Elements DEF ControlsKept

LEMMA MoreControls ==
  ASSUME NEW w \in Seq(Commands), NEW c \in Commands, c.op \notin Controls
  PROVE  ControlsKept(w, Append(w, c), 0)
<1>1. /\ DOMAIN Append(w, c) = DOMAIN w \cup {Len(w) + 1} /\ Append(w, c)[Len(w) + 1] = c
      /\ \A i \in DOMAIN w : Append(w, c)[i] = w[i] /\ i \in Nat
  BY Appended
<1>2. DOMAIN w \subseteq Int /\ \A i \in DOMAIN w : i + 0 = i /\ i - 0 = i
  BY <1>1
<1> QED
  BY <1>1, <1>2 DEF ControlsKept

LEMMA LessControls ==
  ASSUME NEW w \in Seq(Commands), w # << >>, w[1].op \notin Controls
  PROVE  ControlsKept(w, Tail(w), 1)
<1>1. /\ \A i \in DOMAIN Tail(w) : i \in Int /\ i + 1 \in DOMAIN w /\ Tail(w)[i] = w[i + 1]
      /\ \A i \in DOMAIN w : i \in Int /\ (i = 1 \/ i - 1 \in DOMAIN Tail(w))
  BY Tailed
<1>2. ASSUME NEW i \in DOMAIN w, w[i].op \in Controls
      PROVE  i - 1 \in DOMAIN Tail(w) /\ Tail(w)[i - 1] = w[i]
  <2>1. i - 1 \in DOMAIN Tail(w) /\ i \in Int
    BY <1>1, <1>2
  <2>2. Tail(w)[i - 1] = w[(i - 1) + 1] /\ (i - 1) + 1 = i
    BY <1>1, <2>1
  <2> QED
    BY <2>1, <2>2
<1> QED
  BY <1>1, <1>2 DEF ControlsKept

LEMMA Cancel == \A i, j, d \in Int : i + d = j + d => i = j
OBVIOUS

LEMMA DebuggerSame ==
  ASSUME DebuggerInv, NEW d \in Int, ControlsKept(wire, wire', d),
         UNCHANGED <<debuggerEnabled, isReadyToPause, disposed, backendOn>>
  PROVE  DebuggerInv'
<1>1. ASSUME NEW i \in DOMAIN wire', wire'[i].op \in Offs PROVE ~debuggerEnabled
  BY <1>1 DEF DebuggerInv, ControlsKept, Offs, Controls
<1>2. ASSUME NEW i \in DOMAIN wire', NEW j \in DOMAIN wire',
             \/ wire'[i].op = "enable" /\ wire'[j].op = "enable"
             \/ wire'[i].op \in Offs /\ wire'[j].op \in Offs
      PROVE  i = j
  <2>1. /\ i \in Int /\ j \in Int /\ i + d \in DOMAIN wire /\ j + d \in DOMAIN wire
        /\ wire'[i] = wire[i + d] /\ wire'[j] = wire[j + d]
    BY <1>2 DEF ControlsKept, Offs, Controls
  <2>2. PICK m \in DOMAIN wire, n \in DOMAIN wire : m = i + d /\ n = j + d
    BY <2>1
  <2>3. \/ wire[m].op = "enable" /\ wire[n].op = "enable"
        \/ wire[m].op \in Offs /\ wire[n].op \in Offs
    BY <1>2, <2>1, <2>2
  <2>4. m = n
    BY <2>3 DEF DebuggerInv
  <2>5. i + d = j + d /\ i \in Int /\ j \in Int
    BY <2>1, <2>2, <2>4
  <2> QED
    BY <2>5, Cancel, Zenon
<1>3. ASSUME NEW i \in DOMAIN wire', wire'[i].op = "enable", ~debuggerEnabled
      PROVE  \E j \in DOMAIN wire' : j > i /\ wire'[j].op \in Offs
  <2>1. i \in Int /\ i + d \in DOMAIN wire /\ wire[i + d].op = "enable"
    BY <1>3 DEF ControlsKept, Controls
  <2>2. PICK j \in DOMAIN wire : j > i + d /\ wire[j].op \in Offs
    BY <1>3, <2>1 DEF DebuggerInv
  <2>3. j \in Int /\ j - d \in DOMAIN wire' /\ wire'[j - d] = wire[j]
    BY <2>2 DEF ControlsKept, Offs, Controls
  <2>4. j - d > i
    BY <2>1, <2>2, <2>3
  <2> QED
    BY <2>2, <2>3, <2>4
<1>4. ASSUME NEW i \in DOMAIN wire, wire[i].op \in Offs
      PROVE  \E j \in DOMAIN wire' : wire'[j].op \in Offs
  <2>1. i - d \in DOMAIN wire' /\ wire'[i - d] = wire[i]
    BY <1>4 DEF ControlsKept, Offs, Controls
  <2> QED
    BY <1>4, <2>1
<1> QED
  BY <1>1, <1>2, <1>3, <1>4 DEF DebuggerInv

LEMMA DecideSends ==
  ASSUME BreakpointInv, NEW u \in Procs, NEW newState, newState \subseteq Positions,
         Decide(u, newState)
  PROVE  ControlsKept(wire, wire', 0)
<1>1. CASE UNCHANGED wire
  BY <1>1, InvTypes, SameControls
<1>2. CASE startReset(u)
  <2>1. breakpointIds \X Conditions \subseteq Positions
    BY InvTypes DEF Positions
  <2>2. PICK c \in Commands : c.op = "remove" /\ wire' = Append(wire, c)
    BY <1>2, <2>1, CommandIs DEF startReset, Send
  <2> QED
    BY <2>2, InvTypes, MoreControls DEF Controls
<1>3. CASE Send(Command("set", u, newState))
  <2>1. PICK c \in Commands : c.op = "set" /\ wire' = Append(wire, c)
    BY <1>3, CommandIs DEF Send
  <2> QED
    BY <2>1, InvTypes, MoreControls DEF Controls
<1> QED
  BY <1>1, <1>2, <1>3 DEF Decide

LEMMA UpdateOfDebugger ==
  ASSUME BreakpointInv, DebuggerInv, NEW u \in Procs, updateInDebugger(u) \/ locationsResolved(u)
  PROVE  DebuggerInv'
<1>1. UNCHANGED <<debuggerEnabled, isReadyToPause, disposed, backendOn>>
  BY DEF updateInDebugger, locationsResolved, debuggerVars, backendVars
<1>2. ControlsKept(wire, wire', 0)
  <2>1. CASE UNCHANGED wire
    BY <2>1, InvTypes, SameControls
  <2>2. CASE Decide(u, {})
    BY <2>2, DecideSends
  <2>3. CASE locationsResolved(u)
    <3>1. PICK L \in (SUBSET Locs) \ {{}} : Decide(u, L \X {read[u]})
      BY <2>3 DEF locationsResolved
    <3>2. phase[u] = "resolving"
      BY <2>3 DEF locationsResolved
    <3>3. L \X {read[u]} \subseteq Positions
      BY <3>2, InvTypes DEF ReadOf, Positions
    <3> QED
      BY <3>1, <3>3, DecideSends
  <2> QED
    BY <2>1, <2>2, <2>3 DEF updateInDebugger
<1> QED
  BY <1>1, <1>2, DebuggerSame

LEMMA DebuggerSuspends ==
  ASSUME BreakpointInv, DebuggerInv, disableDebugger
  PROVE  DebuggerInv'
<1>1. /\ debuggerEnabled /\ ~disposed /\ ~debuggerEnabled'
      /\ wire' = Append(wire, Command("depth", 0, {}))
      /\ UNCHANGED <<isReadyToPause, disposed, backendOn>>
  BY DEF disableDebugger, Send, backendVars
<1>2. Command("depth", 0, {}) \in Commands /\ Command("depth", 0, {}).op = "depth"
  BY CommandIs
<1>3. /\ DOMAIN wire' = DOMAIN wire \cup {Len(wire) + 1} /\ wire'[Len(wire) + 1].op = "depth"
      /\ \A i \in DOMAIN wire : wire'[i] = wire[i] /\ i < Len(wire) + 1
  BY <1>1, <1>2, InvTypes, Appended
<1>4. \A i \in DOMAIN wire : wire[i].op \notin Offs
  BY <1>1 DEF DebuggerInv
<1> QED
  BY <1>1, <1>3, <1>4 DEF DebuggerInv, Offs

LEMMA DebuggerResumes ==
  ASSUME BreakpointInv, DebuggerInv, enableDebugger, ~Overtakes
  PROVE  DebuggerInv'
<1>1. /\ ~debuggerEnabled /\ ~disposed /\ debuggerEnabled'
      /\ wire' = Append(wire, Command("enable", 0, {}))
      /\ UNCHANGED <<isReadyToPause, disposed, backendOn>>
  BY DEF enableDebugger, Send, backendVars
<1>2. Command("enable", 0, {}) \in Commands /\ Command("enable", 0, {}).op = "enable"
  BY CommandIs
<1>3. /\ DOMAIN wire' = DOMAIN wire \cup {Len(wire) + 1} /\ wire'[Len(wire) + 1].op = "enable"
      /\ \A i \in DOMAIN wire : wire'[i] = wire[i]
  BY <1>1, <1>2, InvTypes, Appended
<1>4. \A i \in DOMAIN wire : wire[i].op \notin Offs
  BY DEF Overtakes, Sent, Offs
<1>5. \A i \in DOMAIN wire : wire[i].op # "enable"
  BY <1>1, <1>4 DEF DebuggerInv
<1> QED
  BY <1>1, <1>3, <1>4, <1>5 DEF DebuggerInv, Offs

(* Once a command of disableDebugger is answered, none is left.            *)
LEMMA OffAnswered ==
  ASSUME BreakpointInv, DebuggerInv, wire # << >>, wire[1].op \in Offs
  PROVE  /\ \A i \in DOMAIN Tail(wire) : Tail(wire)[i].op \notin Controls
         /\ ~debuggerEnabled
<1>1. 1 \in DOMAIN wire /\ ~debuggerEnabled
  BY FirstOnWire DEF DebuggerInv
<1> SUFFICES ASSUME NEW i \in DOMAIN Tail(wire), Tail(wire)[i].op \in Controls PROVE FALSE
  BY <1>1
<1>2. /\ i + 1 \in DOMAIN wire /\ i + 1 > 1 /\ Tail(wire)[i] = wire[i + 1] /\ i \in Nat
  BY InvTypes, Tailed
<1>3. CASE wire[i + 1].op \in Offs
  BY <1>1, <1>2, <1>3 DEF DebuggerInv
<1>4. CASE wire[i + 1].op = "enable"
  <2>1. PICK j \in DOMAIN wire : j > i + 1 /\ wire[j].op \in Offs
    BY <1>1, <1>2, <1>4 DEF DebuggerInv
  <2>2. j = 1
    BY <1>1, <2>1 DEF DebuggerInv
  <2> QED
    BY <1>2, <2>1, <2>2
<1> QED
  BY <1>2, <1>3, <1>4 DEF Controls, Offs

LEMMA DebuggerReceives ==
  ASSUME BreakpointInv, DebuggerInv, Receive
  PROVE  DebuggerInv'
<1>1. wire # << >> /\ Head(wire) = wire[1] /\ 1 \in DOMAIN wire
  BY FirstOnWire DEF Receive
<1>2. CASE wire[1].op = "depth"
  <2>1. /\ wire' = Append(Tail(wire), Command("disable", 0, {}))
        /\ UNCHANGED <<debuggerEnabled, isReadyToPause, disposed, backendOn>>
    BY <1>1, <1>2 DEF Receive, backendVars
  <2>2. /\ \A i \in DOMAIN Tail(wire) : Tail(wire)[i].op \notin Controls
        /\ Tail(wire) \in Seq(Commands) /\ ~debuggerEnabled
    BY <1>1, <1>2, InvTypes, Tailed, OffAnswered DEF Offs
  <2>3. Command("disable", 0, {}) \in Commands /\ Command("disable", 0, {}).op = "disable"
    BY CommandIs
  <2>4. /\ DOMAIN wire' = DOMAIN Tail(wire) \cup {Len(Tail(wire)) + 1}
        /\ wire'[Len(Tail(wire)) + 1].op = "disable"
        /\ \A i \in DOMAIN Tail(wire) : wire'[i] = Tail(wire)[i]
    BY <2>1, <2>2, <2>3, Appended
  <2>5. \A i \in DOMAIN wire' : wire'[i].op \in Controls => i = Len(Tail(wire)) + 1
    BY <2>2, <2>4
  <2> QED
    BY <2>1, <2>2, <2>4, <2>5 DEF DebuggerInv, Controls, Offs
<1>3. CASE wire[1].op # "depth"
  <2>1. wire' = Tail(wire)
    BY <1>1, <1>3 DEF Receive
  <2>2. CASE answerSet(wire[1]) \/ answerRemove(wire[1])
    <3>1. UNCHANGED <<debuggerEnabled, isReadyToPause, disposed, backendOn>>
      BY <2>2 DEF answerSet, answerRemove, debuggerVars
    <3>2. wire[1].op \notin Controls
      BY <2>2 DEF answerSet, answerRemove, Controls
    <3>3. ControlsKept(wire, wire', 1)
      BY <1>1, <2>1, <3>2, InvTypes, LessControls
    <3> QED
      BY <3>1, <3>3, DebuggerSame
  <2>3. CASE answerEnable(wire[1])
    <3>1. /\ wire[1].op = "enable" /\ UNCHANGED <<debuggerEnabled, disposed>>
          /\ \/ ~disposed /\ backendOn' = TRUE /\ isReadyToPause' = TRUE
             \/ UNCHANGED <<backendOn, isReadyToPause>>
      BY <2>3 DEF answerEnable
    <3>2. \A i \in DOMAIN wire' :
            /\ i \in Int /\ i + 1 \in DOMAIN wire /\ i + 1 # 1 /\ wire'[i] = wire[i + 1]
      BY <1>1, <2>1, InvTypes, Tailed
    <3>3. \A i \in DOMAIN wire' : wire'[i].op # "enable"
      BY <1>1, <3>1, <3>2 DEF DebuggerInv
    <3>4. \A i, j \in DOMAIN wire' : wire'[i].op \in Offs /\ wire'[j].op \in Offs => i = j
      <4> SUFFICES ASSUME NEW i \in DOMAIN wire', NEW j \in DOMAIN wire',
                          wire'[i].op \in Offs, wire'[j].op \in Offs
                   PROVE  i = j
        OBVIOUS
      <4>1. i + 1 = j + 1
        BY <3>2 DEF DebuggerInv
      <4> QED
        BY <3>2, <4>1
    <3>5. \A i \in DOMAIN wire' : wire'[i].op \in Offs => ~debuggerEnabled
      BY <3>2 DEF DebuggerInv
    <3>6. ~debuggerEnabled => \E i \in DOMAIN wire' : wire'[i].op \in Offs
      <4> SUFFICES ASSUME ~debuggerEnabled PROVE \E i \in DOMAIN wire' : wire'[i].op \in Offs
        OBVIOUS
      <4>1. PICK j \in DOMAIN wire : j > 1 /\ wire[j].op \in Offs
        BY <1>1, <3>1 DEF DebuggerInv
      <4>2. j - 1 \in DOMAIN wire' /\ j \in Int
        BY <1>1, <2>1, <4>1, InvTypes, Tailed
      <4>3. wire'[j - 1] = wire[(j - 1) + 1] /\ (j - 1) + 1 = j
        BY <3>2, <4>2
      <4> QED
        BY <4>1, <4>2, <4>3
    <3>7. ~disposed' => (backendOn' <=> isReadyToPause')
      BY <3>1 DEF DebuggerInv
    <3> QED
      BY <3>1, <3>3, <3>4, <3>5, <3>6, <3>7 DEF DebuggerInv
  <2>4. CASE answerDisable(wire[1])
    <3>1. /\ wire[1].op = "disable" /\ ~backendOn'
          /\ ~isReadyToPause' /\ UNCHANGED <<debuggerEnabled, disposed>>
      BY <2>4 DEF answerDisable
    <3>2. \A i \in DOMAIN wire' : wire'[i].op \notin Controls
      BY <1>1, <2>1, <3>1, OffAnswered DEF Offs
    <3> QED
      BY <3>1, <3>2 DEF DebuggerInv, Controls, Offs
  <2> QED
    BY <1>1, <1>3, <2>2, <2>3, <2>4 DEF Receive
<1> QED
  BY <1>2, <1>3

LEMMA DebuggerNext ==
  ASSUME BreakpointInv, DebuggerInv, [Next]_vars, ~overtaken'
  PROVE  DebuggerInv'
<1>1. CASE UNCHANGED <<wire, debuggerEnabled, isReadyToPause, disposed, backendOn>>
  BY <1>1 DEF DebuggerInv
<1>2. CASE modelRemoved
  <2>1. disposed' = TRUE /\ backendOn' = FALSE
        /\ UNCHANGED <<wire, debuggerEnabled, isReadyToPause>>
    BY <1>2 DEF modelRemoved
  <2> QED
    BY <2>1 DEF DebuggerInv
<1>3. CASE onScriptWasEdited
  <2>1. UNCHANGED <<debuggerEnabled, isReadyToPause, disposed, backendOn>>
    BY <1>3 DEF onScriptWasEdited, debuggerVars, backendVars
  <2>2. PICK u \in Procs : UNCHANGED wire \/ startReset(u)
    BY <1>3 DEF onScriptWasEdited
  <2>3. CASE startReset(u)
    <3>1. breakpointIds \X Conditions \subseteq Positions
      BY InvTypes DEF Positions
    <3>2. PICK c \in Commands : c.op = "remove" /\ wire' = Append(wire, c)
      BY <2>3, <3>1, CommandIs DEF startReset, Send
    <3>3. ControlsKept(wire, wire', 0)
      BY <3>2, InvTypes, MoreControls DEF Controls
    <3> QED
      BY <2>1, <3>3, DebuggerSame
  <2> QED
    BY <1>1, <2>1, <2>2, <2>3
<1>4. ASSUME NEW u \in Procs, updateInDebugger(u) \/ locationsResolved(u) \/ locationsAdded(u)
      PROVE  DebuggerInv'
  <2>1. CASE locationsAdded(u)
    BY <1>1, <2>1 DEF locationsAdded, debuggerVars, backendVars
  <2> QED
    BY <1>4, <2>1, UpdateOfDebugger
<1>5. ASSUME NEW e \in BOOLEAN, NEW c \in Conditions, updateState(e, c) PROVE DebuggerInv'
  BY <1>1, <1>5 DEF updateState, debuggerVars, backendVars
<1>6. CASE remove \/ diverge \/ breakpointResolved
  BY <1>1, <1>6 DEF remove, diverge, breakpointResolved, debuggerVars, backendVars
<1>7. CASE UNCHANGED vars
  BY <1>1, <1>7 DEF vars, debuggerVars, backendVars
<1>8. CASE enableDebugger
  <2>1. ~Overtakes
    BY <1>8 DEF enableDebugger
  <2> QED
    BY <1>8, <2>1, DebuggerResumes
<1> QED
  BY <1>2, <1>3, <1>4, <1>5, <1>6, <1>7, <1>8, DebuggerReceives, DebuggerSuspends DEF Next

-----------------------------------------------------------------------------
(* What the model thinks the back-end has.                                 *)
LEMMA Empties == At({}) = {} /\ \A be : At(be) = {} => be = {}
BY DEF At

(* Where no ids are known, the back-end has nothing.                       *)
LEMMA NoIds ==
  ASSUME BreakpointInv, ~cutShort, breakpointIds = {} PROVE backend = {}
BY Empties DEF BreakpointInv, IdsInv, IdsOf

LEMMA NoneLeft ==
  ASSUME BreakpointInv, ~cutShort, wire # << >>, wire[1].op = "remove"
  PROVE  backend \ wire[1].state = {}
<1>1. /\ wire \in Seq(Commands) /\ IdsOf(wire, breakpointIds, cutShort, backend)
      /\ backend \subseteq Positions
  BY InvTypes
<1>2. IdsOf(Tail(wire), {}, cutShort, backend \ wire[1].state)
  BY <1>1, IdsRemoved
<1> QED
  BY <1>2, Empties DEF IdsOf

LEMMA StateSame ==
  ASSUME StateInv, UNCHANGED <<backend, breakpointIds, currentState, disposed>>,
         cutShort => cutShort', isRemoved => isRemoved'
  PROVE  StateInv'
BY DEF StateInv

(* Setting is answered.  Where it is cut short, the back-end is off or     *)
(* nothing more is claimed.                                                *)
LEMMA Answer ==
  ASSUME BreakpointInv, wire # << >>, answerSet(wire[1])
  PROVE  /\ wire[1].by \in Procs /\ phase[wire[1].by] = "setting" /\ breakpointIds = {}
         /\ wire[1].state # {} /\ wire[1].state \subseteq Locs \X {lastRead}
         /\ lastRead \in Conditions
         /\ \E done \in SUBSET wire[1].state :
              /\ backend' = backend \cup done /\ (~backendOn => done = {})
              /\ breakpointsSet(wire[1].by, wire[1].state, done)
<1>1. wire[1].op = "set" /\ 1 \in DOMAIN wire
  BY FirstOnWire DEF answerSet
<1>2. PICK refused \in SUBSET wire[1].state, done \in SUBSET wire[1].state :
        /\ done = IF backendOn THEN {p \in wire[1].state : p[1] \notin At(backend)} \ refused
                               ELSE {}
        /\ backend' = backend \cup done
        /\ breakpointsSet(wire[1].by, wire[1].state, done)
  BY DEF answerSet
<1>3. done \in SUBSET wire[1].state /\ (~backendOn => done = {})
  BY <1>2
<1>4. wire[1].by \in Procs /\ phase[wire[1].by] = "setting" /\ breakpointIds = {}
  BY <1>1, InvTypes DEF WireOf, IdsOf
<1>5. /\ wire[1].state # {} /\ wire[1].state \subseteq Locs \X {lastRead}
      /\ lastRead \in Conditions
  BY <1>1, <1>4, InvTypes DEF ReadOf
<1> QED
  BY <1>2, <1>3, <1>4, <1>5

LEMMA StateSet ==
  ASSUME BreakpointInv, StateInv, wire # << >>, answerSet(wire[1])
  PROVE  StateInv'
<1>1. PICK done \in SUBSET wire[1].state :
        /\ backend' = backend \cup done /\ (~backendOn => done = {})
        /\ breakpointsSet(wire[1].by, wire[1].state, done)
  BY Answer
<1>2. breakpointIds = {} /\ UNCHANGED disposed
  BY Answer DEF answerSet, debuggerVars
<1>3. CASE UNCHANGED <<modelVars, cutShort, breakpointVars>> /\ done = {}
  BY <1>1, <1>2, <1>3, StateSame DEF modelVars, breakpointVars
<1>4. CASE currentState' = wire[1].state /\ cutShort' = (cutShort \/ backendOn)
             /\ UNCHANGED breakpointIds
  <2> SUFFICES ASSUME ~cutShort' PROVE backend' = {} /\ breakpointIds' = {}
    BY <1>4 DEF StateInv
  <2>1. ~cutShort /\ ~backendOn
    BY <1>4
  <2> QED
    BY <1>1, <1>2, <1>4, <2>1, NoIds
<1>5. CASE /\ currentState' = wire[1].state /\ done = {}
           /\ UNCHANGED <<breakpointIds, cutShort>>
  <2> SUFFICES ASSUME ~cutShort' PROVE backend' = {} /\ breakpointIds' = {}
    BY DEF StateInv
  <2> QED
    BY <1>1, <1>2, <1>5, NoIds
<1>6. CASE currentState' = wire[1].state /\ done # {} /\ UNCHANGED cutShort
  <2> SUFFICES ASSUME ~cutShort' PROVE backend' \subseteq currentState' /\ backend' # {}
    BY DEF StateInv
  <2> QED
    BY <1>1, <1>2, <1>6, NoIds
<1> QED
  BY <1>1, <1>3, <1>4, <1>5, <1>6 DEF breakpointsSet

LEMMA StateReceives ==
  ASSUME BreakpointInv, StateInv, Receive
  PROVE  StateInv'
<1>1. wire # << >> /\ Head(wire) = wire[1] /\ 1 \in DOMAIN wire
  BY FirstOnWire DEF Receive
<1>2. CASE wire[1].op = "depth"
  <2>1. UNCHANGED <<backend, breakpointIds, currentState, disposed, cutShort, isRemoved>>
    BY <1>1, <1>2 DEF Receive, backendVars, history, modelVars, breakpointVars
  <2> QED
    BY <2>1, StateSame
<1>3. CASE answerSet(wire[1])
  BY <1>1, <1>3, StateSet
<1>4. CASE answerRemove(wire[1])
  <2>1. /\ backend' = backend \ wire[1].state /\ currentState' = {} /\ cutShort' = cutShort
        /\ wire[1].op = "remove"
    BY <1>4 DEF answerRemove, breakpointsRemoved
  <2> QED
    BY <1>1, <2>1, NoneLeft DEF StateInv
<1>5. CASE answerEnable(wire[1])
  <2>1. UNCHANGED <<backend, breakpointIds, currentState, disposed, cutShort, isRemoved>>
    BY <1>5 DEF answerEnable, modelVars, breakpointVars
  <2> QED
    BY <2>1, StateSame
<1>6. CASE answerDisable(wire[1])
  <2>1. backend' = {} /\ UNCHANGED <<disposed, cutShort, isRemoved>>
    BY <1>6 DEF answerDisable, breakpointVars
  <2>2. CASE isRemoved \/ disposed
    BY <2>1, <2>2 DEF StateInv
  <2>3. CASE ~(isRemoved \/ disposed)
    <3>1. currentState' = {}
      BY <1>6, <2>3 DEF answerDisable, cleanUpAfterDebuggerIsGone
    <3> QED
      BY <2>1, <3>1 DEF StateInv
  <2> QED
    BY <2>2, <2>3
<1> QED
  BY <1>1, <1>2, <1>3, <1>4, <1>5, <1>6 DEF Receive

LEMMA StateNext ==
  ASSUME BreakpointInv, StateInv, [Next]_vars
  PROVE  StateInv'
<1>1. CASE UNCHANGED <<backend, breakpointIds, currentState, disposed, cutShort, isRemoved>>
  BY <1>1, StateSame
<1>2. ASSUME NEW u \in Procs, NEW newState, Decide(u, newState)
      PROVE  UNCHANGED <<breakpointIds, currentState>>
  BY <1>2 DEF Decide, startReset, modelVars
<1>3. ASSUME NEW u \in Procs, updateInDebugger(u) PROVE StateInv'
  <2>1. UNCHANGED <<backend, disposed, cutShort, isRemoved>>
    BY <1>3 DEF updateInDebugger, breakpointVars, debuggerVars, backendVars, history
  <2>2. CASE disposed
    <3>1. currentState' = {} /\ backend = {}
      BY <1>3, <2>2 DEF updateInDebugger, cleanUpAfterDebuggerIsGone, BreakpointInv
    <3> QED
      BY <2>1, <3>1 DEF StateInv
  <2>3. CASE ~disposed
    <3>1. Decide(u, {}) \/ UNCHANGED modelVars
      BY <1>3, <2>3 DEF updateInDebugger
    <3>2. UNCHANGED <<breakpointIds, currentState>>
      BY <1>2, <3>1 DEF modelVars
    <3> QED
      BY <1>1, <2>1, <3>2
  <2> QED
    BY <2>2, <2>3
<1>4. ASSUME NEW u \in Procs, locationsResolved(u) PROVE StateInv'
  <2>1. UNCHANGED <<backend, disposed, cutShort, isRemoved>>
    BY <1>4 DEF locationsResolved, breakpointVars, debuggerVars, backendVars, history
  <2>2. UNCHANGED <<breakpointIds, currentState>>
    BY <1>2, <1>4 DEF locationsResolved
  <2> QED
    BY <1>1, <2>1, <2>2
<1>5. ASSUME NEW u \in Procs, locationsAdded(u) PROVE StateInv'
  <2>1. UNCHANGED <<backend, breakpointIds, currentState, disposed, cutShort>>
    BY <1>5 DEF locationsAdded, debuggerVars, backendVars, history, modelVars
  <2>2. isRemoved => isRemoved'
    BY <1>5 DEF locationsAdded, ReleaseAndRemove, breakpointVars
  <2> QED
    BY <2>1, <2>2, StateSame
<1>6. ASSUME NEW e \in BOOLEAN, NEW c \in Conditions, updateState(e, c) PROVE StateInv'
  BY <1>1, <1>6 DEF updateState, debuggerVars, backendVars, history, modelVars
<1>7. CASE remove
  <2>1. /\ UNCHANGED <<backend, breakpointIds, currentState, disposed, cutShort>>
        /\ isRemoved' = TRUE
    BY <1>7 DEF remove, debuggerVars, backendVars, history, modelVars
  <2> QED
    BY <2>1, StateSame
<1>8. CASE diverge \/ breakpointResolved \/ disableDebugger \/ enableDebugger
  BY <1>1, <1>8 DEF diverge, breakpointResolved, disableDebugger, enableDebugger, breakpointVars,
     debuggerVars, modelVars, backendVars, history
<1>9. CASE onScriptWasEdited
  BY <1>1, <1>9 DEF onScriptWasEdited, startReset, breakpointVars, debuggerVars, modelVars,
     backendVars, history
<1>10. CASE modelRemoved
  <2>1. backend' = {} /\ currentState' = {}
    BY <1>10 DEF modelRemoved, cleanUpAfterDebuggerIsGone
  <2> QED
    BY <2>1 DEF StateInv
<1>11. CASE UNCHANGED vars
  BY <1>1, <1>11 DEF vars, breakpointVars, debuggerVars, modelVars, backendVars, history
<1> QED
  BY <1>3, <1>4, <1>5, <1>6, <1>7, <1>8, <1>9, <1>10, <1>11, StateReceives DEF Next

-----------------------------------------------------------------------------
(* Progress: what is out of step has somebody to look at it.               *)
Working == {"waiting", "resolving", "resetting", "setting", "refreshing"}

LEMMA OneWaits ==
  ASSUME BreakpointInv, NEW u \in Procs, phase' = [phase EXCEPT ![u] = "waiting"]
  PROVE  ProgressInv'
<1>1. phase'[u] = "waiting"
  BY InvTypes
<1> QED
  BY <1>1 DEF ProgressInv, Somebody

LEMMA OthersWait ==
  ASSUME BreakpointInv, NEW u \in Procs, NEW x, phase' = [phase EXCEPT ![u] = x]
  PROVE  /\ phase[u] # "waiting" /\ Somebody({"waiting"}) => Somebody({"waiting"})'
         /\ phase[u] \notin Working /\ Somebody(Working) => Somebody(Working)'
         /\ x \in Working => Somebody(Working)'
         /\ x = "waiting" => Somebody({"waiting"})'
BY InvTypes DEF Somebody, Working

LEMMA NothingToDo == ASSUME ~debuggerEnabled' \/ disposed' PROVE ProgressInv'
BY DEF ProgressInv

(* The mutex is taken: the update reads, and what it read is fresh.        *)
LEMMA ProgressUpdate ==
  ASSUME BreakpointInv, StateInv, NEW u \in Procs, updateInDebugger(u)
  PROVE  ProgressInv'
<1>1. CASE disposed
  BY <1>1, NothingToDo DEF updateInDebugger, debuggerVars
<1>2. CASE ~disposed
  <2>1. /\ phase[u] = "waiting" /\ Holds(u)
        /\ UNCHANGED <<enabled, condition, isRemoved, backend, cutShort>>
        /\ IF Wanted THEN Await(u, "resolving") ELSE Decide(u, {})
    BY <1>2 DEF updateInDebugger, breakpointVars, backendVars
  <2>2. lastRead' = IF Wanted THEN condition ELSE NoCondition
    BY <1>2 DEF updateInDebugger
  <2>3. Fresh'
    BY <2>1, <2>2 DEF Fresh, Wanted
  <2>4. cutShort' \/ InLine' \/ Somebody(Working)'
    <3>1. CASE Await(u, "resolving")
      BY <3>1, OthersWait DEF Await, Working
    <3>2. CASE Await(u, "resetting")
      BY <3>2, OthersWait DEF Await, Working
    <3>3. CASE ~Wanted /\ ~cutShort /\ (breakpointIds = {} \/ currentState = {})
      <4>1. backend = {}
        BY <3>3, NoIds DEF StateInv
      <4> QED
        BY <2>1, <2>2, <3>3, <4>1 DEF InLine
    <3> QED
      BY <2>1, <3>1, <3>2, <3>3 DEF Decide, upToDate
  <2> QED
    BY <2>3, <2>4 DEF ProgressInv, Working
<1> QED
  BY <1>1, <1>2

(* The new state is known.  If it is the one the model has, the back-end   *)
(* has it too, unless it went with the breakpoint, and then somebody waits.*)
LEMMA ProgressResolved ==
  ASSUME BreakpointInv, StateInv, ProgressInv, NEW u \in Procs, locationsResolved(u)
  PROVE  ProgressInv'
<1>1. /\ phase[u] = "resolving"
      /\ UNCHANGED <<enabled, condition, isRemoved, debuggerEnabled, disposed, lastRead, backend,
                     cutShort>>
  BY DEF locationsResolved, breakpointVars, debuggerVars, backendVars, history
<1>2. PICK L \in (SUBSET Locs) \ {{}} : Decide(u, L \X {read[u]})
  BY DEF locationsResolved
<1>3. read[u] = lastRead /\ lastRead \in Conditions /\ lastRead # NoCondition
  BY <1>1, InvTypes, UpdatesAssumption DEF ReadOf
<1>4. L \X {lastRead} # {}
  <2>1. L # {}
    BY <1>2
  <2>2. PICK l : l \in L
    BY <2>1
  <2>3. <<l, lastRead>> \in L \X {lastRead}
    BY <2>2
  <2> QED
    BY <2>3
<1>5. CASE ~debuggerEnabled \/ disposed
  BY <1>1, <1>5, NothingToDo
<1>6. CASE debuggerEnabled /\ ~disposed
  <2>1. ~Gone
    BY <1>1 DEF Gone
  <2>2. PICK x \in {"idle", "resetting", "setting"} :
          /\ phase' = [phase EXCEPT ![u] = x]
          /\ x = "idle" => breakpointIds # {} /\ currentState = L \X {lastRead}
    BY <1>2, <1>3, <1>4 DEF Decide, Release, Await, upToDate
  <2>3. Somebody({"waiting"}) => Somebody({"waiting"})'
    BY <1>1, <2>2, OthersWait
  <2>4. Fresh => Fresh'
    BY <1>1, <2>1 DEF Fresh
  <2>5. Fresh' \/ Somebody({"waiting"})'
    BY <1>6, <2>3, <2>4 DEF ProgressInv
  <2>6. CASE x # "idle"
    <3>1. Somebody(Working)'
      BY <2>2, <2>6, OthersWait DEF Working
    <3> QED
      BY <2>5, <3>1 DEF ProgressInv, Working
  <2>7. CASE x = "idle"
    <3> SUFFICES ASSUME ~cutShort PROVE InLine' \/ Somebody(Working)'
      BY <1>1, <2>5 DEF ProgressInv, Working
    <3>1. breakpointIds # {} /\ currentState = L \X {lastRead} /\ currentState # {}
      BY <1>4, <2>2, <2>7
    <3>2. CASE backend # {}
      <4>1. backend \subseteq L \X {lastRead}
        BY <3>1 DEF StateInv
      <4>2. InLine'
        BY <1>1, <1>3, <3>2, <4>1 DEF InLine
      <4> QED
        BY <4>2
    <3>3. CASE isRemoved
      <4>1. ~Fresh
        BY <1>3, <2>1, <3>3 DEF Fresh
      <4>2. Somebody({"waiting"})'
        BY <1>6, <2>3, <4>1 DEF ProgressInv
      <4> QED
        BY <4>2 DEF Somebody, Working
    <3> QED
      BY <1>6, <3>1, <3>2, <3>3 DEF StateInv
  <2> QED
    BY <2>6, <2>7
<1> QED
  BY <1>5, <1>6

(* An update ends without having changed anything.                         *)
LEMMA ProgressIdles ==
  ASSUME BreakpointInv, ProgressInv, NEW u \in Procs, phase[u] \notin Working,
         phase' = [phase EXCEPT ![u] = "idle"],
         UNCHANGED <<enabled, condition, isRemoved, debuggerEnabled, disposed, lastRead, wire,
                     backend, backendOn, cutShort>>
  PROVE  ProgressInv'
<1>1. CASE ~debuggerEnabled \/ disposed
  BY <1>1, NothingToDo
<1>2. CASE debuggerEnabled /\ ~disposed
  <2>1. /\ Somebody({"waiting"}) => Somebody({"waiting"})'
        /\ Somebody(Working) => Somebody(Working)'
    BY OthersWait DEF Working
  <2>2. (Fresh => Fresh') /\ (Gone => Gone')
    <3>1. \A v \in Procs : phase'[v] = "resolving" => phase[v] = "resolving"
      BY InvTypes
    <3>2. Gone => Gone'
      BY <3>1 DEF Gone
    <3> QED
      BY <3>2 DEF Fresh
  <2>3. InLine => InLine'
    BY DEF InLine
  <2> QED
    BY <1>2, <2>1, <2>2, <2>3 DEF ProgressInv, Working
<1> QED
  BY <1>1, <1>2

LEMMA ProgressAdded ==
  ASSUME BreakpointInv, ProgressInv, NEW u \in Procs, locationsAdded(u)
  PROVE  ProgressInv'
<1>1. /\ phase[u] = "locating" /\ phase[u] \notin Working
      /\ UNCHANGED <<debuggerEnabled, disposed, lastRead, wire, backend, backendOn, cutShort>>
  BY DEF locationsAdded, debuggerVars, backendVars, history, Working
<1>2. CASE Release(u) /\ UNCHANGED breakpointVars
  BY <1>1, <1>2, ProgressIdles DEF Release, breakpointVars
<1>3. CASE ReleaseAndRemove(u)
  <2>1. CASE ~debuggerEnabled \/ disposed
    BY <1>1, <2>1, NothingToDo
  <2>2. CASE Enqueue(u, Tail(updateMutex))
    BY <2>2, OneWaits DEF Enqueue
  <2>3. CASE isRemoved /\ Release(u)
    <3>1. UNCHANGED <<enabled, condition>> /\ isRemoved' = TRUE
      BY <1>3 DEF ReleaseAndRemove
    <3>2. isRemoved' = isRemoved
      BY <2>3, <3>1 DEF BreakpointInv, Flags
    <3> QED
      BY <1>1, <2>3, <3>1, <3>2, ProgressIdles DEF Release
  <2> QED
    BY <1>3, <2>1, <2>2, <2>3 DEF ReleaseAndRemove
<1> QED
  BY <1>2, <1>3 DEF locationsAdded

(* Setting is answered: to be repeated; or by a back-end that is on, and   *)
(* then the breakpoint is not one that was removed while it was off.       *)
LEMMA ProgressSet ==
  ASSUME BreakpointInv, DebuggerInv, ProgressInv, wire # << >>, answerSet(wire[1]),
         UNCHANGED lastRead
  PROVE  ProgressInv'
<1> DEFINE u == wire[1].by
<1>1. PICK done \in SUBSET wire[1].state :
        /\ backend' = backend \cup done /\ (~backendOn => done = {})
        /\ breakpointsSet(u, wire[1].state, done)
  BY Answer
<1>2. /\ u \in Procs /\ phase[u] = "setting" /\ wire[1].state # {}
      /\ wire[1].state \subseteq Locs \X {lastRead} /\ lastRead \in Conditions
      /\ lastRead # NoCondition
  BY Answer, UpdatesAssumption
<1>3. UNCHANGED <<debuggerEnabled, disposed, backendOn>> /\ wire[1].op = "set" /\ 1 \in DOMAIN wire
  BY FirstOnWire DEF answerSet, debuggerVars
<1> HIDE DEF u
<1>4. CASE ~debuggerEnabled \/ disposed
  BY <1>3, <1>4, NothingToDo
<1>5. CASE Await(u, "waiting")
  BY <1>2, <1>5, OneWaits DEF Await
<1>6. CASE /\ debuggerEnabled /\ ~disposed
           /\ ~(done = {} /\ done # wire[1].state /\ debuggerEnabled /\ ~isReadyToPause)
  <2>1. backendOn
    BY <1>1, <1>2, <1>6 DEF DebuggerInv
  <2>2. ~Gone
    BY <1>3, <2>1 DEF Gone
  <2>3. Fresh => ~isRemoved
    BY <1>2, <2>2 DEF Fresh
  <2>4. ASSUME NEW x, phase' = [phase EXCEPT ![u] = x]
        PROVE  Somebody({"waiting"}) => Somebody({"waiting"})'
    BY <1>2, <2>4, OthersWait
  <2>5. CASE /\ Release(u) /\ cutShort' = (cutShort \/ backendOn) /\ UNCHANGED breakpointVars
    <3>1. cutShort' /\ phase' = [phase EXCEPT ![u] = "idle"]
      BY <2>1, <2>5 DEF Release
    <3>2. Fresh => Fresh'
      BY <2>2, <2>5 DEF Fresh, breakpointVars
    <3> QED
      BY <1>6, <2>4, <3>1, <3>2 DEF ProgressInv
  <2>6. CASE done = {} /\ ReleaseAndRemove(u)
    <3>1. CASE Enqueue(u, Tail(updateMutex))
      BY <1>2, <3>1, OneWaits DEF Enqueue
    <3>2. CASE isRemoved /\ Release(u)
      <4>1. Somebody({"waiting"})
        BY <1>6, <2>3, <3>2 DEF ProgressInv
      <4>2. Somebody({"waiting"})'
        BY <2>4, <3>2, <4>1 DEF Release
      <4> QED
        BY <4>2 DEF ProgressInv, Somebody
    <3> QED
      BY <1>6, <2>6, <3>1, <3>2 DEF ReleaseAndRemove
  <2>7. CASE /\ done # {}
             /\ Await(u, "locating") \/ Release(u)
             /\ UNCHANGED <<breakpointVars, cutShort>>
    <3>1. PICK x \in {"locating", "idle"} : phase' = [phase EXCEPT ![u] = x]
      BY <2>7 DEF Await, Release
    <3>2. Fresh => Fresh'
      BY <2>2, <2>7 DEF Fresh, breakpointVars
    <3>3. ~cutShort' => InLine'
      <4> SUFFICES ASSUME ~cutShort PROVE InLine'
        BY <2>7
      <4>1. backend = {}
        BY Answer, NoIds
      <4>2. backend' = done /\ done # {}
        BY <1>1, <2>7, <4>1
      <4>3. done \subseteq Locs \X {lastRead}
        BY <1>1, <1>2
      <4> QED
        BY <1>2, <4>2, <4>3 DEF InLine
    <3> QED
      BY <1>6, <2>4, <3>1, <3>2, <3>3 DEF ProgressInv
  <2> QED
    BY <1>1, <1>6, <2>5, <2>6, <2>7 DEF breakpointsSet
<1> QED
  BY <1>1, <1>4, <1>5, <1>6 DEF breakpointsSet

(* The agent is on again: nothing it was asked before is left to be set.   *)
LEMMA ProgressEnabled ==
  ASSUME BreakpointInv, DebuggerInv, ProgressInv, wire # << >>, answerEnable(wire[1]),
         wire' = Tail(wire), UNCHANGED lastRead
  PROVE  ProgressInv'
<1>1. UNCHANGED <<enabled, condition, isRemoved, debuggerEnabled, disposed, phase, backend,
                  cutShort>>
  BY DEF answerEnable, breakpointVars
<1>2. wire[1].op = "enable" /\ 1 \in DOMAIN wire
  BY FirstOnWire DEF answerEnable
<1>3. Gone => Gone'
  <2> SUFFICES ASSUME Gone, NEW i \in DOMAIN Tail(wire), Tail(wire)[i].op = "set" PROVE FALSE
    BY <1>1 DEF Gone
  <2>1. i + 1 \in DOMAIN wire /\ wire[i + 1].op = "set" /\ i \in Nat /\ 1 <= i
    BY InvTypes, Tailed
  <2>2. PICK j \in DOMAIN wire : j > i + 1 /\ wire[j].op = "enable"
    BY <2>1 DEF Gone
  <2>3. j = 1
    BY <1>2, <2>2 DEF DebuggerInv
  <2> QED
    BY <2>1, <2>2, <2>3
<1>4. (Fresh => Fresh') /\ (InLine => InLine')
  BY <1>1, <1>3 DEF Fresh, InLine
<1>5. Somebody({"waiting"}) => Somebody({"waiting"})'
  BY <1>1 DEF Somebody
<1>6. Somebody(Working) => Somebody(Working)'
  BY <1>1 DEF Somebody, Working
<1> QED
  BY <1>1, <1>3, <1>4, <1>5, <1>6 DEF ProgressInv, Working

LEMMA ProgressReceives ==
  ASSUME BreakpointInv, DebuggerInv, ProgressInv, Receive
  PROVE  ProgressInv'
<1>1. wire # << >> /\ Head(wire) = wire[1] /\ 1 \in DOMAIN wire /\ UNCHANGED lastRead
  BY FirstOnWire DEF Receive
<1>2. CASE wire[1].op = "depth"
  <2>1. ~debuggerEnabled /\ UNCHANGED debuggerEnabled
    BY <1>1, <1>2 DEF Receive, DebuggerInv, Offs
  <2> QED
    BY <2>1, NothingToDo
<1>3. CASE answerDisable(wire[1])
  <2>1. ~debuggerEnabled /\ UNCHANGED debuggerEnabled
    BY <1>1, <1>3 DEF answerDisable, DebuggerInv, Offs
  <2> QED
    BY <2>1, NothingToDo
<1>4. CASE answerSet(wire[1])
  BY <1>1, <1>4, ProgressSet
<1>5. CASE answerEnable(wire[1]) /\ wire' = Tail(wire)
  BY <1>1, <1>5, ProgressEnabled
<1>6. CASE answerRemove(wire[1])
  <2>1. UNCHANGED <<debuggerEnabled, disposed>> /\ breakpointsRemoved(wire[1].by)
    BY <1>6 DEF answerRemove, debuggerVars
  <2>2. wire[1].by \in Procs
    BY <1>1, <1>6, InvTypes DEF answerRemove, WireOf
  <2>3. \/ ~debuggerEnabled
        \/ phase' = [phase EXCEPT ![wire[1].by] = "waiting"]
    BY <2>1 DEF breakpointsRemoved, Await, Enqueue
  <2> QED
    BY <2>1, <2>2, <2>3, OneWaits, NothingToDo
<1> QED
  BY <1>1, <1>2, <1>3, <1>4, <1>5, <1>6 DEF Receive

(* The debugger is resumed: of a breakpoint that was removed meanwhile     *)
(* nothing is left, and nothing sent before will be set.                   *)
LEMMA ProgressResumes ==
  ASSUME BreakpointInv, DebuggerInv, enableDebugger, ~Overtakes
  PROVE  ProgressInv'
<1>1. /\ ~debuggerEnabled /\ ~disposed
      /\ isRemoved => \A u \in Procs : phase[u] # "resolving"
      /\ debuggerEnabled' = TRUE
      /\ wire' = Append(wire, Command("enable", 0, {}))
      /\ IF isRemoved THEN UNCHANGED <<updateMutex, phase>> ELSE updateModels
      /\ UNCHANGED <<enabled, condition, isRemoved, disposed, lastRead, backend, backendOn,
                     cutShort>>
  BY DEF enableDebugger, Send, backendVars, breakpointVars, Overtakes
<1>2. CASE ~isRemoved
  <2>1. PICK u \in Procs : phase' = [phase EXCEPT ![u] = "waiting"]
    BY <1>1, <1>2 DEF updateModels, Enqueue
  <2> QED
    BY <2>1, OneWaits
<1>3. CASE isRemoved
  <2>1. ~backendOn /\ backend = {}
    <3>1. \A i \in DOMAIN wire : wire[i].op \notin Offs
      BY DEF Overtakes, Sent, Offs
    <3> QED
      BY <1>1, <3>1 DEF DebuggerInv, BreakpointInv
  <2>2. Command("enable", 0, {}) \in Commands /\ Command("enable", 0, {}).op = "enable"
    BY CommandIs
  <2>3. /\ DOMAIN wire' = DOMAIN wire \cup {Len(wire) + 1} /\ wire'[Len(wire) + 1].op = "enable"
        /\ \A i \in DOMAIN wire : Len(wire) + 1 > i
    BY <1>1, <2>2, InvTypes, Appended
  <2>4. \A i \in DOMAIN wire' : wire'[i].op = "set" =>
          ~backendOn' /\ \E j \in DOMAIN wire' : j > i /\ wire'[j].op = "enable"
    BY <1>1, <2>1, <2>3
  <2>5. Gone'
    BY <1>1, <1>3, <2>1, <2>4 DEF Gone
  <2>6. Fresh'
    BY <1>1, <1>3, <2>5 DEF Fresh
  <2> QED
    BY <2>5, <2>6 DEF ProgressInv
<1> QED
  BY <1>2, <1>3

LEMMA ProgressEdited ==
  ASSUME BreakpointInv, ProgressInv, onScriptWasEdited
  PROVE  ProgressInv'
<1>1. PICK u \in Procs :
        /\ Idle(u)
        /\ \/ Enqueue(u, updateMutex)
           \/ Await(u, "refreshing")
  BY DEF onScriptWasEdited
<1>2. /\ ~isRemoved /\ ~disposed /\ debuggerEnabled
      /\ UNCHANGED <<enabled, condition, isRemoved, lastRead>>
  BY DEF onScriptWasEdited, breakpointVars, history
<1>3. CASE Enqueue(u, updateMutex)
  BY <1>3, OneWaits DEF Enqueue
<1>4. CASE Await(u, "refreshing")
  <2>1. /\ Somebody({"waiting"}) => Somebody({"waiting"})'
        /\ Somebody(Working)'
    BY <1>1, <1>4, OthersWait DEF Idle, Await, Working
  <2>2. Fresh => Fresh'
    BY <1>2 DEF Fresh, Gone
  <2> QED
    BY <1>2, <2>1, <2>2 DEF ProgressInv, Working
<1> QED
  BY <1>1, <1>3, <1>4

LEMMA ProgressNext ==
  ASSUME BreakpointInv, DebuggerInv, StateInv, ProgressInv, [Next]_vars, ~overtaken'
  PROVE  ProgressInv'
<1>1. CASE UNCHANGED <<enabled, condition, isRemoved, debuggerEnabled, disposed, phase, wire,
                       backendOn, backend, lastRead, cutShort>>
  BY <1>1 DEF ProgressInv, Fresh, Gone, InLine, Somebody
<1>2. ASSUME updateModels, UNCHANGED <<debuggerEnabled, disposed>> PROVE ProgressInv'
  <2>1. CASE ~debuggerEnabled \/ disposed
    BY <1>2, <2>1, NothingToDo
  <2>2. CASE debuggerEnabled /\ ~disposed
    <3>1. PICK u \in Procs : phase' = [phase EXCEPT ![u] = "waiting"]
      BY <1>2, <2>2 DEF updateModels, Enqueue
    <3> QED
      BY <3>1, OneWaits
  <2> QED
    BY <2>1, <2>2
<1>3. ASSUME NEW u \in Procs, updateInDebugger(u) \/ locationsResolved(u) \/ locationsAdded(u)
      PROVE  ProgressInv'
  BY <1>3, ProgressUpdate, ProgressResolved, ProgressAdded
<1>4. ASSUME NEW e \in BOOLEAN, NEW c \in Conditions, updateState(e, c) PROVE ProgressInv'
  BY <1>2, <1>4 DEF updateState, debuggerVars
<1>5. CASE remove
  BY <1>2, <1>5 DEF remove, debuggerVars
<1>6. CASE diverge \/ breakpointResolved
  BY <1>1, <1>6 DEF diverge, breakpointResolved, debuggerVars, backendVars, history, breakpointVars
<1>7. CASE disableDebugger
  BY <1>7, NothingToDo DEF disableDebugger
<1>8. CASE modelRemoved
  BY <1>8, NothingToDo DEF modelRemoved
<1>9. CASE UNCHANGED vars
  BY <1>1, <1>9 DEF vars, breakpointVars, debuggerVars, backendVars, history
<1>10. CASE enableDebugger
  <2>1. ~Overtakes
    BY <1>10 DEF enableDebugger
  <2> QED
    BY <1>10, <2>1, ProgressResumes
<1> QED
  BY <1>3, <1>4, <1>5, <1>6, <1>7, <1>8, <1>9, <1>10, ProgressReceives, ProgressEdited DEF Next

(* Once overtaken, always overtaken.                                       *)
LEMMA OvertakenNext ==
  ASSUME overtaken \in BOOLEAN, [Next]_vars
  PROVE  overtaken' \in BOOLEAN /\ (overtaken => overtaken')
<1>1. CASE UNCHANGED overtaken
  BY <1>1
<1>2. CASE enableDebugger
  <2>1. overtaken' = (overtaken \/ Overtakes)
    BY <1>2 DEF enableDebugger
  <2> QED
    BY <2>1, Zenon
<1>3. ASSUME NEW u \in Procs, updateInDebugger(u) \/ locationsResolved(u) \/ locationsAdded(u)
      PROVE  UNCHANGED overtaken
  BY <1>3 DEF updateInDebugger, locationsResolved, locationsAdded, history
<1>4. ASSUME NEW e \in BOOLEAN, NEW c \in Conditions, updateState(e, c) PROVE UNCHANGED overtaken
  BY <1>4 DEF updateState, history
<1>5. CASE Receive \/ remove \/ diverge \/ onScriptWasEdited
  BY <1>1, <1>5 DEF Receive, remove, diverge, onScriptWasEdited, history
<1>6. CASE breakpointResolved \/ disableDebugger \/ modelRemoved
  BY <1>1, <1>6 DEF breakpointResolved, disableDebugger, modelRemoved, history
<1>7. CASE UNCHANGED vars
  BY <1>1, <1>7 DEF vars, history
<1> QED
  BY <1>1, <1>2, <1>3, <1>4, <1>5, <1>6, <1>7 DEF Next

LEMMA InStepStarts == Init => InStepInv
<1> SUFFICES ASSUME Init PROVE InStepInv
  OBVIOUS
<1>1. /\ isReadyToPause = FALSE /\ backendOn = FALSE /\ overtaken = FALSE
      /\ backend = {} /\ currentState = {} /\ breakpointIds = {}
      /\ wire = IF debuggerEnabled THEN <<Command("enable", 0, {})>> ELSE <<>>
      /\ debuggerEnabled => phase[1] = "waiting"
  <2>1. 1 \in Procs
    BY UpdatesAssumption DEF Procs
  <2> QED
    BY <2>1 DEF Init
<1>2. \A i \in DOMAIN wire : i = 1 /\ wire[i].op = "enable" /\ debuggerEnabled
  <2>1. CASE debuggerEnabled
    BY <1>1, <2>1, CommandIs
  <2>2. CASE ~debuggerEnabled
    BY <1>1, <2>2
  <2> QED
    BY <2>1, <2>2
<1>3. DebuggerInv
  BY <1>1, <1>2 DEF DebuggerInv, Offs
<1>4. StateInv
  BY <1>1 DEF StateInv
<1>5. ProgressInv
  <2>1. 1 \in Procs
    BY UpdatesAssumption DEF Procs
  <2> QED
    BY <1>1, <2>1 DEF ProgressInv, Somebody
<1>6. overtaken \in BOOLEAN
  BY <1>1, Zenon
<1> QED
  BY <1>3, <1>4, <1>5, <1>6 DEF InStepInv

LEMMA InStepKeeps ==
  ASSUME BreakpointInv, InStepInv, [Next]_vars PROVE BreakpointInv' /\ InStepInv'
<1>1. overtaken' \in BOOLEAN /\ (overtaken => overtaken')
  BY OvertakenNext DEF InStepInv
<1>2. BreakpointInv' /\ StateInv'
  BY NextKeeps, StateNext DEF InStepInv
<1>3. ASSUME ~overtaken' PROVE DebuggerInv' /\ ProgressInv'
  BY <1>1, <1>3, DebuggerNext, ProgressNext DEF InStepInv
<1> QED
  BY <1>1, <1>2, <1>3 DEF InStepInv

(* However updates, changes by the user, resets, clashes, suspensions and  *)
(* answers interleave, and though the debugger may fail to be enabled: a   *)
(* back-end at rest that is on has the positions of the breakpoint as it   *)
(* is now, and no others (BreakpointManager.ts:1028-1056), until a         *)
(* suspension was overtaken or a leftover cancelCallback cut an update     *)
(* short.                                                                  *)
THEOREM BackendIsInStep == Spec => []InStep
<1>1. Init => BreakpointInv /\ InStepInv
  BY InitKeeps, InStepStarts
<1>2. BreakpointInv /\ InStepInv /\ [Next]_vars => (BreakpointInv /\ InStepInv)'
  BY InStepKeeps
<1>3. BreakpointInv /\ InStepInv => InStep
  <2> SUFFICES ASSUME BreakpointInv, InStepInv PROVE InStep
    OBVIOUS
  <2>1. TypeOK
    BY InvTypes, QueuedIs DEF BreakpointInv, InStepInv, Flags, Data, TypeOK, Commands, MutexInv, MutexOf
  <2>2. ASSUME Quiescent, debuggerEnabled, backendOn, ~cutShort, ~overtaken
        PROVE  IF enabled /\ ~isRemoved
                 THEN /\ backend \subseteq Locs \X {condition}
                      /\ backend # {} => At(backend) = breakpointIds
                      /\ backend = {} => lastRead = NoCondition
                 ELSE backend = {}
    <3>1. ~Somebody({"waiting"}) /\ ~Somebody(Working)
      BY <2>2 DEF Quiescent, Somebody, Working
    <3>2. Fresh /\ (InLine \/ Gone)
      BY <2>2, <3>1 DEF InStepInv, ProgressInv, BreakpointInv, Working
    <3>3. backend # {} => At(backend) = breakpointIds
      BY <2>2 DEF BreakpointInv, IdsInv, IdsOf
    <3>4. CASE enabled /\ ~isRemoved
      BY <3>2, <3>3, <3>4 DEF Fresh, InLine, Gone
    <3>5. CASE ~(enabled /\ ~isRemoved)
      BY <3>2, <3>5 DEF Fresh, InLine, Gone
    <3> QED
      BY <3>4, <3>5
  <2> QED
    BY <2>1, <2>2 DEF InStep
<1> QED
  BY <1>1, <1>2, <1>3, PTL DEF Spec
============================================================================
