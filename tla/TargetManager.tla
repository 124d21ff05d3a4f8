--------------------------- MODULE TargetManager ---------------------------
(***************************************************************************)
(* The target manager of core/sdk/TargetManager.ts with the models of its  *)
(* targets (core/sdk/Target.ts): targets come and go in a tree, models are *)
(* created with a target or on demand, and observers of targets and of     *)
(* models are told of both.  A scoped observer is only told of what is in  *)
(* the subtree of the scope target.  Observers only take notes: none       *)
(* changes the target manager while it is being told.                      *)
(***************************************************************************)
EXTENDS Integers, Sequences

CONSTANTS Targets, NoTarget,
          parentOf,         \* parentOf[t], or NoTarget
          kindOf,           \* "tab", "frame" or "worker"
          Classes,          \* of models
          Autostart,        \* the classes every target is created with
          TargetObservers, ModelObservers,
          classOf,          \* the class a model observer observes
          Scoped            \* the observers registered with scoped: true

Observers == TargetObservers \cup ModelObservers

ASSUME TargetsAssumption ==
  /\ NoTarget \notin Targets
  /\ parentOf \in [Targets -> Targets \cup {NoTarget}]
  /\ kindOf \in [Targets -> {"tab", "frame", "worker"}]
ASSUME ObserversAssumption ==
  /\ Autostart \subseteq Classes
  /\ TargetObservers \cap ModelObservers = {}
  /\ classOf \in [ModelObservers -> Classes]

VARIABLES
  targets,      \* #targetsInternal
  order,        \* the targets in the order of their creation
  models,       \* models[t]: the classes of the models of t
  subtype,      \* the targets whose targetInfo has a subtype (prerendering)
  scopeTarget,
  registered,   \* #observers and #modelObservers
  listened,     \* the classes with a model listener
  seen          \* seen[o][t]: added less removed, as observer o was told of
                \* target t, or its model, since it registered

vars == <<targets, order, models, subtype, scopeTarget, registered, listened, seen>>

Init ==
  /\ targets = {} /\ order = <<>>
  /\ models = [t \in Targets |-> {}]
  /\ subtype = {}
  /\ scopeTarget = NoTarget
  /\ registered = {} /\ listened = {}
  /\ seen = [o \in Observers |-> [t \in Targets |-> 0]]

----------------------------------------------------------------------------
(* The tree.                                                               *)

ancestors[t \in Targets \cup {NoTarget}] ==
  IF t = NoTarget THEN {} ELSE {t} \cup ancestors[parentOf[t]]

(* isInScope, with the scope target s.                                     *)
isInScope(t, s) == s \in ancestors[t]

outermost(t) ==
  kindOf[t] # "tab" /\ (parentOf[t] # NoTarget => kindOf[parentOf[t]] = "tab")

(* The first target of a set, in the order seq.                            *)
First(S, seq) ==
  IF \E i \in 1..Len(seq) : seq[i] \in S
    THEN seq[CHOOSE i \in 1..Len(seq) : seq[i] \in S /\ \A j \in 1..i - 1 : seq[j] \notin S]
    ELSE NoTarget

primaryPageTarget(live, seq, sub) ==
  LET root == First(live, seq) IN
  IF root # NoTarget /\ kindOf[root] = "tab"
    THEN First({t \in live : parentOf[t] = root /\ kindOf[t] = "frame" /\ t \notin sub}, seq)
    ELSE root

----------------------------------------------------------------------------
(* Is o told of t at all, when the models are mdl and the scope is s.      *)
Observes(o, t, mdl, s) ==
  /\ o \in TargetObservers \/ classOf[o] \in mdl[t]
  /\ o \notin Scoped \/ isInScope(t, s)

(* Each observer o of O is told n(o, t) more times of t.                   *)
Tell(O, n(_, _)) ==
  [o \in Observers |-> [t \in Targets |-> seen[o][t] + (IF o \in O THEN n(o, t) ELSE 0)]]

One(b) == IF b THEN 1 ELSE 0

(* The classes a new target is created with; the mutant asks the listeners *)
(* only.                                                                   *)
requiredListened == Autostart \cup listened
required == Autostart \cup listened \cup {classOf[o] : o \in registered \cap ModelObservers}

(* createTarget; creation order and what setScopeTarget does at its end    *)
(* are part of it.                                                         *)
createTarget(t, sub) ==
  LET newModels == [models EXCEPT ![t] = required]
      newSubtype == subtype \cup sub
      scope == IF /\ outermost(t)
                  /\ \/ kindOf[t] # "frame"
                     \/ t = primaryPageTarget(targets \cup {t}, Append(order, t), newSubtype)
                 THEN t ELSE scopeTarget
      told(o, u) ==
        One(u = t /\ Observes(o, u, newModels, scopeTarget))
        + One(o \in Scoped /\ scope # scopeTarget /\ u \in targets \cup {t}
                /\ Observes(o, u, newModels, scope))
        - One(o \in Scoped /\ scope # scopeTarget /\ u \in targets \cup {t}
                /\ Observes(o, u, newModels, scopeTarget))
  IN
  /\ \A i \in 1..Len(order) : order[i] # t
  /\ parentOf[t] = NoTarget \/ parentOf[t] \in targets
  /\ sub \subseteq {t}
  /\ targets' = targets \cup {t} /\ order' = Append(order, t)
  /\ models' = newModels /\ subtype' = newSubtype
  /\ scopeTarget' = scope
  /\ seen' = Tell(registered, told)
  /\ UNCHANGED <<registered, listened>>

subtree(t) == {u \in targets : t \in ancestors[u]}

(* Target.dispose: removeTarget for it and for the targets under it.       *)
dispose(t) ==
  LET gone == subtree(t)
      told(o, u) == -One(u \in gone /\ Observes(o, u, models, scopeTarget))
  IN
  /\ t \in targets
  /\ targets' = targets \ gone
  /\ seen' = Tell(registered, told)
  /\ UNCHANGED <<order, models, subtype, scopeTarget, registered, listened>>

(* Mutant of setScopeTarget: what leaves the scope is not removed.         *)
setScopeTargetAddingOnly(s) ==
  LET told(o, u) == One(o \in Scoped /\ u \in targets /\ Observes(o, u, models, s)) IN
  /\ s # scopeTarget
  /\ s = NoTarget \/ (s \in targets /\ outermost(s))
  /\ scopeTarget' = s
  /\ seen' = Tell(registered, told)
  /\ UNCHANGED <<targets, order, models, subtype, registered, listened>>

setScopeTarget(s) ==
  LET told(o, u) ==
        One(o \in Scoped /\ u \in targets /\ Observes(o, u, models, s))
        - One(o \in Scoped /\ u \in targets /\ Observes(o, u, models, scopeTarget))
  IN
  /\ s # scopeTarget
  /\ s = NoTarget \/ (s \in targets /\ outermost(s))
  /\ scopeTarget' = s
  /\ seen' = Tell(registered, told)
  /\ UNCHANGED <<targets, order, models, subtype, registered, listened>>

(* targetInfoChanged: a prerendered page is activated.                     *)
activate(t) ==
  /\ t \in targets \cap subtype
  /\ subtype' = subtype \ {t}
  /\ UNCHANGED <<targets, order, models, scopeTarget, registered, listened, seen>>

----------------------------------------------------------------------------
(* The models of class c of the targets T are wanted: those that are       *)
(* missing are created, and their observers told.                          *)
Create(T, c) ==
  models' = [t \in Targets |-> IF t \in T THEN models[t] \cup {c} ELSE models[t]]
Created(o, t, T, c) ==
  /\ o \in ModelObservers /\ classOf[o] = c
  /\ t \in T /\ c \notin models[t]
  /\ o \notin Scoped \/ isInScope(t, scopeTarget)

(* Target.model, by anyone.                                                *)
model(t, c) ==
  LET told(o, u) == One(Created(o, u, {t}, c)) IN
  /\ t \in targets /\ c \notin models[t]
  /\ Create({t}, c)
  /\ seen' = Tell(registered, told)
  /\ UNCHANGED <<targets, order, subtype, scopeTarget, registered, listened>>

observeModels(o) ==
  LET T == {t \in targets : o \notin Scoped \/ isInScope(t, scopeTarget)}
      told(p, t) == IF p = o THEN One(t \in T) ELSE One(Created(p, t, T, classOf[o]))
  IN
  /\ o \notin registered
  /\ registered' = registered \cup {o}
  /\ Create(T, classOf[o])
  /\ seen' = Tell(registered', told)
  /\ UNCHANGED <<targets, order, subtype, scopeTarget, listened>>

observeTargets(o) ==
  LET told(p, t) == One(p = o /\ t \in targets /\ Observes(o, t, models, scopeTarget)) IN
  /\ o \notin registered
  /\ registered' = registered \cup {o}
  /\ seen' = Tell({o}, told)
  /\ UNCHANGED <<targets, order, models, subtype, scopeTarget, listened>>

(* unobserveTargets and unobserveModels; the notes are thrown away.        *)
unobserve(o) ==
  /\ o \in registered
  /\ registered' = registered \ {o}
  /\ seen' = [seen EXCEPT ![o] = [t \in Targets |-> 0]]
  /\ UNCHANGED <<targets, order, models, subtype, scopeTarget, listened>>

(* A model listener is added to the models of all targets, in scope or not.*)
addModelListener(c) ==
  LET told(o, t) == One(Created(o, t, targets, c)) IN
  /\ c \notin listened
  /\ listened' = listened \cup {c}
  /\ Create(targets, c)
  /\ seen' = Tell(registered, told)
  /\ UNCHANGED <<targets, order, subtype, scopeTarget, registered>>

removeModelListener(c) ==
  LET told(o, t) == One(Created(o, t, targets, c)) IN
  /\ c \in listened
  /\ listened' = listened \ {c}
  /\ Create(targets, c)
  /\ seen' = Tell(registered, told)
  /\ UNCHANGED <<targets, order, subtype, scopeTarget, registered>>

Next ==
  \/ \E t \in Targets : \E sub \in SUBSET {t} : createTarget(t, sub)
  \/ \E t \in Targets : dispose(t) \/ activate(t)
  \/ \E s \in Targets \cup {NoTarget} : setScopeTarget(s)
  \/ \E t \in Targets, c \in Classes : model(t, c)
  \/ \E o \in ModelObservers : observeModels(o)
  \/ \E o \in TargetObservers : observeTargets(o)
  \/ \E o \in Observers : unobserve(o)
  \/ \E c \in Classes : addModelListener(c) \/ removeModelListener(c)

Spec == Init /\ [][Next]_vars

----------------------------------------------------------------------------
TypeOK ==
  /\ targets \subseteq Targets
  /\ order \in Seq(Targets)
  /\ models \in [Targets -> SUBSET Classes]
  /\ subtype \subseteq Targets
  /\ scopeTarget \in Targets \cup {NoTarget}
  /\ registered \subseteq Observers /\ listened \subseteq Classes
  /\ seen \in [Observers -> [Targets -> 0..1]]

(* No target outlives its parent, so the tree can be walked from every     *)
(* target up to the root, and what hangs below a target goes with it.      *)
ParentsLive ==
  \A t \in targets : parentOf[t] = NoTarget \/ parentOf[t] \in targets

(* What a registered observer was told, added less removed, is exactly     *)
(* what there is: each target, or model, in its scope once, and none that  *)
(* is gone or out of scope, in whatever order targets and models are       *)
(* created, scopes set and observers registered.                           *)
ObserversInStep ==
  \A o \in registered, t \in Targets :
    seen[o][t] = One(t \in targets /\ Observes(o, t, models, scopeTarget))

(* A model observer that is not scoped misses no target: whether target or *)
(* observer came first, the target has a model of the observed class.      *)
UnscopedMissNone ==
  \A o \in (registered \cap ModelObservers) \ Scoped, t \in targets : seen[o][t] = 1

(* "This method will invoke targetRemoved and modelRemoved for objects in  *)
(* the previous scope, as if they disappear and then will invoke           *)
(* targetAdded and modelAdded as if they just appeared."                   *)
(* (TargetManager.ts:352, on setScopeTarget): a target that just appeared  *)
(* has a model for every model observer.                                   *)
ScopedMissNone ==
  \A o \in registered \cap ModelObservers \cap Scoped, t \in targets :
    isInScope(t, scopeTarget) => seen[o][t] = 1
============================================================================
