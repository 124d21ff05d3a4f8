---------------------------- MODULE TargetsProofs ----------------------------
(***************************************************************************)
(* Of the target manager, for every tree of targets, every set of          *)
(* observers and every choice of those that are scoped: what an observer   *)
(* was told is what there is.  The shape of the tree plays no part:        *)
(* isInScope is not expanded.                                              *)
(*                                                                         *)
(* Of the issues manager, for every set of issues with any keys, ids,      *)
(* kinds and codes, every set of pages and any number of reports: what it  *)
(* shows, counts, hides and finds by id agrees with what it stores and     *)
(* with the settings, and its resolver answers rightly.                    *)
(***************************************************************************)
EXTENDS MCTargets, FiniteSetTheorems, WellFoundedInduction, TLAPS

(* A target is never created twice, and an observer that is not registered *)
(* was told of nothing.                                                    *)
CreatedOnce == \A t \in targets : \E i \in 1..Len(order) : order[i] = t
StrangersKnowNothing == \A o \in Observers \ registered, t \in Targets : seen[o][t] = 0

IInv == TypeOK /\ CreatedOnce /\ StrangersKnowNothing /\ ObserversInStep

(* What of the type invariant depends on nothing else.                     *)
Shape ==
  /\ targets \subseteq Targets
  /\ order \in Seq(Targets)
  /\ models \in [Targets -> SUBSET Classes]
  /\ subtype \subseteq Targets
  /\ scopeTarget \in Targets \cup {NoTarget}
  /\ registered \subseteq Observers /\ listened \subseteq Classes

LEMMA OneOrNone == \A b \in BOOLEAN : One(b) \in 0..1 /\ (One(b) = 1 <=> b)
  BY DEF One

(* Whoever is told exactly of what there is has been told once or not at   *)
(* all, so seen has its type.                                              *)
LEMMA SeenTyped ==
  ASSUME Shape, seen \in [Observers -> [Targets -> Int]],
         StrangersKnowNothing, ObserversInStep
  PROVE  TypeOK
<1>1. \A o \in Observers, t \in Targets : seen[o][t] \in 0..1
  BY OneOrNone DEF StrangersKnowNothing, ObserversInStep, One
<1>2. seen \in [Observers -> [Targets -> 0..1]]
  BY <1>1
<1> QED
  BY <1>2 DEF TypeOK, Shape

LEMMA InitInv == Init => IInv
  BY DEF Init, IInv, TypeOK, CreatedOnce, StrangersKnowNothing, ObserversInStep, One

(* IInv without what follows from the rest of it: what is left to show of  *)
(* a step.                                                                 *)
Exact == Shape /\ seen \in [Observers -> [Targets -> Int]]
              /\ CreatedOnce /\ StrangersKnowNothing /\ ObserversInStep

LEMMA ExactSuffices == Exact <=> IInv
<1>1. ASSUME IInv PROVE Exact
  BY <1>1 DEF IInv, Exact, TypeOK, Shape
<1>2. ASSUME Exact PROVE IInv
  BY <1>2, SeenTyped DEF IInv, Exact
<1> QED
  BY <1>1, <1>2

LEMMA ExactSufficesNext == Exact' => IInv'
  BY ExactSuffices, PTL

LEMMA CreateTarget ==
  ASSUME Exact, NEW t \in Targets, NEW sub \in SUBSET {t}, createTarget(t, sub)
  PROVE  Exact'
<1> USE DEF Exact
<1>1. Shape'
  <2>1. required \subseteq Classes
    BY ObserversAssumption DEF required, Shape
  <2>2. /\ targets' = targets \cup {t} /\ order' = Append(order, t)
        /\ models' = [models EXCEPT ![t] = required] /\ subtype' = subtype \cup sub
        /\ scopeTarget' \in {t, scopeTarget}
        /\ registered' = registered /\ listened' = listened
    BY DEF createTarget
  <2> QED
    BY <2>1, <2>2 DEF Shape
<1>2. t \notin targets
  BY DEF createTarget, CreatedOnce, Shape
<1>3. CreatedOnce'
  <2>1. order' = Append(order, t) /\ targets' = targets \cup {t} /\ order \in Seq(Targets)
    BY DEF createTarget, Shape
  <2>2. ASSUME NEW u \in targets PROVE \E i \in 1..Len(order') : order'[i] = u
    <3>1. PICK i \in 1..Len(order) : order[i] = u
      BY DEF CreatedOnce
    <3>2. i \in 1..Len(order') /\ order'[i] = u
      BY <2>1, <3>1
    <3> QED
      BY <3>2
  <2>3. Len(order) + 1 \in 1..Len(order') /\ order'[Len(order) + 1] = t
    BY <2>1
  <2> QED
    BY <2>1, <2>2, <2>3 DEF CreatedOnce
<1>4. registered' = registered
  BY DEF createTarget
<1>5. seen' \in [Observers -> [Targets -> Int]]
  BY DEF createTarget, Tell, One
<1>6. StrangersKnowNothing'
  BY <1>4 DEF createTarget, Tell, StrangersKnowNothing
<1>7. ASSUME NEW o \in registered, NEW u \in Targets
      PROVE  seen'[o][u] = One(u \in targets' /\ Observes(o, u, models', scopeTarget'))
  <2>1. models' = [models EXCEPT ![t] = required] /\ targets' = targets \cup {t}
    BY DEF createTarget
  <2>2. seen[o][u] = One(u \in targets /\ Observes(o, u, models, scopeTarget))
    BY DEF ObserversInStep
  <2>3. u # t => models'[u] = models[u]
    BY <2>1, <1>1 DEF Shape
  <2>4. u # t => (Observes(o, u, models', scopeTarget) <=> Observes(o, u, models, scopeTarget))
    BY <2>3 DEF Observes
  <2>5. o \notin Scoped => (Observes(o, u, models', scopeTarget') <=> Observes(o, u, models', scopeTarget))
    BY DEF Observes
  <2>6. o \in Observers
    BY DEF Shape
  <2>7. seen'[o][u] = seen[o][u]
          + (One(u = t /\ Observes(o, u, models', scopeTarget))
             + One(o \in Scoped /\ scopeTarget' # scopeTarget /\ u \in targets \cup {t}
                     /\ Observes(o, u, models', scopeTarget'))
             - One(o \in Scoped /\ scopeTarget' # scopeTarget /\ u \in targets \cup {t}
                     /\ Observes(o, u, models', scopeTarget)))
    BY <2>1, <2>6 DEF createTarget, Tell
  <2> QED
    BY <1>2, <2>1, <2>2, <2>4, <2>5, <2>7 DEF One
<1> QED
  BY <1>1, <1>3, <1>4, <1>5, <1>6, <1>7 DEF ObserversInStep

(* The step that changes the scope: exactly the scoped observers are told, *)
(* of what they lose and of what they gain.                                *)
LEMMA SetScopeTarget ==
  ASSUME Exact, NEW s \in Targets \cup {NoTarget}, setScopeTarget(s)
  PROVE  Exact'
<1> USE DEF Exact
<1>1. Shape' /\ CreatedOnce' /\ registered' = registered
  BY DEF setScopeTarget, Shape, CreatedOnce
<1>2. seen' \in [Observers -> [Targets -> Int]]
  BY DEF setScopeTarget, Tell, One
<1>3. StrangersKnowNothing'
  BY <1>1 DEF setScopeTarget, Tell, StrangersKnowNothing
<1>4. ASSUME NEW o \in registered, NEW u \in Targets
      PROVE  seen'[o][u] = One(u \in targets' /\ Observes(o, u, models', scopeTarget'))
  <2>1. targets' = targets /\ models' = models /\ scopeTarget' = s /\ o \in Observers
    BY DEF setScopeTarget, Shape
  <2>2. seen[o][u] = One(u \in targets /\ Observes(o, u, models, scopeTarget))
    BY DEF ObserversInStep
  <2>3. o \notin Scoped => (Observes(o, u, models, s) <=> Observes(o, u, models, scopeTarget))
    BY DEF Observes
  <2>4. seen'[o][u] = seen[o][u]
          + (One(o \in Scoped /\ u \in targets /\ Observes(o, u, models, s))
             - One(o \in Scoped /\ u \in targets /\ Observes(o, u, models, scopeTarget)))
    BY <2>1 DEF setScopeTarget, Tell
  <2> QED
    BY <2>1, <2>2, <2>3, <2>4 DEF One
<1> QED
  BY <1>1, <1>2, <1>3, <1>4 DEF ObserversInStep

LEMMA Dispose ==
  ASSUME Exact, NEW t \in Targets, dispose(t)
  PROVE  Exact'
<1> USE DEF Exact
<1>1. Shape' /\ CreatedOnce' /\ registered' = registered
  BY DEF dispose, Shape, CreatedOnce
<1>2. seen' \in [Observers -> [Targets -> Int]]
  BY DEF dispose, Tell, One
<1>3. StrangersKnowNothing'
  BY <1>1 DEF dispose, Tell, StrangersKnowNothing
<1>4. ASSUME NEW o \in registered, NEW u \in Targets
      PROVE  seen'[o][u] = One(u \in targets' /\ Observes(o, u, models', scopeTarget'))
  <2>1. /\ targets' = targets \ subtree(t) /\ subtree(t) \subseteq targets
        /\ models' = models /\ scopeTarget' = scopeTarget /\ o \in Observers
    BY DEF dispose, Shape, subtree
  <2>2. seen[o][u] = One(u \in targets /\ Observes(o, u, models, scopeTarget))
    BY DEF ObserversInStep
  <2>3. seen'[o][u] = seen[o][u] + -One(u \in subtree(t) /\ Observes(o, u, models, scopeTarget))
    BY <2>1 DEF dispose, Tell
  <2> QED
    BY <2>1, <2>2, <2>3 DEF One
<1> QED
  BY <1>1, <1>2, <1>3, <1>4 DEF ObserversInStep

(* The models of class c of the live targets T are created, if missing, by *)
(* a step that changes nothing else but the listeners: their observers     *)
(* are told of exactly those.                                              *)
LEMMA CreateModels ==
  ASSUME Exact, NEW T \in SUBSET targets, NEW c \in Classes, Create(T, c),
         UNCHANGED <<targets, order, subtype, scopeTarget, registered>>,
         listened' \subseteq Classes,
         seen' = [o \in Observers |-> [t \in Targets |->
                    seen[o][t] + (IF o \in registered THEN One(Created(o, t, T, c)) ELSE 0)]]
  PROVE  Exact'
<1> USE DEF Exact
<1>1. Shape' /\ CreatedOnce'
  BY DEF Shape, CreatedOnce, Create
<1>2. seen' \in [Observers -> [Targets -> Int]]
  BY DEF One
<1>3. StrangersKnowNothing'
  BY DEF StrangersKnowNothing
<1>4. ASSUME NEW o \in registered, NEW u \in Targets
      PROVE  seen'[o][u] = One(u \in targets' /\ Observes(o, u, models', scopeTarget'))
  <2>1. seen[o][u] = One(u \in targets /\ Observes(o, u, models, scopeTarget))
    BY DEF ObserversInStep
  <2>2. seen'[o][u] = seen[o][u] + One(Created(o, u, T, c))
    BY DEF Shape
  <2>3. models'[u] = IF u \in T THEN models[u] \cup {c} ELSE models[u]
    BY DEF Create
  <2>4. Created(o, u, T, c) =>
          ~Observes(o, u, models, scopeTarget) /\ Observes(o, u, models', scopeTarget)
    BY <2>3, ObserversAssumption DEF Created, Observes
  <2>5. u \in targets /\ ~Created(o, u, T, c) =>
          (Observes(o, u, models, scopeTarget) <=> Observes(o, u, models', scopeTarget))
    BY <2>3 DEF Created, Observes, Shape, Observers
  <2>6. Created(o, u, T, c) => u \in targets
    BY DEF Created
  <2> QED
    BY <2>1, <2>2, <2>4, <2>5, <2>6 DEF One
<1> QED
  BY <1>1, <1>2, <1>3, <1>4 DEF ObserversInStep

LEMMA Model ==
  ASSUME Exact, NEW t \in Targets, NEW c \in Classes, model(t, c)
  PROVE  Exact'
<1>1. {t} \in SUBSET targets /\ Create({t}, c) /\ listened' \subseteq Classes
  BY DEF model, Exact, Shape
<1>2. UNCHANGED <<targets, order, subtype, scopeTarget, registered>>
  BY DEF model
<1>3. seen' = [o \in Observers |-> [u \in Targets |->
                 seen[o][u] + (IF o \in registered THEN One(Created(o, u, {t}, c)) ELSE 0)]]
  BY DEF model, Tell
<1> QED
  BY <1>1, <1>2, <1>3, CreateModels

LEMMA Listeners ==
  ASSUME Exact, NEW c \in Classes, addModelListener(c) \/ removeModelListener(c)
  PROVE  Exact'
<1>1. targets \in SUBSET targets /\ Create(targets, c) /\ listened' \subseteq Classes
  BY DEF addModelListener, removeModelListener, Exact, Shape
<1>2. UNCHANGED <<targets, order, subtype, scopeTarget, registered>>
  BY DEF addModelListener, removeModelListener
<1>3. seen' = [o \in Observers |-> [u \in Targets |->
                 seen[o][u] + (IF o \in registered THEN One(Created(o, u, targets, c)) ELSE 0)]]
  BY DEF addModelListener, removeModelListener, Tell
<1> QED
  BY <1>1, <1>2, <1>3, CreateModels

(* A model observer that registers creates the models it finds missing,    *)
(* and so has the other observers of the class told.                       *)
LEMMA ObserveModels ==
  ASSUME Exact, NEW p \in ModelObservers, observeModels(p)
  PROVE  Exact'
<1> DEFINE T == {t \in targets : p \notin Scoped \/ isInScope(t, scopeTarget)}
           c == classOf[p]
<1> USE DEF Exact
<1>1. /\ Create(T, c) /\ c \in Classes /\ p \in Observers /\ p \notin registered
      /\ registered' = registered \cup {p}
      /\ UNCHANGED <<targets, order, subtype, scopeTarget, listened>>
  BY ObserversAssumption DEF observeModels, Observers
<1>2. seen' = [o \in Observers |-> [t \in Targets |->
                 seen[o][t] + (IF o \in registered'
                   THEN IF o = p THEN One(t \in T) ELSE One(Created(o, t, T, c)) ELSE 0)]]
  BY DEF observeModels, Tell
<1>3. Shape' /\ CreatedOnce'
  BY <1>1 DEF Shape, CreatedOnce, Create
<1>4. seen' \in [Observers -> [Targets -> Int]] /\ StrangersKnowNothing'
  BY <1>1, <1>2 DEF StrangersKnowNothing, One
<1>5. ASSUME NEW o \in registered', NEW u \in Targets
      PROVE  seen'[o][u] = One(u \in targets' /\ Observes(o, u, models', scopeTarget'))
  <2>1. models'[u] = IF u \in T THEN models[u] \cup {c} ELSE models[u]
    BY <1>1 DEF Create
  <2>2. CASE o = p
    <3>1. seen'[o][u] = 0 + One(u \in T)
      BY <1>1, <1>2, <2>2 DEF StrangersKnowNothing
    <3>2. u \in T <=> u \in targets' /\ Observes(o, u, models', scopeTarget')
      BY <1>1, <2>1, <2>2, ObserversAssumption DEF Observes
    <3> QED
      BY <3>1, <3>2 DEF One
  <2>3. CASE o # p
    <3>1. o \in registered /\ o \in Observers
      BY <1>1, <2>3 DEF Shape
    <3>2. seen[o][u] = One(u \in targets /\ Observes(o, u, models, scopeTarget))
      BY <3>1 DEF ObserversInStep
    <3>3. seen'[o][u] = seen[o][u] + One(Created(o, u, T, c))
      BY <1>1, <1>2, <2>3, <3>1
    <3>4. Created(o, u, T, c) =>
            /\ ~Observes(o, u, models, scopeTarget) /\ u \in targets'
            /\ Observes(o, u, models', scopeTarget')
      BY <1>1, <2>1, ObserversAssumption DEF Created, Observes
    <3>5. u \in targets /\ ~Created(o, u, T, c) =>
            (Observes(o, u, models, scopeTarget) <=> Observes(o, u, models', scopeTarget'))
      BY <1>1, <2>1, <3>1 DEF Created, Observes, Observers
    <3> QED
      BY <1>1, <3>2, <3>3, <3>4, <3>5 DEF One
  <2> QED
    BY <2>2, <2>3
<1> QED
  BY <1>3, <1>4, <1>5 DEF ObserversInStep

LEMMA ObserveTargets ==
  ASSUME Exact, NEW p \in TargetObservers, observeTargets(p)
  PROVE  Exact'
<1> USE DEF Exact
<1>1. /\ p \in Observers /\ p \notin registered /\ registered' = registered \cup {p}
      /\ UNCHANGED <<targets, order, models, subtype, scopeTarget, listened>>
  BY DEF observeTargets, Observers
<1>2. seen' = [o \in Observers |-> [t \in Targets |->
                 seen[o][t] + (IF o \in {p}
                   THEN One(o = p /\ t \in targets /\ Observes(o, t, models, scopeTarget))
                   ELSE 0)]]
  BY DEF observeTargets, Tell
<1>3. Shape' /\ CreatedOnce'
  BY <1>1 DEF Shape, CreatedOnce
<1>4. seen' \in [Observers -> [Targets -> Int]] /\ StrangersKnowNothing'
  BY <1>1, <1>2 DEF StrangersKnowNothing, One
<1>5. ASSUME NEW o \in registered', NEW u \in Targets
      PROVE  seen'[o][u] = One(u \in targets' /\ Observes(o, u, models', scopeTarget'))
  BY <1>1, <1>2 DEF ObserversInStep, StrangersKnowNothing, Shape, Observes, One
<1> QED
  BY <1>3, <1>4, <1>5 DEF ObserversInStep

LEMMA Unobserve ==
  ASSUME Exact, NEW o \in Observers, unobserve(o)
  PROVE  Exact'
  BY DEF Exact, unobserve, Shape, CreatedOnce, StrangersKnowNothing, ObserversInStep

(* The invariant is inductive.                                             *)
LEMMA StepInv == IInv /\ [Next]_vars => IInv'
<1> SUFFICES ASSUME Exact, [Next]_vars PROVE Exact'
  BY ExactSuffices, ExactSufficesNext
<1>1. CASE UNCHANGED vars
  BY <1>1 DEF vars, Exact, Shape, CreatedOnce, StrangersKnowNothing, ObserversInStep
<1>2. ASSUME NEW t \in Targets, activate(t) PROVE Exact'
  BY <1>2 DEF activate, Exact, Shape, CreatedOnce, StrangersKnowNothing, ObserversInStep
<1> QED
  BY <1>1, <1>2, CreateTarget, Dispose, SetScopeTarget, Model, ObserveModels, ObserveTargets,
     Unobserve, Listeners DEF Next

(* In every reachable state the observers know exactly what there is (the  *)
(* calls of targetAdded, targetRemoved, modelAdded and modelRemoved in     *)
(* core/sdk/TargetManager.ts), and the variables have their types.         *)
THEOREM ObserversAreInStep == Spec => [](TypeOK /\ ObserversInStep)
<1>1. IInv => TypeOK /\ ObserversInStep
  BY DEF IInv
<1> QED
  BY InitInv, StepInv, <1>1, PTL DEF Spec

(* Every live target has the models the unscoped observers want.           *)
Provided ==
  \A o \in (registered \cap ModelObservers) \ Scoped, t \in targets : classOf[o] \in models[t]

LEMMA ProvidedStep == IInv /\ Provided /\ [Next]_vars => Provided'
<1> SUFFICES ASSUME IInv, Provided, [Next]_vars PROVE Provided'
  OBVIOUS
<1> USE DEF IInv, TypeOK, Provided
<1>1. ASSUME NEW t \in Targets, NEW sub \in SUBSET {t}, createTarget(t, sub) PROVE Provided'
  <2>1. /\ models' = [models EXCEPT ![t] = required] /\ targets' = targets \cup {t}
        /\ registered' = registered
    BY <1>1 DEF createTarget
  <2>2. \A o \in registered \cap ModelObservers : classOf[o] \in required
    BY DEF required
  <2> QED
    BY <2>1, <2>2
<1>2. ASSUME NEW T \in SUBSET Targets, NEW c \in Classes, Create(T, c)
      PROVE  \A t \in Targets : models[t] \subseteq models'[t] /\ (t \in T => c \in models'[t])
  BY <1>2 DEF Create
<1>3. ASSUME NEW o \in ModelObservers, observeModels(o) PROVE Provided'
  <2> DEFINE T == {t \in targets : o \notin Scoped \/ isInScope(t, scopeTarget)}
  <2>1. /\ Create(T, classOf[o]) /\ targets' = targets /\ registered' = registered \cup {o}
        /\ classOf[o] \in Classes /\ T \in SUBSET Targets
    BY <1>3, ObserversAssumption DEF observeModels
  <2>2. \A t \in Targets :
          models[t] \subseteq models'[t] /\ (t \in T => classOf[o] \in models'[t])
    BY <1>2, <2>1
  <2>3. o \notin Scoped => T = targets
    OBVIOUS
  <2> HIDE DEF T
  <2> QED
    BY <2>1, <2>2, <2>3
<1>4. ASSUME NEW t \in Targets, NEW c \in Classes, model(t, c) PROVE Provided'
  <2>1. Create({t}, c) /\ targets' = targets /\ registered' = registered /\ {t} \in SUBSET Targets
    BY <1>4 DEF model
  <2> QED
    BY <1>2, <2>1
<1>5. ASSUME NEW c \in Classes, addModelListener(c) \/ removeModelListener(c) PROVE Provided'
  <2>1. /\ Create(targets, c) /\ targets' = targets /\ registered' = registered
        /\ targets \in SUBSET Targets
    BY <1>5 DEF addModelListener, removeModelListener
  <2> QED
    BY <1>2, <2>1
<1>6. ASSUME NEW t \in Targets, dispose(t) \/ activate(t) PROVE Provided'
  BY <1>6 DEF dispose, activate
<1>7. ASSUME NEW s \in Targets \cup {NoTarget}, setScopeTarget(s) PROVE Provided'
  BY <1>7 DEF setScopeTarget
<1>8. ASSUME NEW o \in TargetObservers, observeTargets(o) PROVE Provided'
  BY <1>8, ObserversAssumption DEF observeTargets
<1>9. ASSUME NEW o \in Observers, unobserve(o) PROVE Provided'
  BY <1>9 DEF unobserve
<1>10. CASE UNCHANGED vars
  BY <1>10 DEF vars
<1> QED
  BY <1>1, <1>3, <1>4, <1>5, <1>6, <1>7, <1>8, <1>9, <1>10 DEF Next

(* No target is missed by a model observer that is not scoped: createTarget *)
(* creates the models of the observers it finds, and observeModels those   *)
(* of the targets it finds.                                                *)
THEOREM UnscopedMissNothing == Spec => []UnscopedMissNone
<1>1. Init => Provided
  BY DEF Init, Provided
<1>2. IInv /\ Provided => UnscopedMissNone
  BY DEF IInv, Provided, UnscopedMissNone, ObserversInStep, Observes, One, TypeOK, Observers
<1> QED
  BY InitInv, StepInv, ProvidedStep, <1>1, <1>2, PTL DEF Spec

-----------------------------------------------------------------------------
(***************************************************************************)
(* The issues manager.                                                     *)
(***************************************************************************)
(* A set of natural numbers has a least one.                               *)
LEMMA LeastNat ==
  ASSUME NEW T, T \subseteq Nat, T # {}
  PROVE  \E x \in T : \A y \in T : x <= y
<1> DEFINE R == {ss \in Nat \X Nat : ss[1] < ss[2]}
<1>1. IsWellFoundedOn(R, Nat)
  BY NatLessThanWellFounded DEF OpToRel
<1>2. PICK x \in T : \A y \in T : <<y, x>> \notin R
  <2> HIDE DEF R
  <2> QED
    BY <1>1, WFMin
<1>3. ASSUME NEW y \in T PROVE x <= y
  <2>1. x \in Nat /\ y \in Nat /\ <<y, x>> \notin R
    BY <1>2
  <2>2. <<y, x>>[1] = y /\ <<y, x>>[2] = x /\ <<y, x>> \in Nat \X Nat
    BY <2>1
  <2>3. ~(y < x)
    BY <2>1, <2>2
  <2> QED
    BY <2>1, <2>3
<1> QED
  BY <1>3

(* The elements of a sequence.                                             *)
Elements(s) == {s[n] : n \in 1..Len(s)}

LEMMA ElementsFinite ==
  ASSUME NEW S, NEW s \in Seq(S)
  PROVE  IsFiniteSet(Elements(s)) /\ Elements(s) \subseteq S
<1> DEFINE f == [n \in 1..Len(s) |-> s[n]]
<1>1. f \in Surjection(1..Len(s), Elements(s))
  BY DEF Surjection, Elements
<1>2. IsFiniteSet(1..Len(s))
  BY FS_Interval
<1>3. Elements(s) \subseteq S
  BY DEF Elements
<1> QED
  BY <1>1, <1>2, <1>3, FS_Surjection

(* A set of places in a sequence has a last one.                           *)
LEMMA LastExists ==
  ASSUME NEW n \in Nat, NEW I \in SUBSET (1..n), I # {}
  PROVE  (CHOOSE k \in I : \A m \in I : m <= k) \in I
<1> DEFINE T == {j \in 0..n : n - j \in I}
<1>1. T \subseteq Nat /\ T # {}
  <2>1. PICK k \in I : TRUE
    OBVIOUS
  <2>2. n - k \in T
    BY <2>1
  <2>3. T \subseteq Nat
    OBVIOUS
  <2> HIDE DEF T
  <2> QED
    BY <2>2, <2>3
<1>2. PICK j \in T : \A i \in T : j <= i
  <2> HIDE DEF T
  <2> QED
    BY <1>1, LeastNat
<1>3. n - j \in I /\ \A m \in I : m <= n - j
  <2>1. ASSUME NEW m \in I PROVE m <= n - j
    <3>1. n - m \in T /\ m \in 1..n /\ j \in 0..n
      OBVIOUS
    <3>2. j <= n - m
      BY <1>2, <3>1
    <3> QED
      BY <3>1, <3>2
  <2> QED
    BY <2>1
<1> HIDE DEF T
<1> QED
  BY <1>3

(* A sequence is filtered by a function of the prefix, which is defined:   *)
(* a prefix it is not defined up to would have a shortest one.             *)
Filters(f, s, kept, N) ==
  f = [n \in 0..N |->
    IF n = 0 THEN <<>>
    ELSE IF s[n] \in kept THEN Append(f[n - 1], s[n]) ELSE f[n - 1]]

LEMMA FilterExists ==
  ASSUME NEW s, NEW kept, NEW N \in Nat
  PROVE  \E f : Filters(f, s, kept, N)
<1> DEFINE T == {n \in Nat : ~ \E f : Filters(f, s, kept, n)}
<1>1. 0 \notin T
  <2> DEFINE f == [n \in {0} |-> <<>>]
  <2>1. f = [n \in 0..0 |-> IF n = 0 THEN <<>>
    ELSE IF s[n] \in kept THEN Append(f[n - 1], s[n]) ELSE f[n - 1]]
    OBVIOUS
  <2>2. Filters(f, s, kept, 0)
    BY <2>1 DEF Filters
  <2> QED
    BY <2>2
<1>2. ASSUME NEW n \in Nat, n \notin T PROVE n + 1 \notin T
  <2>1. PICK f : Filters(f, s, kept, n)
    BY <1>2
  <2> DEFINE next == IF s[n + 1] \in kept THEN Append(f[n], s[n + 1]) ELSE f[n]
             g == [k \in 0..n + 1 |-> IF k = n + 1 THEN next ELSE f[k]]
  <2>2. g = [k \in 0..n + 1 |->
    IF k = 0 THEN <<>>
    ELSE IF s[k] \in kept THEN Append(g[k - 1], s[k]) ELSE g[k - 1]]
    <3>1. ASSUME NEW k \in 0..n + 1
          PROVE g[k] = IF k = 0 THEN <<>>
             ELSE IF s[k] \in kept THEN Append(g[k - 1], s[k]) ELSE g[k - 1]
      <4>1. CASE k = n + 1
        <5>1. g[k] = next /\ k # 0 /\ k - 1 = n /\ k - 1 \in 0..n + 1 /\ k - 1 # n + 1
          BY <4>1
        <5>2. g[k - 1] = f[n]
          BY <5>1
        <5> QED
          BY <4>1, <5>1, <5>2
      <4>2. CASE k # n + 1
        <5>1. g[k] = f[k] /\ k \in 0..n
          BY <4>2
        <5>2. f[k] = IF k = 0 THEN <<>>
             ELSE IF s[k] \in kept THEN Append(f[k - 1], s[k]) ELSE f[k - 1]
          BY <2>1, <5>1 DEF Filters
        <5>3. k # 0 => g[k - 1] = f[k - 1]
          BY <5>1
        <5> QED
          BY <5>1, <5>2, <5>3
      <4> QED
        BY <4>1, <4>2
    <3>2. g = [k \in 0..n + 1 |-> g[k]]
      OBVIOUS
    <3> HIDE DEF g
    <3> QED
      BY <3>1, <3>2
  <2>3. Filters(g, s, kept, n + 1)
    <3> HIDE DEF g
    <3> QED
      BY <2>2 DEF Filters
  <2> QED
    BY <2>3
<1>3. T = {}
  <2>1. SUFFICES ASSUME T # {} PROVE FALSE
    OBVIOUS
  <2>2. PICK n \in T : \A m \in T : n <= m
    <3>1. T \subseteq Nat
      OBVIOUS
    <3> HIDE DEF T
    <3> QED
      BY <2>1, <3>1, LeastNat
  <2>3. n \in Nat /\ n # 0
    BY <1>1, <2>2
  <2>4. n - 1 \in Nat /\ (n - 1) + 1 = n /\ n - 1 \notin T
    <3>1. n - 1 \in Nat /\ ~(n <= n - 1) /\ (n - 1) + 1 = n
      BY <2>3
    <3> HIDE DEF T
    <3> QED
      BY <2>2, <3>1
  <2> HIDE DEF T
  <2> QED
    BY <1>2, <2>2, <2>4
<1> QED
  BY <1>3

(* What is kept of a sequence are the elements of it that are in kept.     *)
LEMMA KeptElements ==
  ASSUME NEW S, NEW s \in Seq(S), NEW kept
  PROVE  /\ Manager!KeptInOrder(s, kept) \in Seq(S)
         /\ Elements(Manager!KeptInOrder(s, kept)) = Elements(s) \cap kept
<1> DEFINE f == CHOOSE upTo : upTo = [n \in 0..Len(s) |->
                  IF n = 0 THEN <<>>
                  ELSE IF s[n] \in kept THEN Append(upTo[n - 1], s[n]) ELSE upTo[n - 1]]
           Prefix(n) == {s[m] : m \in 1..n} \cap kept
           T == {n \in 0..Len(s) : ~(f[n] \in Seq(S) /\ Elements(f[n]) = Prefix(n))}
<1>1. Len(s) \in Nat
  OBVIOUS
<1>2. Filters(f, s, kept, Len(s))
  <2>1. PICK g : g = [n \in 0..Len(s) |->
                  IF n = 0 THEN <<>>
                  ELSE IF s[n] \in kept THEN Append(g[n - 1], s[n]) ELSE g[n - 1]]
    <3>1. \E g : Filters(g, s, kept, Len(s))
      <4> HIDE DEF f
      <4> QED
        BY <1>1, FilterExists
    <3> QED
      BY <3>1, Zenon DEF Filters
  <2>2. f = [n \in 0..Len(s) |->
                  IF n = 0 THEN <<>>
                  ELSE IF s[n] \in kept THEN Append(f[n - 1], s[n]) ELSE f[n - 1]]
    BY <2>1, Zenon
  <2> QED
    BY <2>2, Zenon DEF Filters
<1>3. Manager!KeptInOrder(s, kept) = f[Len(s)]
  BY DEF Manager!KeptInOrder
<1>4. /\ f[0] = <<>>
      /\ \A n \in 1..Len(s) :
           f[n] = IF s[n] \in kept THEN Append(f[n - 1], s[n]) ELSE f[n - 1]
  <2> HIDE DEF f
  <2>1. ASSUME NEW n \in 0..Len(s)
        PROVE  f[n] = IF n = 0 THEN <<>>
                      ELSE IF s[n] \in kept THEN Append(f[n - 1], s[n]) ELSE f[n - 1]
    BY <1>2, Zenon DEF Filters
  <2>2. 0 \in 0..Len(s) /\ \A n \in 1..Len(s) : n \in 0..Len(s) /\ n # 0
    BY <1>1
  <2> QED
    BY <2>1, <2>2
<1> HIDE DEF f
<1>5. f[0] \in Seq(S) /\ Elements(f[0]) = Prefix(0)
  BY <1>4 DEF Elements
<1>6. ASSUME NEW n \in 1..Len(s), f[n - 1] \in Seq(S), Elements(f[n - 1]) = Prefix(n - 1)
      PROVE  f[n] \in Seq(S) /\ Elements(f[n]) = Prefix(n)
  <2>1. s[n] \in S
    OBVIOUS
  <2>2. Prefix(n) = Prefix(n - 1) \cup ({s[n]} \cap kept)
    <3>1. 1..n = 1..(n - 1) \cup {n}
      OBVIOUS
    <3> QED
      BY <3>1
  <2>3. CASE s[n] \in kept
    <3>1. f[n] = Append(f[n - 1], s[n])
      BY <1>4, <2>3
    <3>2. Elements(Append(f[n - 1], s[n])) = Elements(f[n - 1]) \cup {s[n]}
      BY <1>6, <2>1 DEF Elements
    <3> HIDE DEF Prefix
    <3> QED
      BY <1>6, <2>1, <2>2, <2>3, <3>1, <3>2
  <2>4. CASE s[n] \notin kept
    <3>1. f[n] = f[n - 1]
      BY <1>4, <2>4
    <3> HIDE DEF Prefix
    <3> QED
      BY <1>6, <2>2, <2>4, <3>1
  <2> QED
    BY <2>3, <2>4
<1>7. T = {}
  <2>1. SUFFICES ASSUME T # {} PROVE FALSE
    OBVIOUS
  <2>2. PICK n \in T : \A m \in T : n <= m
    <3>1. T \subseteq Nat
      OBVIOUS
    <3> HIDE DEF T
    <3> QED
      BY <2>1, <3>1, LeastNat
  <2>3. n \in 1..Len(s)
    <3> HIDE DEF Prefix
    <3> QED
      BY <1>1, <1>5, <2>2
  <2>4. n - 1 \in 0..Len(s) /\ ~(n <= n - 1)
    BY <1>1, <2>3
  <2>5. n - 1 \notin T
    <3> HIDE DEF T
    <3> QED
      BY <2>2, <2>4
  <2> HIDE DEF Prefix
  <2> QED
    BY <1>6, <2>2, <2>3, <2>4, <2>5
<1>8. f[Len(s)] \in Seq(S) /\ Elements(f[Len(s)]) = Prefix(Len(s))
  <2> HIDE DEF Prefix
  <2> QED
    BY <1>1, <1>7
<1> QED
  BY <1>3, <1>8 DEF Elements

LEMMA IssuesConstants ==
  /\ idOf \in [Issues -> Ids \cup {NoId}] /\ targetOf \in [Issues -> Pages]
  /\ NoId \notin Ids /\ NoObject \notin Issues /\ NoTarget \notin Pages
  /\ "waits" \notin Issues /\ "rejected" \notin Issues
  /\ "waits" # NoObject /\ "rejected" # NoObject /\ MaxStored \in Nat
BY ManagerAssumption DEF Manager!IssuesAssumption

LEMMA OneCardinality == \A S : Manager!Cardinality(S) = Cardinality(S)
BY DEF Cardinality, Manager!Cardinality

LEMMA OfKindCounts ==
  ASSUME NEW S, IsFiniteSet(S), NEW k
  PROVE  /\ Manager!OfKind(S, k) \in Nat
         /\ \A i : i \notin S =>
              Manager!OfKind(S \cup {i}, k) = Manager!OfKind(S, k) + Manager!OfKind({i}, k)
<1> DEFINE Of(X) == {j \in X : issueKindOf[j] = k}
<1>1. \A X : Manager!OfKind(X, k) = Cardinality(Of(X))
  BY OneCardinality DEF Manager!OfKind
<1>2. IsFiniteSet(Of(S))
  BY FS_Subset
<1>3. Cardinality(Of(S)) \in Nat
  <2> HIDE DEF Of
  <2> QED
    BY <1>2, FS_CardinalityType
<1>4. ASSUME NEW i, i \notin S
      PROVE  Cardinality(Of(S \cup {i})) = Cardinality(Of(S)) + Cardinality(Of({i}))
  <2>0. i \notin Of(S)
    BY <1>4
  <2>1. CASE issueKindOf[i] = k
    <3>1. Of(S \cup {i}) = Of(S) \cup {i} /\ Of({i}) = {i}
      BY <2>1
    <3>2. Cardinality(Of(S) \cup {i}) = Cardinality(Of(S)) + 1 /\ Cardinality({i}) = 1
      <4> HIDE DEF Of
      <4> QED
        BY <1>2, <2>0, FS_AddElement, FS_Singleton
    <3> HIDE DEF Of
    <3> QED
      BY <3>1, <3>2
  <2>2. CASE issueKindOf[i] # k
    <3>1. Of(S \cup {i}) = Of(S) /\ Of({i}) = {}
      BY <2>2
    <3> HIDE DEF Of
    <3> QED
      BY <1>3, <3>1, FS_EmptySet
  <2> QED
    BY <2>1, <2>2
<1> HIDE DEF Of
<1> QED
  BY <1>1, <1>3, <1>4

LEMMA NoneOfKind == \A k : Manager!OfKind({}, k) = 0
<1>1. ASSUME NEW k PROVE Manager!OfKind({}, k) = 0
  <2>1. {j \in {} : issueKindOf[j] = k} = {}
    OBVIOUS
  <2> QED
    BY <2>1, OneCardinality, FS_EmptySet DEF Manager!OfKind
<1> QED
  BY <1>1

(* The last issue with an id is one of those that are looked at.           *)
LEMMA LastIsOne ==
  ASSUME NEW s \in Seq(Issues), NEW S, NEW id
  PROVE  LET last == Manager!LastWithId(id, s, S)
         IN last = NoObject \/ (last \in Elements(s) \cap S /\ idOf[last] = id)
<1> DEFINE I == {n \in 1..Len(s) : s[n] \in S /\ idOf[s[n]] = id}
           last == CHOOSE n \in I : \A m \in I : m <= n
<1>1. Manager!LastWithId(id, s, S) = IF I = {} THEN NoObject ELSE s[last]
  BY DEF Manager!LastWithId
<1>2. CASE I # {}
  <2>1. Len(s) \in Nat /\ I \in SUBSET (1..Len(s))
    OBVIOUS
  <2>2. last \in I
    <3> HIDE DEF I
    <3> QED
      BY <1>2, <2>1, LastExists
  <2>3. s[last] \in Elements(s) \cap S /\ idOf[s[last]] = id
    <3> HIDE DEF last
    <3> QED
      BY <2>2 DEF Elements
  <2> HIDE DEF I, last
  <2> QED
    BY <1>1, <1>2, <2>3
<1> HIDE DEF I, last
<1> QED
  BY <1>1, <1>2

(* What is shown of what is stored, and the way to it by id.               *)
ShownType ==
  /\ allIssues \in Seq(Issues) /\ filteredIssues \subseteq Issues /\ hidden \subseteq Issues
  /\ issueCounts \in [Manager!Kinds -> Nat] /\ hiddenIssueCount \in [Manager!Kinds -> Nat]
  /\ issuesById \in [Ids -> Issues \cup {NoObject}]

SettingsType ==
  /\ issuesScope \in Pages \cup {NoTarget} /\ framed \subseteq Pages
  /\ showThirdParty \in BOOLEAN
  /\ hideSetting \in [Manager!Codes -> {"unset", "Hidden", "Unhidden"}]

(* Only stored issues are shown or say that they are hidden; and one that  *)
(* says so was told by the setting: no flag is left of a setting that was  *)
(* taken back.                                                             *)
FlagsAreSet(flags, s, setting) ==
  \A i \in flags : i \in Elements(s) /\ setting[codeOf[i]] # "unset"

Shown ==
  /\ ShownType
  /\ filteredIssues \subseteq Elements(allIssues) /\ FlagsAreSet(hidden, allIssues, hideSetting)
  /\ Manager!FilteredIsFresh /\ Manager!CountsMatch
  /\ Manager!HiddenFollowsSetting /\ Manager!IdsLeadToShown

(* Answers are issues of the id that was asked for.                        *)
Resolved ==
  /\ Manager!ResolverTypeOK(Issues) /\ Manager!WaitersAreHeard
  /\ \A c \in Calls : askedFor[c] = NoId => outcome[c] = "waits"
  /\ \A c \in Calls : outcome[c] \in Issues => idOf[outcome[c]] = askedFor[c]

IssuesInv == Shown /\ SettingsType /\ storedCount \in 0..MaxStored /\ Resolved

(* A full update shows what the filter accepts now, counts it, hides what  *)
(* the setting hides, and finds by id what it shows.                       *)
LEMMA Rebuilt ==
  ASSUME NEW s \in Seq(Issues), NEW flags, FlagsAreSet(flags, s, hideSetting'),
         SettingsType', Manager!updateFilteredIssues(s, framed', flags)
  PROVE  Shown'
<1> DEFINE accepted == {i \in Elements(s) :
                          Manager!issueFilter(i, issuesScope', framed', showThirdParty')}
<1>1. /\ allIssues' = s /\ filteredIssues' = accepted
      /\ hidden' = Manager!HiddenBy(hideSetting', flags, accepted)
      /\ issueCounts' = [k \in Manager!Kinds |-> Manager!OfKind(accepted, k)]
      /\ hiddenIssueCount' = [k \in Manager!Kinds |-> Manager!OfKind(accepted \cap hidden', k)]
      /\ issuesById' = [id \in Ids |-> Manager!LastWithId(id, s, accepted)]
  BY DEF Manager!updateFilteredIssues, Manager!Counted, Elements
<1>2. IsFiniteSet(Elements(s)) /\ Elements(s) \subseteq Issues
  BY ElementsFinite
<1>3. accepted \subseteq Elements(s)
  OBVIOUS
<1>4. Manager!FilteredIsFresh'
  BY <1>1 DEF Manager!FilteredIsFresh, Manager!Stored, Elements
<1> HIDE DEF accepted
<1>5. IsFiniteSet(accepted) /\ IsFiniteSet(accepted \cap hidden')
  BY <1>2, <1>3, FS_Subset
<1>6. FlagsAreSet(hidden', s, hideSetting')
  <2>1. SUFFICES ASSUME NEW i \in hidden'
                 PROVE  i \in Elements(s) /\ hideSetting'[codeOf[i]] # "unset"
    BY DEF FlagsAreSet
  <2>2. CASE i \in flags
    BY <2>2 DEF FlagsAreSet
  <2>3. CASE i \in accepted /\ hideSetting'[codeOf[i]] = "Hidden"
    BY <1>3, <2>3
  <2> QED
    BY <1>1, <2>1, <2>2, <2>3 DEF Manager!HiddenBy
<1>7. Manager!CountsMatch'
  BY <1>1 DEF Manager!CountsMatch
<1>8. Manager!HiddenFollowsSetting'
  <2>1. SUFFICES ASSUME NEW i \in accepted
                 PROVE  i \in hidden' <=> hideSetting'[codeOf[i]] = "Hidden"
    BY <1>1 DEF Manager!HiddenFollowsSetting
  <2>2. codeOf[i] \in Manager!Codes
    BY <1>2, <1>3 DEF Manager!Codes
  <2>3. hideSetting'[codeOf[i]] \in {"unset", "Hidden", "Unhidden"}
    BY <2>2 DEF SettingsType
  <2>4. i \in hidden' <=> \/ i \in flags /\ hideSetting'[codeOf[i]] # "Unhidden"
                          \/ hideSetting'[codeOf[i]] = "Hidden"
    BY <1>1 DEF Manager!HiddenBy
  <2>5. i \in flags => hideSetting'[codeOf[i]] # "unset"
    BY DEF FlagsAreSet
  <2> QED
    BY <2>3, <2>4, <2>5
<1>9. Manager!IdsLeadToShown'
  BY <1>1 DEF Manager!IdsLeadToShown
<1>10. ShownType'
  <2>1. accepted \subseteq Issues /\ hidden' \subseteq Issues
    BY <1>2, <1>3, <1>6 DEF FlagsAreSet
  <2>2. ASSUME NEW k PROVE Manager!OfKind(accepted, k) \in Nat
                           /\ Manager!OfKind(accepted \cap hidden', k) \in Nat
    BY <1>5, OfKindCounts
  <2>3. issueCounts' \in [Manager!Kinds -> Nat] /\ hiddenIssueCount' \in [Manager!Kinds -> Nat]
    BY <1>1, <2>2
  <2>4. ASSUME NEW id \in Ids PROVE Manager!LastWithId(id, s, accepted) \in Issues \cup {NoObject}
    BY <1>2, LastIsOne
  <2>5. issuesById' \in [Ids -> Issues \cup {NoObject}]
    BY <1>1, <2>4
  <2> QED
    BY <1>1, <2>1, <2>3, <2>5 DEF ShownType
<1> QED
  BY <1>1, <1>3, <1>4, <1>6, <1>7, <1>8, <1>9, <1>10 DEF Shown

LEMMA IssuesInit == TargetsInit => IssuesInv
<1> SUFFICES ASSUME TargetsInit PROVE IssuesInv
  OBVIOUS
<1>1. /\ allIssues = <<>> /\ filteredIssues = {} /\ hidden = {}
      /\ issueCounts = [k \in Manager!Kinds |-> 0] /\ hiddenIssueCount = [k \in Manager!Kinds |-> 0]
      /\ issuesById = [id \in Ids |-> NoObject]
      /\ issuesScope = NoTarget /\ framed = {} /\ showThirdParty = FALSE
      /\ hideSetting = [c \in Manager!Codes |-> "unset"] /\ storedCount = 0
      /\ unresolvedIds = {} /\ listening = FALSE
      /\ askedFor = [c \in Calls |-> NoId] /\ outcome = [c \in Calls |-> "waits"]
  BY DEF TargetsInit, Manager!Init, Manager!ResolverInit
<1>2. SettingsType /\ storedCount \in 0..MaxStored
  <2>1. showThirdParty \in BOOLEAN
    BY <1>1, Zenon
  <2>2. issuesScope \in Pages \cup {NoTarget} /\ framed \subseteq Pages
    BY <1>1, Zenon
  <2>3. hideSetting \in [Manager!Codes -> {"unset", "Hidden", "Unhidden"}]
    BY <1>1
  <2>4. storedCount \in 0..MaxStored
    <3>1. storedCount = 0
      BY <1>1
    <3> QED
      BY <3>1, IssuesConstants
  <2> QED
    BY <2>1, <2>2, <2>3, <2>4 DEF SettingsType
<1>3. ShownType
  BY <1>1 DEF ShownType
<1>4. FlagsAreSet(hidden, allIssues, hideSetting) /\ filteredIssues \subseteq Elements(allIssues)
  BY <1>1 DEF FlagsAreSet
<1>5. Manager!FilteredIsFresh /\ Manager!HiddenFollowsSetting
  BY <1>1 DEF Manager!FilteredIsFresh, Manager!HiddenFollowsSetting
<1>6. Manager!CountsMatch
  <2>1. filteredIssues \cap hidden = {}
    BY <1>1
  <2> QED
    BY <1>1, <2>1, NoneOfKind DEF Manager!CountsMatch
<1>7. Manager!IdsLeadToShown
  <2>1. ASSUME NEW id \in Ids PROVE Manager!LastWithId(id, allIssues, filteredIssues) = NoObject
    BY <1>1 DEF Manager!LastWithId
  <2> QED
    BY <1>1, <2>1 DEF Manager!IdsLeadToShown
<1>8. Resolved
  <2>1. Manager!Waiting = {}
    BY <1>1 DEF Manager!Waiting
  <2>2. Manager!WaitersAreHeard
    BY <1>1, <2>1 DEF Manager!WaitersAreHeard
  <2>3. Manager!ResolverTypeOK(Issues)
    BY <1>1 DEF Manager!ResolverTypeOK
  <2>4. \A c \in Calls : outcome[c] = "waits" /\ outcome[c] \notin Issues
    BY <1>1, IssuesConstants
  <2> QED
    BY <2>2, <2>3, <2>4 DEF Resolved
<1> QED
  BY <1>2, <1>3, <1>4, <1>5, <1>6, <1>7, <1>8 DEF IssuesInv, Shown

LEMMA ShownUnchanged ==
  ASSUME Shown, UNCHANGED Manager!managerVars, UNCHANGED Manager!settingVars
  PROVE  Shown'
<1>1. ShownType'
  BY DEF Shown, ShownType, Manager!managerVars, Manager!settingVars
<1>2. filteredIssues' \subseteq Elements(allIssues') /\ FlagsAreSet(hidden', allIssues', hideSetting')
  BY DEF Shown, Manager!managerVars, Manager!settingVars
<1>3. Manager!FilteredIsFresh'
  BY DEF Shown, Manager!FilteredIsFresh, Manager!Stored, Manager!managerVars, Manager!settingVars
<1>4. Manager!CountsMatch' /\ Manager!HiddenFollowsSetting' /\ Manager!IdsLeadToShown'
  BY DEF Shown, Manager!CountsMatch, Manager!HiddenFollowsSetting, Manager!IdsLeadToShown,
         Manager!managerVars, Manager!settingVars
<1> QED
  BY <1>1, <1>2, <1>3, <1>4 DEF Shown

(* An issue of a new key is not stored yet.                                *)
LEMMA AddIssue ==
  ASSUME Shown, SettingsType, NEW i \in Issues, Manager!addIssue(i)
  PROVE  Shown'
<1> DEFINE takes == Manager!issueFilter(i, issuesScope, framed, showThirdParty)
           shown == IF takes THEN {i} ELSE {}
           id == Manager!Entered(i, takes)
           s == Append(allIssues, i)
<1>1. /\ allIssues' = s /\ hidden' = Manager!HiddenBy(hideSetting, hidden, shown)
      /\ filteredIssues' = filteredIssues \cup shown
      /\ issueCounts' = [k \in Manager!Kinds |-> issueCounts[k] + Manager!OfKind(shown, k)]
      /\ hiddenIssueCount' = [k \in Manager!Kinds |->
                                hiddenIssueCount[k] + Manager!OfKind(shown \cap hidden', k)]
      /\ issuesById' = IF id = NoId THEN issuesById ELSE [issuesById EXCEPT ![id] = i]
      /\ issuesScope' = issuesScope /\ framed' = framed /\ hideSetting' = hideSetting
  BY DEF Manager!addIssue, Manager!settingVars
<1>2. showThirdParty' = showThirdParty
  BY DEF Manager!addIssue, Manager!settingVars
<1>3. i \notin Elements(allIssues)
  BY DEF Manager!addIssue, Manager!Stored, Elements
<1>4. s \in Seq(Issues) /\ Elements(s) = Elements(allIssues) \cup {i}
  <2>1. allIssues \in Seq(Issues)
    BY DEF Shown, ShownType
  <2>2. s \in Seq(Issues)
    BY <2>1
  <2>3. Elements(s) = Elements(allIssues) \cup {i}
    BY <2>1 DEF Elements
  <2> QED
    BY <2>2, <2>3
<1>5. /\ i \notin filteredIssues /\ i \notin hidden
      /\ IsFiniteSet(filteredIssues) /\ IsFiniteSet(filteredIssues \cap hidden)
  <2>1. IsFiniteSet(Elements(allIssues))
    BY ElementsFinite DEF Shown, ShownType
  <2> QED
    BY <1>3, <2>1, FS_Subset DEF Shown, FlagsAreSet
<1>6. shown = {} \/ shown = {i}
  OBVIOUS
<1>7. id = NoId \/ (id = idOf[i] /\ id \in Ids /\ takes)
  BY IssuesConstants DEF Manager!Entered
<1>8. takes => id = idOf[i]
  BY DEF Manager!Entered
<1>9. shown = {i} <=> takes
  OBVIOUS
<1>10. Manager!FilteredIsFresh'
  <2>1. ASSUME issuesScope \in framed
        PROVE  filteredIssues \cup shown =
                 {j \in Elements(s) : Manager!issueFilter(j, issuesScope, framed, showThirdParty)}
    <3>1. filteredIssues =
            {j \in Elements(allIssues) : Manager!issueFilter(j, issuesScope, framed, showThirdParty)}
      BY <2>1 DEF Shown, Manager!FilteredIsFresh, Manager!Stored, Elements
    <3> QED
      BY <3>1, <1>4
  <2> HIDE DEF shown, s
  <2> QED
    BY <1>1, <1>2, <2>1 DEF Manager!FilteredIsFresh, Manager!Stored, Elements
<1> HIDE DEF shown, takes, id
<1>11. hidden' \cap shown \subseteq {i} /\ hidden' = hidden \cup (hidden' \cap shown)
  BY <1>1, <1>5, <1>6 DEF Manager!HiddenBy
<1>12. ASSUME NEW j \in shown
       PROVE  (j \in hidden' <=> hideSetting[codeOf[j]] = "Hidden")
  BY <1>1, <1>5, <1>6, <1>12 DEF Manager!HiddenBy
<1>13. Manager!HiddenFollowsSetting'
  <2>1. SUFFICES ASSUME NEW j \in filteredIssues \cup shown
                 PROVE  j \in hidden' <=> hideSetting[codeOf[j]] = "Hidden"
    BY <1>1 DEF Manager!HiddenFollowsSetting
  <2>2. CASE j \in filteredIssues
    <3>1. j \notin shown
      BY <1>5, <1>6, <2>2
    <3>2. j \in hidden <=> hideSetting[codeOf[j]] = "Hidden"
      BY <2>2 DEF Shown, Manager!HiddenFollowsSetting
    <3> QED
      BY <1>11, <3>1, <3>2
  <2> QED
    BY <1>12, <2>1, <2>2
<1>14. FlagsAreSet(hidden', s, hideSetting')
  <2>1. SUFFICES ASSUME NEW j \in hidden'
                 PROVE  j \in Elements(s) /\ hideSetting[codeOf[j]] # "unset"
    BY <1>1 DEF FlagsAreSet
  <2>2. CASE j \in hidden
    BY <1>4, <2>2 DEF Shown, FlagsAreSet
  <2>3. CASE j \in shown
    <3>1. j = i /\ hideSetting[codeOf[j]] = "Hidden"
      BY <1>6, <1>12, <2>1, <2>3
    <3> QED
      BY <1>4, <3>1
  <2> QED
    BY <1>11, <2>1, <2>2, <2>3
<1>15. Manager!CountsMatch'
  <2>1. SUFFICES ASSUME NEW k \in Manager!Kinds
                 PROVE  /\ issueCounts[k] + Manager!OfKind(shown, k)
                             = Manager!OfKind(filteredIssues \cup shown, k)
                        /\ hiddenIssueCount[k] + Manager!OfKind(shown \cap hidden', k)
                             = Manager!OfKind((filteredIssues \cup shown) \cap hidden', k)
    BY <1>1 DEF Manager!CountsMatch
  <2>2. /\ issueCounts[k] = Manager!OfKind(filteredIssues, k)
        /\ hiddenIssueCount[k] = Manager!OfKind(filteredIssues \cap hidden, k)
    BY DEF Shown, Manager!CountsMatch
  <2>3. (filteredIssues \cup shown) \cap hidden' = (filteredIssues \cap hidden) \cup (shown \cap hidden')
    BY <1>5, <1>6, <1>11
  <2>4. ASSUME NEW S, IsFiniteSet(S), i \notin S, NEW X, X = {} \/ X = {i}
        PROVE  Manager!OfKind(S, k) + Manager!OfKind(X, k) = Manager!OfKind(S \cup X, k)
    <3>1. CASE X = {}
      <4>1. S \cup X = S /\ Manager!OfKind(X, k) = 0
        BY <3>1, NoneOfKind
      <4> QED
        BY <2>4, <4>1, OfKindCounts
    <3>2. CASE X = {i}
      BY <2>4, <3>2, OfKindCounts
    <3> QED
      BY <2>4, <3>1, <3>2
  <2>5. shown \cap hidden' = {} \/ shown \cap hidden' = {i}
    BY <1>6
  <2>6. i \notin filteredIssues \cap hidden
    BY <1>5
  <2> QED
    BY <1>5, <1>6, <2>2, <2>3, <2>4, <2>5, <2>6
<1>16. Manager!IdsLeadToShown'
  <2>1. SUFFICES ASSUME NEW d \in Ids
                 PROVE  issuesById'[d] = Manager!LastWithId(d, s, filteredIssues \cup shown)
    BY <1>1 DEF Manager!IdsLeadToShown
  <2> DEFINE n == Len(allIssues)
             I == {m \in 1..Len(allIssues) : allIssues[m] \in filteredIssues /\ idOf[allIssues[m]] = d}
             J == {m \in 1..Len(s) : s[m] \in filteredIssues \cup shown /\ idOf[s[m]] = d}
  <2>2. issuesById[d] = IF I = {} THEN NoObject ELSE allIssues[CHOOSE m \in I : \A k \in I : k <= m]
    BY DEF Shown, Manager!IdsLeadToShown, Manager!LastWithId
  <2>3. Manager!LastWithId(d, s, filteredIssues \cup shown)
          = IF J = {} THEN NoObject ELSE s[CHOOSE m \in J : \A k \in J : k <= m]
    BY DEF Manager!LastWithId
  <2>4. /\ Len(s) = n + 1 /\ s[n + 1] = i /\ n \in Nat /\ I \subseteq 1..n
        /\ \A m \in 1..n : s[m] = allIssues[m] /\ allIssues[m] # i
    BY <1>3 DEF Shown, ShownType, Elements
  <2>5. issuesById \in [Ids -> Issues \cup {NoObject}]
    BY DEF Shown, ShownType
  <2>6. CASE takes /\ idOf[i] = d
    <3>1. issuesById'[d] = i
      BY <1>1, <1>8, <2>5, <2>6, IssuesConstants
    <3>2. n + 1 \in J /\ J \subseteq 1..n + 1
      <4> HIDE DEF s, n
      <4> QED
        BY <1>9, <2>4, <2>6
    <3>3. (CHOOSE m \in J : \A k \in J : k <= m) = n + 1
      <4>1. \A k \in J : k <= n + 1
        BY <2>4, <3>2
      <4>2. \A m \in J : (\A k \in J : k <= m) => m = n + 1
        BY <2>4, <3>2
      <4> HIDE DEF J, n
      <4> QED
        BY <3>2, <4>1, <4>2
    <3> HIDE DEF J, s, n
    <3> QED
      BY <2>3, <2>4, <3>1, <3>2, <3>3
  <2>7. CASE ~(takes /\ idOf[i] = d)
    <3>1. issuesById'[d] = issuesById[d]
      BY <1>1, <1>7, <2>5, <2>7
    <3>2. J = I
      <4>1. ASSUME NEW m \in J PROVE m \in I
        <5>1. m \in 1..n + 1 /\ s[m] \in filteredIssues \cup shown /\ idOf[s[m]] = d
          BY <2>4
        <5>2. m # n + 1
          <6>1. SUFFICES ASSUME m = n + 1 PROVE FALSE
            OBVIOUS
          <6>2. i \in filteredIssues \cup shown /\ idOf[i] = d
            BY <2>4, <5>1, <6>1
          <6> QED
            BY <1>5, <1>6, <1>9, <2>7, <6>2
        <5>3. m \in 1..n /\ s[m] = allIssues[m] /\ allIssues[m] # i
          BY <2>4, <5>1, <5>2
        <5> HIDE DEF s
        <5> QED
          BY <1>6, <5>1, <5>3
      <4>2. ASSUME NEW m \in I PROVE m \in J
        <5>1. m \in 1..n /\ s[m] = allIssues[m] /\ m \in 1..Len(s)
          BY <2>4
        <5> HIDE DEF s
        <5> QED
          BY <5>1
      <4> HIDE DEF I, J
      <4> QED
        BY <4>1, <4>2
    <3>3. CASE I = {}
      <4> HIDE DEF I, J, s
      <4> QED
        BY <2>2, <2>3, <3>1, <3>2, <3>3
    <3>4. CASE I # {}
      <4> DEFINE last == CHOOSE m \in I : \A k \in I : k <= m
      <4>1. last \in I
        <5>1. I \in SUBSET (1..n) /\ n \in Nat
          BY <2>4
        <5> HIDE DEF I
        <5> QED
          BY <3>4, <5>1, LastExists
      <4>2. s[last] = allIssues[last]
        BY <2>4, <4>1
      <4>3. issuesById[d] = allIssues[last]
        BY <2>2, <3>4
      <4>4. Manager!LastWithId(d, s, filteredIssues \cup shown) = s[last]
        <5> HIDE DEF I, J, s
        <5> QED
          BY <2>3, <3>2, <3>4
      <4> HIDE DEF I, last, s
      <4> QED
        BY <3>1, <4>2, <4>3, <4>4
    <3> QED
      BY <3>3, <3>4
  <2> QED
    BY <2>6, <2>7
<1>17. ShownType'
  <2>1. filteredIssues' \subseteq Issues /\ hidden' \subseteq Issues
    BY <1>1, <1>6, <1>11 DEF Shown, ShownType
  <2>2. \A k : Manager!OfKind(shown, k) \in Nat /\ Manager!OfKind(shown \cap hidden', k) \in Nat
    <3>1. IsFiniteSet(shown) /\ IsFiniteSet(shown \cap hidden')
      BY <1>6, FS_EmptySet, FS_Singleton, FS_Subset
    <3> QED
      BY <3>1, OfKindCounts
  <2>3. issueCounts' \in [Manager!Kinds -> Nat] /\ hiddenIssueCount' \in [Manager!Kinds -> Nat]
    <3>1. /\ issueCounts \in [Manager!Kinds -> Nat]
          /\ hiddenIssueCount \in [Manager!Kinds -> Nat]
      BY DEF Shown, ShownType
    <3>2. ASSUME NEW k \in Manager!Kinds
          PROVE  /\ issueCounts[k] + Manager!OfKind(shown, k) \in Nat
                 /\ hiddenIssueCount[k] + Manager!OfKind(shown \cap hidden', k) \in Nat
      <4>1. issueCounts[k] \in Nat /\ hiddenIssueCount[k] \in Nat
        BY <3>1
      <4>2. Manager!OfKind(shown, k) \in Nat /\ Manager!OfKind(shown \cap hidden', k) \in Nat
        BY <2>2
      <4> QED
        BY <4>1, <4>2
    <3> QED
      BY <1>1, <3>2
  <2>4. issuesById' \in [Ids -> Issues \cup {NoObject}]
    BY <1>1, <1>7 DEF Shown, ShownType
  <2> QED
    BY <1>1, <1>4, <2>1, <2>3, <2>4 DEF ShownType
<1>18. filteredIssues' \subseteq Elements(s)
  BY <1>1, <1>4, <1>6 DEF Shown
<1> HIDE DEF s
<1> QED
  BY <1>1, <1>10, <1>13, <1>14, <1>15, <1>16, <1>17, <1>18 DEF Shown

(* The other handlers update everything, after what they change.           *)
LEMMA UpdatesRebuild ==
  ASSUME Shown, SettingsType,
         NEW s \in Seq(Issues), NEW flags, Manager!updateFilteredIssues(s, framed', flags),
         \/ s = allIssues /\ flags = hidden
         \/ flags = {}
         \/ flags \subseteq hidden \cap Elements(s),
         SettingsType', \A i \in flags : hideSetting'[codeOf[i]] # "unset"
  PROVE  Shown'
<1>1. flags \subseteq Elements(s)
  BY DEF Shown, FlagsAreSet
<1>2. FlagsAreSet(flags, s, hideSetting')
  BY <1>1 DEF FlagsAreSet
<1> QED
  BY <1>2, Rebuilt

LEMMA OtherHandlers ==
  ASSUME Shown, SettingsType,
         \/ \E i \in Issues : Manager!hideLike(i)
         \/ \E kept \in SUBSET Manager!Stored : Manager!onPrimaryPageChanged(kept)
         \/ \E t \in Pages : Manager!onFrameAddedToTarget(t) \/ Manager!targetAdded(t)
         \/ Manager!toggleThirdParty \/ Manager!unhideAllIssues
  PROVE  Shown' /\ SettingsType'
<1>0. allIssues \in Seq(Issues) /\ \A i \in hidden : i \in Issues /\ hideSetting[codeOf[i]] # "unset"
  BY DEF Shown, ShownType, FlagsAreSet
<1>1. ASSUME NEW i \in Issues, Manager!hideLike(i) PROVE Shown' /\ SettingsType'
  <2> DEFINE new == IF i \in hidden THEN "Unhidden" ELSE "Hidden"
  <2>1. /\ hideSetting' = [hideSetting EXCEPT ![codeOf[i]] = new]
        /\ issuesScope' = issuesScope /\ framed' = framed
        /\ Manager!updateFilteredIssues(allIssues, framed, hidden)
    BY <1>1 DEF Manager!hideLike
  <2>2. showThirdParty' = showThirdParty
    BY <1>1 DEF Manager!hideLike
  <2>3. new \in {"Hidden", "Unhidden"}
    OBVIOUS
  <2> HIDE DEF new
  <2>4. hideSetting' \in [Manager!Codes -> {"unset", "Hidden", "Unhidden"}]
    BY <2>1, <2>3 DEF SettingsType
  <2>5. SettingsType'
    BY <2>1, <2>2, <2>4 DEF SettingsType
  <2>6. ASSUME NEW j \in hidden PROVE hideSetting'[codeOf[j]] # "unset"
    <3>1. codeOf[j] \in Manager!Codes
      BY <1>0 DEF Manager!Codes
    <3>2. hideSetting'[codeOf[j]] = IF codeOf[j] = codeOf[i] THEN new ELSE hideSetting[codeOf[j]]
      BY <2>1, <3>1 DEF SettingsType
    <3> QED
      BY <1>0, <2>3, <3>2
  <2> QED
    BY <1>0, <2>1, <2>5, <2>6, UpdatesRebuild
<1>2. ASSUME NEW kept \in SUBSET Manager!Stored, Manager!onPrimaryPageChanged(kept)
      PROVE  Shown' /\ SettingsType'
  <2> DEFINE s == Manager!KeptInOrder(allIssues, kept)
  <2>1. /\ hideSetting' = hideSetting /\ issuesScope' = issuesScope /\ framed' = framed
        /\ Manager!updateFilteredIssues(s, framed, hidden \cap kept)
    BY <1>2 DEF Manager!onPrimaryPageChanged, Manager!settingVars
  <2>2. showThirdParty' = showThirdParty
    BY <1>2 DEF Manager!onPrimaryPageChanged, Manager!settingVars
  <2>3. s \in Seq(Issues) /\ Elements(s) = Elements(allIssues) \cap kept
    BY <1>0, KeptElements
  <2>4. SettingsType'
    BY <2>1, <2>2 DEF SettingsType
  <2>5. kept \subseteq Elements(allIssues)
    BY DEF Manager!Stored, Elements
  <2> HIDE DEF s
  <2>6. hidden \cap kept \subseteq hidden \cap Elements(s)
    BY <2>3, <2>5
  <2> QED
    BY <1>0, <2>1, <2>3, <2>4, <2>6, UpdatesRebuild
<1>3. ASSUME NEW t \in Pages, Manager!onFrameAddedToTarget(t) PROVE Shown' /\ SettingsType'
  <2>1. /\ framed' = framed \cup {t} /\ hideSetting' = hideSetting /\ issuesScope' = issuesScope
        /\ IF t = issuesScope THEN Manager!updateFilteredIssues(allIssues, framed', hidden)
                              ELSE UNCHANGED Manager!managerVars
    BY <1>3 DEF Manager!onFrameAddedToTarget, Manager!FiltersAgain
  <2>2. showThirdParty' = showThirdParty
    BY <1>3 DEF Manager!onFrameAddedToTarget
  <2>3. SettingsType'
    BY <2>1, <2>2 DEF SettingsType
  <2>4. CASE t = issuesScope
    BY <1>0, <2>1, <2>3, <2>4, UpdatesRebuild
  <2>5. CASE t # issuesScope
    <3>1. /\ allIssues' = allIssues /\ filteredIssues' = filteredIssues /\ hidden' = hidden
          /\ issueCounts' = issueCounts /\ hiddenIssueCount' = hiddenIssueCount
          /\ issuesById' = issuesById
      BY <2>1, <2>5 DEF Manager!managerVars
    <3>2. Manager!FilteredIsFresh'
      <4>1. SUFFICES ASSUME issuesScope \in framed \cup {t}
                     PROVE  filteredIssues = {i \in Manager!Stored :
                              Manager!issueFilter(i, issuesScope, framed \cup {t}, showThirdParty)}
        BY <2>1, <2>2, <3>1 DEF Manager!FilteredIsFresh, Manager!Stored
      <4>2. issuesScope \in framed
        BY <2>5, <4>1
      <4>3. \A i : Manager!isCausedByThirdParty(i, framed \cup {t})
                     <=> Manager!isCausedByThirdParty(i, framed)
        BY <4>2 DEF Manager!isCausedByThirdParty
      <4>4. \A i : Manager!issueFilter(i, issuesScope, framed \cup {t}, showThirdParty)
                     <=> Manager!issueFilter(i, issuesScope, framed, showThirdParty)
        BY <4>3 DEF Manager!issueFilter
      <4>5. filteredIssues = {i \in Manager!Stored :
                              Manager!issueFilter(i, issuesScope, framed, showThirdParty)}
        BY <4>2 DEF Shown, Manager!FilteredIsFresh
      <4> QED
        BY <4>4, <4>5
    <3>3. ShownType'
      BY <3>1 DEF Shown, ShownType
    <3>4. filteredIssues' \subseteq Elements(allIssues') /\ FlagsAreSet(hidden', allIssues', hideSetting')
      BY <2>1, <3>1 DEF Shown
    <3>5. Manager!CountsMatch' /\ Manager!HiddenFollowsSetting' /\ Manager!IdsLeadToShown'
      BY <2>1, <3>1
      DEF Shown, Manager!CountsMatch, Manager!HiddenFollowsSetting, Manager!IdsLeadToShown
    <3> QED
      BY <2>3, <3>2, <3>3, <3>4, <3>5 DEF Shown
  <2> QED
    BY <2>4, <2>5
<1>4. ASSUME NEW t \in Pages, Manager!targetAdded(t) PROVE Shown' /\ SettingsType'
  <2>1. /\ issuesScope' = t /\ hideSetting' = hideSetting /\ framed' = framed
        /\ Manager!updateFilteredIssues(allIssues, framed, hidden)
    BY <1>4 DEF Manager!targetAdded
  <2>2. showThirdParty' = showThirdParty
    BY <1>4 DEF Manager!targetAdded
  <2>3. SettingsType'
    BY <2>1, <2>2 DEF SettingsType
  <2> QED
    BY <1>0, <2>1, <2>3, UpdatesRebuild
<1>5. ASSUME Manager!toggleThirdParty PROVE Shown' /\ SettingsType'
  <2>1. /\ issuesScope' = issuesScope /\ hideSetting' = hideSetting /\ framed' = framed
        /\ Manager!updateFilteredIssues(allIssues, framed, hidden)
    BY <1>5 DEF Manager!toggleThirdParty
  <2>2. showThirdParty' \in BOOLEAN
    <3>1. showThirdParty' = ~showThirdParty
      BY <1>5 DEF Manager!toggleThirdParty
    <3> QED
      BY <3>1, Zenon
  <2>3. SettingsType'
    BY <2>1, <2>2 DEF SettingsType
  <2> QED
    BY <1>0, <2>1, <2>3, UpdatesRebuild
<1>6. ASSUME Manager!unhideAllIssues PROVE Shown' /\ SettingsType'
  <2>1. /\ issuesScope' = issuesScope /\ framed' = framed
        /\ hideSetting' = [c \in Manager!Codes |-> "unset"]
        /\ Manager!updateFilteredIssues(allIssues, framed, hidden \ Manager!Stored)
    BY <1>6 DEF Manager!unhideAllIssues
  <2>2. showThirdParty' = showThirdParty
    BY <1>6 DEF Manager!unhideAllIssues
  <2>3. SettingsType'
    BY <2>1, <2>2 DEF SettingsType
  <2>4. hidden \ Manager!Stored = {}
    BY DEF Shown, FlagsAreSet, Manager!Stored, Elements
  <2> QED
    BY <1>0, <2>1, <2>3, <2>4, UpdatesRebuild
<1> QED
  BY <1>1, <1>2, <1>3, <1>4, <1>5, <1>6

-----------------------------------------------------------------------------
(* The answers of the resolver, for an object of the id that was added or  *)
(* that the manager found.                                                 *)
AnswersStand ==
  \A c \in Calls : /\ outcome[c] # "waits" => outcome'[c] = outcome[c]
                   /\ outcome'[c] \in Issues => idOf[outcome'[c]] = askedFor'[c]

LEMMA ResolverQuiet ==
  ASSUME Resolved, UNCHANGED Manager!resolverVars
  PROVE  Resolved' /\ AnswersStand
<1>1. /\ unresolvedIds' = unresolvedIds /\ askedFor' = askedFor /\ outcome' = outcome
  BY DEF Manager!resolverVars
<1>2. listening' = listening
  BY DEF Manager!resolverVars
<1>3. Manager!ResolverTypeOK(Issues)'
  BY <1>1, <1>2 DEF Resolved, Manager!ResolverTypeOK
<1>4. Manager!WaitersAreHeard'
  BY <1>1, <1>2 DEF Resolved, Manager!WaitersAreHeard, Manager!Waiting
<1>5. AnswersStand
  BY <1>1 DEF Resolved, AnswersStand
<1> QED
  BY <1>1, <1>3, <1>4, <1>5 DEF Resolved

LEMMA Added ==
  ASSUME Resolved, NEW i \in Issues, NEW id \in Ids \cup {NoId}, id # NoId => idOf[i] = id,
         Manager!added(id, i)
  PROVE  Resolved' /\ AnswersStand
<1>1. CASE ~(listening /\ id # NoId)
  BY <1>1, ResolverQuiet DEF Manager!added
<1>2. CASE listening /\ id # NoId
  <2>1. /\ unresolvedIds' = unresolvedIds \ {id} /\ askedFor' = askedFor
        /\ outcome' = IF id \in unresolvedIds THEN Manager!Settled(id, i) ELSE outcome
    BY <1>2 DEF Manager!added, Manager!onResolve
  <2>2. listening' <=> unresolvedIds' # {}
    <3>1. listening' = (unresolvedIds' # {})
      BY <1>2 DEF Manager!added, Manager!onResolve, Manager!GoesOn
    <3> QED
      BY <3>1, Zenon
  <2>3. listening' \in BOOLEAN
    <3>1. listening' = (unresolvedIds' # {})
      BY <1>2 DEF Manager!added, Manager!onResolve, Manager!GoesOn
    <3> QED
      BY <3>1, Zenon
  <2>4. ASSUME NEW c \in Calls
        PROVE  \/ outcome'[c] = outcome[c] /\ ~(c \in Manager!Waiting /\ askedFor[c] = id)
               \/ outcome'[c] = i /\ c \in Manager!Waiting /\ askedFor[c] = id
    <3>1. CASE id \in unresolvedIds
      BY <2>1, <3>1 DEF Manager!Settled
    <3>2. CASE id \notin unresolvedIds
      BY <2>1, <3>2 DEF Resolved, Manager!WaitersAreHeard
    <3> QED
      BY <3>1, <3>2
  <2>5. outcome' \in [Calls -> {"waits", "rejected"} \cup Issues]
    BY <2>1 DEF Resolved, Manager!ResolverTypeOK, Manager!Settled
  <2>6. Manager!ResolverTypeOK(Issues)'
    BY <2>1, <2>3, <2>5 DEF Resolved, Manager!ResolverTypeOK
  <2>7. Manager!WaitersAreHeard'
    <3>1. SUFFICES ASSUME NEW c \in Calls, askedFor[c] # NoId, outcome'[c] = "waits"
                   PROVE  askedFor[c] \in unresolvedIds \ {id}
      BY <2>1, <2>2 DEF Manager!WaitersAreHeard, Manager!Waiting
    <3>2. outcome'[c] # i
      BY <3>1, IssuesConstants
    <3>3. outcome[c] = "waits" /\ ~(c \in Manager!Waiting /\ askedFor[c] = id)
      BY <2>4, <3>1, <3>2
    <3>4. c \in Manager!Waiting
      BY <3>1, <3>3 DEF Manager!Waiting
    <3> QED
      BY <3>3, <3>4 DEF Resolved, Manager!WaitersAreHeard
  <2>8. AnswersStand
    BY <1>2, <2>1, <2>4 DEF Resolved, AnswersStand, Manager!Waiting
  <2>9. \A c \in Calls : askedFor'[c] = NoId => outcome'[c] = "waits"
    BY <2>1, <2>4 DEF Resolved, Manager!Waiting
  <2> QED
    BY <2>6, <2>7, <2>8, <2>9 DEF Resolved, AnswersStand
<1> QED
  BY <1>1, <1>2

LEMMA WaitFor ==
  ASSUME Resolved, NEW c \in Calls, NEW id \in Ids, NEW obj \in Issues \cup {NoObject},
         obj # NoObject => idOf[obj] = id, Manager!waitFor(c, id, obj)
  PROVE  Resolved' /\ AnswersStand
<1>1. /\ askedFor[c] = NoId /\ askedFor' = [askedFor EXCEPT ![c] = id]
      /\ outcome[c] = "waits"
  BY DEF Manager!waitFor, Resolved
<1>2. /\ askedFor' \in [Calls -> Ids \cup {NoId}] /\ askedFor'[c] = id
      /\ \A d \in Calls \ {c} : askedFor'[d] = askedFor[d]
  BY <1>1 DEF Resolved, Manager!ResolverTypeOK
<1>3. CASE obj # NoObject
  <2>1. outcome' = [outcome EXCEPT ![c] = obj] /\ unresolvedIds' = unresolvedIds
    BY <1>3 DEF Manager!waitFor, Manager!AtHand
  <2>2. listening' = listening
    BY <1>3 DEF Manager!waitFor, Manager!AtHand
  <2>3. /\ outcome' \in [Calls -> {"waits", "rejected"} \cup Issues] /\ outcome'[c] = obj
        /\ \A d \in Calls \ {c} : outcome'[d] = outcome[d]
    BY <1>3, <2>1 DEF Resolved, Manager!ResolverTypeOK
  <2>4. Manager!ResolverTypeOK(Issues)'
    BY <1>2, <2>1, <2>2, <2>3 DEF Resolved, Manager!ResolverTypeOK
  <2>5. Manager!WaitersAreHeard'
    <3>1. ASSUME NEW d \in Calls, askedFor'[d] # NoId, outcome'[d] = "waits"
          PROVE  askedFor'[d] \in unresolvedIds
      <4>1. d # c
        BY <1>3, <2>3, <3>1, IssuesConstants
      <4>2. d \in Manager!Waiting /\ askedFor'[d] = askedFor[d]
        BY <1>2, <2>3, <3>1, <4>1 DEF Manager!Waiting
      <4> QED
        BY <4>2 DEF Resolved, Manager!WaitersAreHeard
    <3>2. listening' <=> unresolvedIds' # {}
      BY <2>1, <2>2 DEF Resolved, Manager!WaitersAreHeard
    <3> QED
      BY <2>1, <3>1, <3>2 DEF Manager!WaitersAreHeard, Manager!Waiting
  <2>6. AnswersStand
    BY <1>1, <1>2, <1>3, <2>3 DEF Resolved, AnswersStand
  <2>7. \A d \in Calls : askedFor'[d] = NoId => outcome'[d] = "waits"
    BY <1>2, <2>3, IssuesConstants DEF Resolved
  <2> QED
    BY <2>4, <2>5, <2>6, <2>7 DEF Resolved, AnswersStand
<1>4. CASE obj = NoObject
  <2>1. outcome' = outcome /\ unresolvedIds' = unresolvedIds \cup {id}
    BY <1>4 DEF Manager!waitFor, Manager!AtHand, Manager!getOrCreatePromise
  <2>2. listening'
    BY <1>4 DEF Manager!waitFor, Manager!AtHand, Manager!getOrCreatePromise
  <2>3. listening' \in BOOLEAN
    <3>1. listening' = TRUE
      BY <1>4 DEF Manager!waitFor, Manager!AtHand, Manager!getOrCreatePromise
    <3> QED
      BY <3>1, Zenon
  <2>4. Manager!ResolverTypeOK(Issues)'
    BY <1>2, <2>1, <2>3 DEF Resolved, Manager!ResolverTypeOK
  <2>5. Manager!WaitersAreHeard'
    <3>1. ASSUME NEW d \in Calls, askedFor'[d] # NoId, outcome'[d] = "waits"
          PROVE  askedFor'[d] \in unresolvedIds'
      <4>1. CASE d # c
        <5>1. d \in Manager!Waiting /\ askedFor'[d] = askedFor[d]
          BY <1>2, <2>1, <3>1, <4>1 DEF Manager!Waiting
        <5> QED
          BY <2>1, <5>1 DEF Resolved, Manager!WaitersAreHeard
      <4> QED
        BY <1>2, <2>1, <4>1
    <3>2. listening' <=> unresolvedIds' # {}
      BY <2>1, <2>2
    <3> QED
      BY <3>1, <3>2 DEF Manager!WaitersAreHeard, Manager!Waiting
  <2>6. AnswersStand
    BY <1>1, <1>2, <2>1, IssuesConstants DEF Resolved, AnswersStand
  <2>7. \A d \in Calls : askedFor'[d] = NoId => outcome'[d] = "waits"
    BY <1>1, <1>2, <2>1 DEF Resolved
  <2> QED
    BY <2>4, <2>5, <2>6, <2>7 DEF Resolved, AnswersStand
<1> QED
  BY <1>3, <1>4

LEMMA Clear ==
  ASSUME Resolved, Manager!clear
  PROVE  Resolved' /\ AnswersStand
<1>1. /\ unresolvedIds' = {} /\ askedFor' = askedFor
      /\ outcome' = [c \in Calls |-> IF c \in Manager!Waiting /\ askedFor[c] \in unresolvedIds
                                       THEN "rejected" ELSE outcome[c]]
  BY DEF Manager!clear
<1>2. ~listening'
  BY DEF Manager!clear
<1>3. listening' \in BOOLEAN
  <2>1. listening' = FALSE
    BY DEF Manager!clear
  <2> QED
    BY <2>1, Zenon
<1>4. ASSUME NEW c \in Calls
      PROVE  outcome'[c] = IF c \in Manager!Waiting THEN "rejected" ELSE outcome[c]
  BY <1>1 DEF Resolved, Manager!WaitersAreHeard
<1>5. Manager!ResolverTypeOK(Issues)'
  <2>1. outcome' \in [Calls -> {"waits", "rejected"} \cup Issues]
    BY <1>1 DEF Resolved, Manager!ResolverTypeOK
  <2> QED
    BY <1>1, <1>3, <2>1 DEF Resolved, Manager!ResolverTypeOK
<1>6. Manager!Waiting' = {}
  BY <1>1, <1>4 DEF Manager!Waiting
<1>7. Manager!WaitersAreHeard'
  BY <1>1, <1>2, <1>6 DEF Manager!WaitersAreHeard
<1>8. AnswersStand
  BY <1>1, <1>4, IssuesConstants DEF Resolved, AnswersStand, Manager!Waiting
<1>9. \A c \in Calls : askedFor'[c] = NoId => outcome'[c] = "waits"
  BY <1>1, <1>4 DEF Resolved, Manager!Waiting
<1> QED
  BY <1>5, <1>7, <1>8, <1>9 DEF Resolved, AnswersStand

-----------------------------------------------------------------------------
LEMMA IssuesStep ==
  ASSUME IssuesInv, [Manager!Next]_(Manager!vars)
  PROVE  IssuesInv' /\ AnswersStand
<1> USE DEF IssuesInv
<1>1. ASSUME NEW i \in Issues, Manager!addIssue(i) PROVE IssuesInv' /\ AnswersStand
  <2> DEFINE takes == Manager!issueFilter(i, issuesScope, framed, showThirdParty)
             id == Manager!Entered(i, takes)
  <2>1. Manager!added(id, i) /\ UNCHANGED Manager!settingVars
    BY <1>1 DEF Manager!addIssue
  <2>2. id \in Ids \cup {NoId} /\ (id # NoId => idOf[i] = id)
    BY IssuesConstants DEF Manager!Entered
  <2>3. Resolved' /\ AnswersStand
    <3> HIDE DEF id
    <3> QED
      BY <2>1, <2>2, Added
  <2>4. SettingsType'
    BY <2>1 DEF SettingsType, Manager!settingVars
  <2>5. storedCount < MaxStored /\ storedCount' = storedCount + 1
    BY <1>1 DEF Manager!addIssue
  <2>6. storedCount' \in 0..MaxStored
    BY <2>5, IssuesConstants
  <2> QED
    BY <1>1, <2>3, <2>4, <2>6, AddIssue
<1>2. ASSUME \/ \E i \in Issues : Manager!hideLike(i)
             \/ \E kept \in SUBSET Manager!Stored : Manager!onPrimaryPageChanged(kept)
             \/ \E t \in Pages : Manager!onFrameAddedToTarget(t) \/ Manager!targetAdded(t)
             \/ Manager!toggleThirdParty \/ Manager!unhideAllIssues
      PROVE  IssuesInv' /\ AnswersStand
  <2>1. UNCHANGED Manager!resolverVars /\ storedCount' = storedCount
    BY <1>2
    DEF Manager!hideLike, Manager!onPrimaryPageChanged, Manager!onFrameAddedToTarget,
        Manager!targetAdded, Manager!toggleThirdParty, Manager!unhideAllIssues
  <2> QED
    BY <1>2, <2>1, OtherHandlers, ResolverQuiet
<1>3. ASSUME UNCHANGED Manager!managerVars, UNCHANGED Manager!settingVars, storedCount' = storedCount
      PROVE  Shown' /\ SettingsType' /\ storedCount' \in 0..MaxStored
  <2>1. SettingsType'
    BY <1>3 DEF SettingsType, Manager!settingVars
  <2> QED
    BY <1>3, <2>1, ShownUnchanged
<1>4. ASSUME NEW c \in Calls, NEW id \in Ids, Manager!resolve(c, id)
      PROVE  IssuesInv' /\ AnswersStand
  <2>1. /\ Manager!waitFor(c, id, issuesById[id])
        /\ UNCHANGED Manager!managerVars /\ UNCHANGED Manager!settingVars
        /\ storedCount' = storedCount
    BY <1>4 DEF Manager!resolve
  <2>2. issuesById[id] \in Issues \cup {NoObject}
    BY DEF Shown, ShownType
  <2>3. issuesById[id] # NoObject => idOf[issuesById[id]] = id
    <3>1. issuesById[id] = Manager!LastWithId(id, allIssues, filteredIssues)
      BY DEF Shown, Manager!IdsLeadToShown
    <3> QED
      BY <3>1, LastIsOne DEF Shown, ShownType
  <2>4. Resolved' /\ AnswersStand
    BY <2>1, <2>2, <2>3, WaitFor
  <2> QED
    BY <1>3, <2>1, <2>4
<1>5. ASSUME Manager!clearResolver PROVE IssuesInv' /\ AnswersStand
  BY <1>3, <1>5, Clear DEF Manager!clearResolver
<1>6. ASSUME UNCHANGED Manager!vars PROVE IssuesInv' /\ AnswersStand
  BY <1>3, <1>6, ResolverQuiet DEF Manager!vars
<1> QED
  BY <1>1, <1>2, <1>4, <1>5, <1>6 DEF Manager!Next

LEMMA TargetsStep ==
  IssuesInv /\ [TargetsNext]_<<part, vars, issuesVars>> => IssuesInv' /\ AnswersStand
<1> SUFFICES ASSUME IssuesInv, [TargetsNext]_<<part, vars, issuesVars>>
             PROVE  [Manager!Next]_(Manager!vars)
  BY IssuesStep
<1>1. CASE UNCHANGED issuesVars
  BY <1>1 DEF issuesVars, Manager!vars, Manager!managerVars, Manager!settingVars,
              Manager!resolverVars
<1>2. CASE Manager!Next
  BY <1>2
<1> QED
  BY <1>1, <1>2 DEF TargetsNext

(* Whichever of issue, frame, scope and settings came first or changed     *)
(* last, the issues manager shows what its filter accepts now, and its     *)
(* counters, hidden flags and ids agree with it (IssuesManager.ts:268).    *)
THEOREM IssuesStayFresh == TargetsSpec => []IssuesAreFresh
<1>1. IssuesInv => IssuesAreFresh
  <2>1. IssuesInv => Manager!TypeOK
    BY DEF IssuesInv, Shown, ShownType, SettingsType, Resolved, Manager!TypeOK
  <2> QED
    BY <2>1 DEF IssuesInv, Shown, IssuesAreFresh
<1> QED
  BY <1>1, IssuesInit, TargetsStep, PTL DEF TargetsSpec

(* Whoever asks the resolver for an issue waits where the resolver hears   *)
(* of it, and what it gets is an issue of that id, once and for all        *)
(* (ResolverBase.ts:26).                                                   *)
THEOREM AnswersStayRight == TargetsSpec => ResolverAnswers
<1>1. IssuesInv => Manager!TypeOK /\ Manager!WaitersAreHeard
  BY DEF IssuesInv, Shown, ShownType, SettingsType, Resolved, Manager!TypeOK
<1>2. AnswersStand => [\A c \in Calls :
           /\ outcome[c] # "waits" => outcome'[c] = outcome[c]
           /\ outcome'[c] \in Issues => idOf[outcome'[c]] = askedFor'[c]]_(Manager!vars)
  BY DEF AnswersStand
<1> QED
  BY <1>1, <1>2, IssuesInit, TargetsStep, PTL
  DEF TargetsSpec, ResolverAnswers, Manager!AnswersAreRight
=============================================================================
