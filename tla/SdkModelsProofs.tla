-------------------------- MODULE SdkModelsProofs --------------------------
(***************************************************************************)
(* Proofs about the two components MCSdkModels checks, as parts of its     *)
(* specification.  For any targets, models and calls, the flags of targets *)
(* and target manager agree, and when calls that did not overlap have      *)
(* settled, the models are suspended or active as their targets.  The two  *)
(* maps of a source map manager stay inverse of each other, a disabled     *)
(* manager shows nothing, and the events of a client come in order,        *)
(* whatever loads settle late.                                             *)
(***************************************************************************)
EXTENDS MCSdkModels, FiniteSetTheorems, TLAPS

(* A step of the whole is a step of each part, or leaves it as it was.     *)
LEMMA Parts ==
  [SdkModelsNext]_<<part, vars, mapVars>> => [Next]_vars /\ [Maps!Next]_(Maps!vars)
  BY DEF SdkModelsNext, mapVars, vars, Maps!vars

(* How many client data a client may be given.                             *)
LEMMA MapsBound == MaxData \in Nat \ {0}
  BY MapsAssumption DEF Maps!MaxDataAssumption

-----------------------------------------------------------------------------
(* A call is suspending or resuming a target.                              *)
Suspending == {"preSuspend", "suspend"}

(* An agent that is created has nobody before it: what was not made yet is *)
(* as new.                                                                 *)
NewIsUntouched ==
  /\ \A t \in Targets : ordered[t] \subseteq models[t]
  /\ \A t \in Targets : t \notin born => models[t] = {}
  /\ \A t \in Targets : \A m \in Pollers : m \notin models[t] => suspensionState[t][m] = "Active"

(* Commands belong to calls that were made, which are past preSuspendModel.*)
CommandsArePast ==
  \A t \in Targets : \A x \in ToSet(commands[t]) :
    x.call <= calls /\ (x.call # Nobody => phase[x.call][t] # "preSuspend")

(* A call that was not made yet has begun nowhere.                         *)
CallsToCome == \A c \in Calls, t \in Targets : c > calls => phase[c][t] = "none"

(* Calls that do not overlap work towards what the target manager wants.   *)
CallsFit ==
  \A c \in Calls, t \in Targets :
    /\ phase[c][t] \in Suspending => isSuspended
    /\ phase[c][t] = "resume" => ~isSuspended

Waits(t, p) == \E c \in Calls : phase[c][t] = p

(* The agents of t were last told what its target is, or will be told by   *)
(* who waits for a poller.                                                 *)
OrdersFit ==
  \A t \in live :
    /\ ~isSuspended => ordered[t] = models[t] \cap Agents
    /\ isSuspended /\ ~Waits(t, "preSuspend") => ordered[t] = {}

(* An agent of an active target knows that it is enabled, or is told by an *)
(* answer to come.                                                         *)
Told(t, m) ==
  m \in isEnabled[t] \/ \E x \in ToSet(commands[t]) : x.enable /\ x.model = m
AgentsAreTold == \A t \in live : \A m \in models[t] \cap Agents : ~isSuspended => Told(t, m)

(* A poller of an active target is active, or waits for who resumes it.    *)
PollersFit ==
  \A t \in live : ~isSuspended /\ ~Waits(t, "resume") =>
    \A m \in models[t] \cap Pollers : suspensionState[t][m] = "Active"

SuspensionInv ==
  /\ TypeOK /\ FlagsAgree /\ NewIsUntouched /\ CommandsArePast /\ CallsToCome
  /\ ~overlapped => CallsFit /\ OrdersFit /\ AgentsAreTold /\ PollersFit

-----------------------------------------------------------------------------
(* A finite set as a sequence, and what sequences have as elements.       *)
LEMMA SequenceOfSet ==
  ASSUME NEW S, IsFiniteSet(S)
  PROVE  SetToSeq(S) \in Seq(S) /\ ToSet(SetToSeq(S)) = S
<1> DEFINE n == Cardinality(S)
           f == SetToSeq(S)
<1>1. n \in Nat /\ ExistsBijection(1..n, S)
  BY FS_CardinalityType
<1>2. PICK g \in Bijection(1..n, S) : TRUE
  BY <1>1 DEF ExistsBijection
<1>3. g \in [1..n -> S] /\ IsInjective(g)
  BY <1>2 DEF Bijection, Injection, IsInjective
<1>4. f \in [1..n -> S] /\ IsInjective(f)
  BY <1>3 DEF SetToSeq
<1>5. f \in Injection(1..n, S)
  BY <1>4 DEF Injection, IsInjective
<1>6. IsFiniteSet(1..n) /\ Cardinality(1..n) = n
  BY <1>1, FS_Interval
<1>7. f \in Surjection(1..n, S)
  BY <1>5, <1>6, FS_Injection
<1>8. f \in Seq(S) /\ DOMAIN f = 1..n
  BY <1>1, <1>4
<1> HIDE DEF f
<1>9. ToSet(f) = S
  BY <1>4, <1>7, <1>8 DEF Surjection, ToSet
<1> QED
  BY <1>8, <1>9 DEF f

LEMMA ToSetConcat ==
  ASSUME NEW S, NEW s \in Seq(S), NEW r \in Seq(S)
  PROVE  ToSet(s \o r) = ToSet(s) \cup ToSet(r)
<1>1. /\ Len(s) \in Nat /\ Len(r) \in Nat
      /\ DOMAIN s = 1..Len(s) /\ DOMAIN r = 1..Len(r) /\ DOMAIN (s \o r) = 1..(Len(s) + Len(r))
      /\ \A i \in 1..(Len(s) + Len(r)) :
           (s \o r)[i] = IF i <= Len(s) THEN s[i] ELSE r[i - Len(s)]
  OBVIOUS
<1>2. \A i \in DOMAIN s : i \in DOMAIN (s \o r) /\ (s \o r)[i] = s[i]
  BY <1>1
<1>3. \A i \in DOMAIN r : Len(s) + i \in DOMAIN (s \o r) /\ (s \o r)[Len(s) + i] = r[i]
  BY <1>1
<1>4. \A i \in DOMAIN (s \o r) :
        \/ i \in DOMAIN s /\ (s \o r)[i] = s[i]
        \/ i - Len(s) \in DOMAIN r /\ (s \o r)[i] = r[i - Len(s)]
  BY <1>1
<1>5. ToSet(s) \subseteq ToSet(s \o r) /\ ToSet(r) \subseteq ToSet(s \o r)
  BY <1>2, <1>3 DEF ToSet
<1>6. ASSUME NEW x \in ToSet(s \o r) PROVE x \in ToSet(s) \cup ToSet(r)
  <2>1. PICK i \in DOMAIN (s \o r) : (s \o r)[i] = x
    BY DEF ToSet
  <2> QED
    BY <1>4, <2>1 DEF ToSet
<1> QED
  BY <1>5, <1>6

LEMMA ToSetTail ==
  ASSUME NEW S, NEW s \in Seq(S), s # <<>>
  PROVE  /\ Head(s) \in S /\ Tail(s) \in Seq(S)
         /\ ToSet(s) = {Head(s)} \cup ToSet(Tail(s))
<1>1. /\ Len(s) \in Nat \ {0} /\ DOMAIN s = 1..Len(s) /\ Head(s) = s[1]
      /\ Tail(s) \in Seq(S) /\ DOMAIN Tail(s) = 1..(Len(s) - 1)
      /\ \A i \in 1..(Len(s) - 1) : Tail(s)[i] = s[i + 1]
  OBVIOUS
<1>2. 1 \in DOMAIN s /\ s[1] \in S
  BY <1>1
<1>3. \A i \in DOMAIN Tail(s) : i + 1 \in DOMAIN s /\ Tail(s)[i] = s[i + 1]
  BY <1>1
<1>4. \A i \in DOMAIN s : i # 1 => i - 1 \in DOMAIN Tail(s) /\ s[i] = Tail(s)[i - 1]
  BY <1>1
<1>5. {Head(s)} \cup ToSet(Tail(s)) \subseteq ToSet(s)
  BY <1>1, <1>2, <1>3 DEF ToSet
<1>6. ASSUME NEW x \in ToSet(s) PROVE x \in {Head(s)} \cup ToSet(Tail(s))
  <2>1. PICK i \in DOMAIN s : s[i] = x
    BY DEF ToSet
  <2> QED
    BY <1>1, <1>4, <2>1 DEF ToSet
<1> QED
  BY <1>1, <1>2, <1>5, <1>6

(* What is sent to the agents of a target: one command for each.           *)
LEMMA Sent ==
  ASSUME IsFiniteSet(Agents), NEW A \in SUBSET Agents, NEW c \in Calls \cup {Nobody},
         NEW enable \in BOOLEAN, NEW s \in Seq(Commands)
  PROVE  LET C == {[call |-> c, model |-> m, enable |-> enable] : m \in A}
             r == s \o SetToSeq(C)
         IN  r \in Seq(Commands) /\ ToSet(r) = ToSet(s) \cup C
<1> DEFINE C == {[call |-> c, model |-> m, enable |-> enable] : m \in A}
<1>1. IsFiniteSet(C)
  <2>1. [m \in A |-> [call |-> c, model |-> m, enable |-> enable]] \in Surjection(A, C)
    BY DEF Surjection
  <2>2. IsFiniteSet(A)
    BY FS_Subset
  <2> QED
    BY <2>1, <2>2, FS_Surjection
<1>2. C \in SUBSET Commands
  BY DEF Commands
<1> HIDE DEF C
<1>3. SetToSeq(C) \in Seq(C) /\ ToSet(SetToSeq(C)) = C
  BY <1>1, SequenceOfSet
<1>4. SetToSeq(C) \in Seq(Commands)
  BY <1>2, <1>3
<1>5. s \o SetToSeq(C) \in Seq(Commands)
      /\ ToSet(s \o SetToSeq(C)) = ToSet(s) \cup ToSet(SetToSeq(C))
  BY <1>4, ToSetConcat
<1> QED
  BY <1>3, <1>5 DEF C

(* suspendModel of the models of the targets T, as the invariant sees it.  *)
LEMMA ModelsSuspended ==
  ASSUME IsFiniteSet(Agents), TypeOK, NewIsUntouched, NEW c \in Calls, NEW T \in SUBSET Targets,
         SuspendModels(c, T)
  PROVE  /\ isEnabled' \in [Targets -> SUBSET Agents] /\ ordered' \in [Targets -> SUBSET Agents]
         /\ commands' \in [Targets -> Seq(Commands)]
         /\ \A t \in T : ordered'[t] = {}
         /\ \A t \in Targets \ T : UNCHANGED <<isEnabled[t], ordered[t], commands[t]>>
         /\ \A t \in Targets : \A x \in ToSet(commands'[t]) :
              x \in ToSet(commands[t]) \/ (t \in T /\ x.call = c)
<1>1. /\ isEnabled \in [Targets -> SUBSET Agents] /\ ordered \in [Targets -> SUBSET Agents]
      /\ commands \in [Targets -> Seq(Commands)] /\ models \in [Targets -> SUBSET Models]
      /\ \A t \in Targets : ordered[t] \subseteq models[t]
  BY DEF TypeOK, NewIsUntouched
<1>2. /\ isEnabled' = [t \in Targets |-> IF t \in T THEN isEnabled[t] \ models[t] ELSE isEnabled[t]]
      /\ ordered' = [t \in Targets |-> IF t \in T THEN ordered[t] \ models[t] ELSE ordered[t]]
      /\ commands' = [t \in Targets |->
           IF t \in T THEN commands[t] \o Send(c, t, FALSE) ELSE commands[t]]
  BY DEF SuspendModels
<1>3. ASSUME NEW t \in T
      PROVE  /\ commands'[t] \in Seq(Commands)
             /\ \A x \in ToSet(commands'[t]) : x \in ToSet(commands[t]) \/ x.call = c
  <2> DEFINE A == models[t] \cap Agents
             C == {[call |-> c, model |-> m, enable |-> FALSE] : m \in A}
  <2>1. A \in SUBSET Agents /\ commands[t] \in Seq(Commands) /\ c \in Calls \cup {Nobody} /\ FALSE \in BOOLEAN
    BY <1>1
  <2>2. commands'[t] = commands[t] \o SetToSeq(C)
    BY <1>2 DEF Send
  <2>3. commands[t] \o SetToSeq(C) \in Seq(Commands)
        /\ ToSet(commands[t] \o SetToSeq(C)) = ToSet(commands[t]) \cup C
    <3> HIDE DEF A
    <3> QED
      BY <2>1, Sent
  <2>4. \A x \in C : x.call = c
    OBVIOUS
  <2> QED
    BY <2>2, <2>3, <2>4
<1>4. \A t \in Targets \ T : commands'[t] = commands[t] /\ commands'[t] \in Seq(Commands)
  BY <1>1, <1>2
<1>5. commands' \in [Targets -> Seq(Commands)]
  BY <1>2, <1>3, <1>4
<1>6. \A t \in Targets : \A x \in ToSet(commands'[t]) :
        x \in ToSet(commands[t]) \/ (t \in T /\ x.call = c)
  BY <1>3, <1>4
<1>7. isEnabled' \in [Targets -> SUBSET Agents] /\ ordered' \in [Targets -> SUBSET Agents]
  BY <1>1, <1>2
<1>8. /\ \A t \in T : ordered'[t] = {}
      /\ \A t \in Targets \ T : isEnabled'[t] = isEnabled[t] /\ ordered'[t] = ordered[t]
  BY <1>1, <1>2
<1> QED
  BY <1>4, <1>5, <1>6, <1>7, <1>8

LEMMA CommandsTyped ==
  ASSUME TypeOK, NEW t \in Targets, NEW x \in ToSet(commands[t])
  PROVE  x \in Commands /\ x.call \in Calls \cup {Nobody}
<1>1. commands[t] \in Seq(Commands)
  BY DEF TypeOK
<1>2. PICK i \in 1..Len(commands[t]) : commands[t][i] = x
  BY <1>1 DEF ToSet
<1>3. x \in Commands
  BY <1>1, <1>2
<1> QED
  BY <1>3 DEF Commands

LEMMA SuspendAllTargets ==
  ASSUME IsFiniteSet(Agents), SuspensionInv, NEW slow \in [Targets -> SUBSET Pollers],
         suspendAllTargets(slow)
  PROVE  SuspensionInv'
<1> DEFINE c == calls + 1
           T == {t \in live : ~isSuspended /\ t \notin suspended}
           atOnce == {t \in T : slow[t] = {}}
           active(t) == {m \in models[t] \cap Pollers : suspensionState[t][m] = "Active"}
<1>1. /\ c \in Calls /\ calls \in Nat /\ live \subseteq Targets /\ T \subseteq Targets /\ atOnce \subseteq T
      /\ phase \in [Calls -> [Targets -> Phases]]
      /\ awaited \in [Calls -> [Targets -> SUBSET Models]]
      /\ models \in [Targets -> SUBSET Models]
      /\ suspensionState \in [Targets -> [Pollers -> {"Active", "Suspending", "Suspended"}]]
      /\ overlapped \in BOOLEAN /\ isSuspended \in BOOLEAN
  BY BoundAssumption DEF SuspensionInv, TypeOK, suspendAllTargets, Calls
<1>2. /\ overlapped' = (overlapped \/ ~Quiet)
      /\ \A t \in Targets : slow[t] \subseteq active(t) /\ (t \notin T => slow[t] = {})
      /\ isSuspended' = TRUE /\ suspended' = suspended \cup T /\ calls' = c
      /\ suspensionState' = [t \in Targets |-> [m \in Pollers |->
           IF t \in atOnce /\ m \in models[t] THEN "Suspended"
           ELSE IF t \in T /\ m \in active(t) THEN "Suspending"
           ELSE suspensionState[t][m]]]
      /\ phase' = [phase EXCEPT ![c] = [t \in Targets |->
           IF t \in atOnce THEN Begin("suspend", models[t] \cap Agents)
           ELSE IF t \in T THEN "preSuspend" ELSE "none"]]
      /\ awaited' = [awaited EXCEPT ![c] = [t \in Targets |->
           IF t \in atOnce THEN models[t] \cap Agents ELSE slow[t]]]
      /\ SuspendModels(c, atOnce)
      /\ UNCHANGED <<live, born, models>>
  BY DEF suspendAllTargets
<1> HIDE DEF c, T, atOnce
<1>3. /\ isEnabled' \in [Targets -> SUBSET Agents] /\ ordered' \in [Targets -> SUBSET Agents]
      /\ commands' \in [Targets -> Seq(Commands)]
      /\ \A t \in atOnce : ordered'[t] = {}
      /\ \A t \in Targets \ atOnce : UNCHANGED <<isEnabled[t], ordered[t], commands[t]>>
      /\ \A t \in Targets : \A x \in ToSet(commands'[t]) :
           x \in ToSet(commands[t]) \/ (t \in atOnce /\ x.call = c)
  BY <1>1, <1>2, ModelsSuspended DEF SuspensionInv
<1>4. \A t \in Targets :
        /\ phase'[c][t] = IF t \in atOnce THEN Begin("suspend", models[t] \cap Agents)
                          ELSE IF t \in T THEN "preSuspend" ELSE "none"
        /\ awaited'[c][t] = IF t \in atOnce THEN models[t] \cap Agents ELSE slow[t]
        /\ \A d \in Calls \ {c} : phase'[d][t] = phase[d][t] /\ awaited'[d][t] = awaited[d][t]
  BY <1>1, <1>2
<1>5. TypeOK'
  <2>1. phase' \in [Calls -> [Targets -> Phases]]
    BY <1>1, <1>2 DEF Phases, Begin
  <2>2. awaited' \in [Calls -> [Targets -> SUBSET Models]]
    BY <1>1, <1>2 DEF Models
  <2>3. suspensionState' \in [Targets -> [Pollers -> {"Active", "Suspending", "Suspended"}]]
    BY <1>1, <1>2
  <2>4. \A d \in Calls, t \in Targets : (phase'[d][t] \in {"none", "done"}) = (awaited'[d][t] = {})
    <3>1. \A t \in Targets : (phase'[c][t] \in {"none", "done"}) = (awaited'[c][t] = {})
      BY <1>1, <1>2, <1>4 DEF Begin, atOnce
    <3>2. \A d \in Calls \ {c}, t \in Targets :
            (phase'[d][t] \in {"none", "done"}) = (awaited'[d][t] = {})
      <4>1. \A d \in Calls, t \in Targets :
              (phase[d][t] \in {"none", "done"}) = (awaited[d][t] = {})
        BY DEF SuspensionInv, TypeOK
      <4> SUFFICES ASSUME NEW d \in Calls \ {c}, NEW t \in Targets
                   PROVE  (phase'[d][t] \in {"none", "done"}) = (awaited'[d][t] = {})
        OBVIOUS
      <4>2. phase'[d][t] = phase[d][t] /\ awaited'[d][t] = awaited[d][t]
        BY <1>4
      <4> QED
        BY <4>1, <4>2
    <3> QED
      BY <3>1, <3>2
  <2>5. live' \subseteq born' /\ born' \subseteq Targets /\ suspended' \subseteq born' /\ calls' \in 0..MaxCalls
    BY <1>1, <1>2 DEF SuspensionInv, TypeOK, T, c, Calls
  <2> QED
    BY <1>1, <1>2, <1>3, <2>1, <2>2, <2>3, <2>4, <2>5 DEF SuspensionInv, TypeOK
<1>6. FlagsAgree'
  BY <1>1, <1>2 DEF SuspensionInv, FlagsAgree, T
<1>7. NewIsUntouched'
  <2>1. \A t \in Targets : ordered'[t] \subseteq models'[t]
    BY <1>2, <1>3 DEF SuspensionInv, NewIsUntouched
  <2>2. \A t \in Targets : \A m \in Pollers : m \notin models[t] => suspensionState'[t][m] = "Active"
    BY <1>2 DEF SuspensionInv, NewIsUntouched
  <2> QED
    BY <1>2, <2>1, <2>2 DEF SuspensionInv, NewIsUntouched
<1>8. CommandsArePast'
  <2> SUFFICES ASSUME NEW t \in Targets, NEW x \in ToSet(commands'[t])
               PROVE  x.call <= calls' /\ (x.call # Nobody => phase'[x.call][t] # "preSuspend")
    BY DEF CommandsArePast
  <2>1. CASE x \in ToSet(commands[t])
    <3>1. x.call <= calls /\ (x.call # Nobody => phase[x.call][t] # "preSuspend")
      BY <2>1 DEF SuspensionInv, CommandsArePast
    <3>2. x.call \in Calls \cup {Nobody}
      BY <2>1, CommandsTyped DEF SuspensionInv
    <3>3. x.call # c
      BY <1>1, <3>1, <3>2 DEF c, Calls, Nobody
    <3> QED
      BY <1>1, <1>2, <1>4, <3>1, <3>2, <3>3 DEF c, Calls, Nobody
  <2>2. CASE t \in atOnce /\ x.call = c
    BY <1>1, <1>2, <1>4, <2>2 DEF Begin, c
  <2> QED
    BY <1>3, <2>1, <2>2
<1>9. ASSUME ~overlapped' PROVE CallsFit' /\ OrdersFit' /\ AgentsAreTold' /\ PollersFit'
  <2>1. ~overlapped /\ \A d \in Calls, t \in Targets : phase[d][t] \in {"none", "done"}
    BY <1>1, <1>2, <1>9 DEF Quiet, Settled
  <2>2. CallsFit'
    <3>1. \A d \in Calls, t \in Targets : phase'[d][t] # "resume"
      <4> SUFFICES ASSUME NEW d \in Calls, NEW t \in Targets PROVE phase'[d][t] # "resume"
        OBVIOUS
      <4>1. CASE d = c
        BY <1>4, <4>1 DEF Begin
      <4>2. CASE d # c
        BY <1>4, <2>1, <4>2
      <4> QED
        BY <4>1, <4>2
    <3> QED
      BY <1>2, <3>1 DEF CallsFit
  <2>3. OrdersFit'
    <3> SUFFICES ASSUME NEW t \in live, ~Waits(t, "preSuspend")' PROVE ordered'[t] = {}
      BY <1>2 DEF OrdersFit
    <3>1. t \in Targets /\ phase'[c][t] # "preSuspend"
      BY <1>1 DEF Waits
    <3>2. CASE t \in atOnce
      BY <1>3, <3>2
    <3>3. CASE t \notin atOnce
      <4>1. t \notin T
        BY <1>4, <3>1, <3>3
      <4>2. isSuspended
        BY <4>1 DEF T, SuspensionInv, FlagsAgree
      <4> QED
        BY <1>3, <2>1, <3>1, <3>3, <4>2 DEF SuspensionInv, OrdersFit, Waits
    <3> QED
      BY <3>2, <3>3
  <2> QED
    BY <1>2, <2>2, <2>3 DEF AgentsAreTold, PollersFit
<1>10. CallsToCome'
  <2> SUFFICES ASSUME NEW d \in Calls, NEW t \in Targets, d > calls' PROVE phase'[d][t] = "none"
    BY DEF CallsToCome
  <2>1. d # c /\ d > calls
    BY <1>1, <1>2 DEF c, Calls
  <2> QED
    BY <1>4, <2>1 DEF SuspensionInv, CallsToCome
<1> QED
  BY <1>5, <1>6, <1>7, <1>8, <1>9, <1>10 DEF SuspensionInv

LEMMA PreSuspended ==
  ASSUME IsFiniteSet(Agents), SuspensionInv, NEW c \in Calls, NEW t \in Targets, NEW m \in Pollers,
         preSuspended(c, t, m)
  PROVE  SuspensionInv'
<1> DEFINE rest == awaited[c][t] \ {m}
<1>1. /\ phase \in [Calls -> [Targets -> Phases]]
      /\ awaited \in [Calls -> [Targets -> SUBSET Models]]
      /\ models \in [Targets -> SUBSET Models]
      /\ suspensionState \in [Targets -> [Pollers -> {"Active", "Suspending", "Suspended"}]]
      /\ overlapped \in BOOLEAN /\ isSuspended \in BOOLEAN /\ calls \in Nat /\ calls \in 0..MaxCalls
      /\ live \subseteq Targets
  BY BoundAssumption DEF SuspensionInv, TypeOK
<1>6. \A d \in Calls, u \in Targets : (phase[d][u] \in {"none", "done"}) = (awaited[d][u] = {})
  BY DEF SuspensionInv, TypeOK
<1>2. /\ phase[c][t] = "preSuspend" /\ m \in awaited[c][t]
      /\ UNCHANGED <<isSuspended, live, born, suspended, models, calls, overlapped>>
  BY DEF preSuspended
<1>3. c <= calls
  BY <1>1, <1>2 DEF SuspensionInv, CallsToCome, Calls
<1>4. CASE rest # {}
  <2>1. /\ awaited' = [awaited EXCEPT ![c][t] = rest]
        /\ UNCHANGED <<phase, suspensionState, isEnabled, ordered, commands>>
    BY <1>4 DEF preSuspended
  <2>2. TypeOK'
    <3>1. awaited' \in [Calls -> [Targets -> SUBSET Models]]
      BY <1>1, <2>1
    <3>2. \A d \in Calls, u \in Targets : (phase'[d][u] \in {"none", "done"}) = (awaited'[d][u] = {})
      BY <1>1, <1>2, <1>4, <1>6, <2>1
    <3> QED
      BY <1>1, <1>2, <2>1, <3>1, <3>2 DEF SuspensionInv, TypeOK
  <2>3. FlagsAgree' /\ NewIsUntouched' /\ CommandsArePast' /\ CallsToCome'
    BY <1>2, <2>1 DEF SuspensionInv, FlagsAgree, NewIsUntouched, CommandsArePast, CallsToCome
  <2>4. ~overlapped' => CallsFit' /\ OrdersFit' /\ AgentsAreTold' /\ PollersFit'
    BY <1>2, <2>1 DEF SuspensionInv, CallsFit, OrdersFit, AgentsAreTold, Told, PollersFit, Waits
  <2> QED
    BY <2>2, <2>3, <2>4 DEF SuspensionInv
<1>5. CASE rest = {}
  <2>1. /\ awaited' = [awaited EXCEPT ![c][t] = models[t] \cap Agents]
        /\ phase' = [phase EXCEPT ![c][t] = Begin("suspend", models[t] \cap Agents)]
        /\ suspensionState' = [suspensionState EXCEPT ![t] =
             [p \in Pollers |-> IF p \in models[t] THEN "Suspended" ELSE suspensionState[t][p]]]
        /\ SuspendModels(c, {t})
    BY <1>5 DEF preSuspended
  <2>2. /\ isEnabled' \in [Targets -> SUBSET Agents] /\ ordered' \in [Targets -> SUBSET Agents]
        /\ commands' \in [Targets -> Seq(Commands)]
        /\ ordered'[t] = {}
        /\ \A u \in Targets \ {t} : UNCHANGED <<isEnabled[u], ordered[u], commands[u]>>
        /\ \A u \in Targets : \A x \in ToSet(commands'[u]) :
             x \in ToSet(commands[u]) \/ (u \in {t} /\ x.call = c)
    BY <2>1, ModelsSuspended DEF SuspensionInv
  <2>3. /\ phase'[c][t] = Begin("suspend", models[t] \cap Agents)
        /\ awaited'[c][t] = models[t] \cap Agents
        /\ \A d \in Calls, u \in Targets : d # c \/ u # t =>
             phase'[d][u] = phase[d][u] /\ awaited'[d][u] = awaited[d][u]
    BY <1>1, <2>1
  <2>4. TypeOK'
    <3>1. phase' \in [Calls -> [Targets -> Phases]]
      BY <1>1, <2>1 DEF Phases, Begin
    <3>2. awaited' \in [Calls -> [Targets -> SUBSET Models]]
      BY <1>1, <2>1
    <3>3. suspensionState' \in [Targets -> [Pollers -> {"Active", "Suspending", "Suspended"}]]
      BY <1>1, <2>1
    <3>4. \A d \in Calls, u \in Targets : (phase'[d][u] \in {"none", "done"}) = (awaited'[d][u] = {})
      <4> SUFFICES ASSUME NEW d \in Calls, NEW u \in Targets
                   PROVE  (phase'[d][u] \in {"none", "done"}) = (awaited'[d][u] = {})
        OBVIOUS
      <4>1. CASE d = c /\ u = t
        BY <2>3, <4>1 DEF Begin
      <4>2. CASE d # c \/ u # t
        BY <1>1, <1>6, <2>3, <4>2
      <4> QED
        BY <4>1, <4>2
    <3> QED
      BY <1>1, <1>2, <2>2, <3>1, <3>2, <3>3, <3>4 DEF SuspensionInv, TypeOK
  <2>5. FlagsAgree'
    BY <1>2 DEF SuspensionInv, FlagsAgree
  <2>6. NewIsUntouched'
    <3>1. \A u \in Targets : ordered'[u] \subseteq models'[u]
      BY <1>2, <2>2 DEF SuspensionInv, NewIsUntouched
    <3>2. \A u \in Targets : \A p \in Pollers : p \notin models[u] => suspensionState'[u][p] = "Active"
      BY <1>1, <2>1 DEF SuspensionInv, NewIsUntouched
    <3> QED
      BY <1>2, <3>1, <3>2 DEF SuspensionInv, NewIsUntouched
  <2>7. CommandsArePast'
    <3> SUFFICES ASSUME NEW u \in Targets, NEW x \in ToSet(commands'[u])
                 PROVE  x.call <= calls /\ (x.call # Nobody => phase'[x.call][u] # "preSuspend")
      BY <1>2 DEF CommandsArePast
    <3>1. CASE x \in ToSet(commands[u])
      <4>1. x.call <= calls /\ (x.call # Nobody => phase[x.call][u] # "preSuspend")
        BY <3>1 DEF SuspensionInv, CommandsArePast
      <4>2. x.call \in Calls \cup {Nobody}
        BY <3>1, CommandsTyped DEF SuspensionInv
      <4> QED
        BY <2>3, <4>1, <4>2 DEF Begin
    <3>2. CASE u = t /\ x.call = c
      BY <1>3, <2>3, <3>2 DEF Begin
    <3> QED
      BY <2>2, <3>1, <3>2
  <2>8. CallsToCome'
    <3> SUFFICES ASSUME NEW d \in Calls, NEW u \in Targets, d > calls PROVE phase'[d][u] = "none"
      BY <1>2 DEF CallsToCome
    <3>1. d # c
      BY <1>1, <1>3 DEF Calls
    <3> QED
      BY <2>3, <3>1 DEF SuspensionInv, CallsToCome
  <2>9. ASSUME ~overlapped' PROVE CallsFit' /\ OrdersFit' /\ AgentsAreTold' /\ PollersFit'
    <3>1. CallsFit /\ OrdersFit /\ isSuspended /\ isSuspended'
      BY <1>2, <2>9 DEF SuspensionInv, CallsFit, Suspending
    <3>2. CallsFit'
      <4> SUFFICES ASSUME NEW d \in Calls, NEW u \in Targets PROVE phase'[d][u] # "resume"
        BY <3>1 DEF CallsFit
      <4>1. CASE d = c /\ u = t
        BY <2>3, <4>1 DEF Begin
      <4>2. CASE d # c \/ u # t
        BY <2>3, <3>1, <4>2 DEF CallsFit
      <4> QED
        BY <4>1, <4>2
    <3>3. OrdersFit'
      <4> SUFFICES ASSUME NEW u \in live, ~Waits(u, "preSuspend")' PROVE ordered'[u] = {}
        BY <1>2, <3>1 DEF OrdersFit
      <4>1. CASE u = t
        BY <2>2, <4>1
      <4>2. CASE u # t
        <5>1. u \in Targets /\ ~Waits(u, "preSuspend")
          BY <1>1, <2>3, <4>2 DEF Waits
        <5> QED
          BY <2>2, <3>1, <4>2, <5>1 DEF OrdersFit
      <4> QED
        BY <4>1, <4>2
    <3> QED
      BY <3>1, <3>2, <3>3 DEF AgentsAreTold, PollersFit
  <2> QED
    BY <2>4, <2>5, <2>6, <2>7, <2>8, <2>9 DEF SuspensionInv
<1> QED
  BY <1>4, <1>5

LEMMA ResumeAllTargets ==
  ASSUME IsFiniteSet(Agents), SuspensionInv, resumeAllTargets
  PROVE  SuspensionInv'
<1> DEFINE c == calls + 1
           T == {t \in live : isSuspended /\ t \in suspended}
           atOnce == {t \in T : models[t] \cap Agents = {}}
<1>1. /\ c \in Calls /\ calls \in Nat /\ live \subseteq Targets /\ T \subseteq Targets /\ atOnce \subseteq T
      /\ phase \in [Calls -> [Targets -> Phases]]
      /\ awaited \in [Calls -> [Targets -> SUBSET Models]]
      /\ models \in [Targets -> SUBSET Models]
      /\ ordered \in [Targets -> SUBSET Agents] /\ isEnabled \in [Targets -> SUBSET Agents]
      /\ commands \in [Targets -> Seq(Commands)]
      /\ suspensionState \in [Targets -> [Pollers -> {"Active", "Suspending", "Suspended"}]]
      /\ overlapped \in BOOLEAN /\ isSuspended \in BOOLEAN
  BY BoundAssumption DEF SuspensionInv, TypeOK, resumeAllTargets, Calls
<1>12. \A d \in Calls, t \in Targets : (phase[d][t] \in {"none", "done"}) = (awaited[d][t] = {})
  BY DEF SuspensionInv, TypeOK
<1>2. /\ overlapped' = (overlapped \/ ~Quiet)
      /\ isSuspended' = FALSE /\ suspended' = suspended \ T /\ calls' = c
      /\ ordered' = [t \in Targets |->
           IF t \in T THEN ordered[t] \cup (models[t] \cap Agents) ELSE ordered[t]]
      /\ commands' = [t \in Targets |->
           IF t \in T THEN commands[t] \o Send(c, t, TRUE) ELSE commands[t]]
      /\ phase' = [phase EXCEPT ![c] = [t \in Targets |->
           IF t \in atOnce THEN "done" ELSE IF t \in T THEN "resume" ELSE "none"]]
      /\ awaited' = [awaited EXCEPT ![c] = [t \in Targets |->
           IF t \in T THEN models[t] \cap Agents ELSE {}]]
      /\ suspensionState' = [t \in Targets |->
           IF t \in atOnce THEN PostResumed(t) ELSE suspensionState[t]]
      /\ UNCHANGED <<live, born, models, isEnabled>>
  BY DEF resumeAllTargets
<1> DEFINE C(t) == {[call |-> c, model |-> m, enable |-> TRUE] : m \in models[t] \cap Agents}
<1>3. ASSUME NEW t \in T
      PROVE  commands'[t] \in Seq(Commands) /\ ToSet(commands'[t]) = ToSet(commands[t]) \cup C(t)
  <2> DEFINE A == models[t] \cap Agents
             D == {[call |-> c, model |-> m, enable |-> TRUE] : m \in A}
  <2>1. A \in SUBSET Agents /\ commands[t] \in Seq(Commands) /\ c \in Calls \cup {Nobody} /\ TRUE \in BOOLEAN
    BY <1>1
  <2>2. commands'[t] = commands[t] \o SetToSeq(D)
    BY <1>1, <1>2 DEF Send
  <2>3. commands[t] \o SetToSeq(D) \in Seq(Commands)
        /\ ToSet(commands[t] \o SetToSeq(D)) = ToSet(commands[t]) \cup D
    <3> HIDE DEF A, c
    <3> QED
      BY <2>1, Sent
  <2> QED
    BY <2>2, <2>3
<1> HIDE DEF c, T, atOnce
<1>4. \A t \in Targets \ T : commands'[t] = commands[t] /\ commands'[t] \in Seq(Commands)
  BY <1>1, <1>2
<1>5. \A t \in Targets :
        /\ phase'[c][t] = IF t \in atOnce THEN "done" ELSE IF t \in T THEN "resume" ELSE "none"
        /\ awaited'[c][t] = IF t \in T THEN models[t] \cap Agents ELSE {}
        /\ \A d \in Calls \ {c} : phase'[d][t] = phase[d][t] /\ awaited'[d][t] = awaited[d][t]
  BY <1>1, <1>2
<1>6. TypeOK'
  <2>1. phase' \in [Calls -> [Targets -> Phases]]
    BY <1>1, <1>2 DEF Phases
  <2>2. awaited' \in [Calls -> [Targets -> SUBSET Models]]
    BY <1>1, <1>2 DEF Models
  <2>3. suspensionState' \in [Targets -> [Pollers -> {"Active", "Suspending", "Suspended"}]]
    BY <1>1, <1>2 DEF PostResumed
  <2>4. commands' \in [Targets -> Seq(Commands)]
    <3>1. \A t \in Targets : commands'[t] \in Seq(Commands)
      BY <1>3, <1>4
    <3> QED
      BY <1>2, <3>1
  <2>5. ordered' \in [Targets -> SUBSET Agents]
    BY <1>1, <1>2
  <2>6. \A d \in Calls, t \in Targets : (phase'[d][t] \in {"none", "done"}) = (awaited'[d][t] = {})
    <3> SUFFICES ASSUME NEW d \in Calls, NEW t \in Targets
                 PROVE  (phase'[d][t] \in {"none", "done"}) = (awaited'[d][t] = {})
      OBVIOUS
    <3>1. CASE d = c
      <4>1. CASE t \in atOnce
        BY <1>1, <1>5, <3>1, <4>1 DEF atOnce
      <4>2. CASE t \in T \ atOnce
        <5>1. models[t] \cap Agents # {}
          BY <4>2 DEF atOnce
        <5>2. phase'[c][t] = "resume" /\ awaited'[c][t] = models[t] \cap Agents
          BY <1>5, <4>2
        <5> QED
          BY <3>1, <5>1, <5>2
      <4>3. CASE t \notin T
        BY <1>1, <1>5, <3>1, <4>3
      <4> QED
        BY <4>1, <4>2, <4>3
    <3>2. CASE d # c
      <4>1. phase'[d][t] = phase[d][t] /\ awaited'[d][t] = awaited[d][t]
        BY <1>5, <3>2
      <4> QED
        BY <1>12, <4>1
    <3> QED
      BY <3>1, <3>2
  <2>7. live' \subseteq born' /\ born' \subseteq Targets /\ suspended' \subseteq born' /\ calls' \in 0..MaxCalls
    BY <1>1, <1>2 DEF SuspensionInv, TypeOK, Calls
  <2> QED
    BY <1>1, <1>2, <2>1, <2>2, <2>3, <2>4, <2>5, <2>6, <2>7 DEF SuspensionInv, TypeOK
<1>7. FlagsAgree'
  <2>1. ASSUME NEW t \in live PROVE t \notin suspended'
    <3>1. (t \in suspended) = isSuspended
      BY DEF SuspensionInv, FlagsAgree
    <3> QED
      BY <1>2, <3>1 DEF T
  <2>2. live' = live /\ isSuspended' = FALSE
    BY <1>2
  <2>3. \A t \in live : (t \in suspended') = FALSE
    BY <2>1
  <2> QED
    BY <2>2, <2>3, Zenon DEF FlagsAgree
<1>8. NewIsUntouched'
  <2>1. \A t \in Targets : ordered'[t] \subseteq models'[t]
    BY <1>2 DEF SuspensionInv, NewIsUntouched
  <2>2. \A t \in Targets : \A m \in Pollers : m \notin models[t] => suspensionState'[t][m] = "Active"
    BY <1>2 DEF SuspensionInv, NewIsUntouched, PostResumed
  <2> QED
    BY <1>2, <2>1, <2>2 DEF SuspensionInv, NewIsUntouched
<1>9. CommandsArePast'
  <2> SUFFICES ASSUME NEW t \in Targets, NEW x \in ToSet(commands'[t])
               PROVE  x.call <= calls' /\ (x.call # Nobody => phase'[x.call][t] # "preSuspend")
    BY DEF CommandsArePast
  <2>1. CASE x \in ToSet(commands[t])
    <3>1. x.call <= calls /\ (x.call # Nobody => phase[x.call][t] # "preSuspend")
      BY <2>1 DEF SuspensionInv, CommandsArePast
    <3>2. x.call \in Calls \cup {Nobody}
      BY <2>1, CommandsTyped DEF SuspensionInv
    <3>3. x.call # c
      BY <1>1, <3>1, <3>2 DEF c, Calls, Nobody
    <3> QED
      BY <1>1, <1>2, <1>5, <3>1, <3>2, <3>3 DEF c, Calls, Nobody
  <2>2. CASE t \in T /\ x.call = c
    BY <1>1, <1>2, <1>5, <2>2 DEF c
  <2>3. \A y \in C(t) : y.call = c
    OBVIOUS
  <2> QED
    BY <1>3, <1>4, <2>1, <2>2, <2>3
<1>10. CallsToCome'
  <2> SUFFICES ASSUME NEW d \in Calls, NEW t \in Targets, d > calls' PROVE phase'[d][t] = "none"
    BY DEF CallsToCome
  <2>1. d # c /\ d > calls
    BY <1>1, <1>2 DEF c, Calls
  <2> QED
    BY <1>5, <2>1 DEF SuspensionInv, CallsToCome
<1>11. ASSUME ~overlapped' PROVE CallsFit' /\ OrdersFit' /\ AgentsAreTold' /\ PollersFit'
  <2>1. /\ ~overlapped /\ \A d \in Calls, t \in Targets : phase[d][t] \in {"none", "done"}
        /\ OrdersFit /\ AgentsAreTold /\ PollersFit
    BY <1>1, <1>2, <1>11 DEF Quiet, Settled, SuspensionInv
  <2>2. \A t \in live : t \notin T => ~isSuspended
    BY DEF SuspensionInv, FlagsAgree, T
  <2>3. CallsFit'
    <3> SUFFICES ASSUME NEW d \in Calls, NEW t \in Targets PROVE phase'[d][t] \notin Suspending
      BY <1>2 DEF CallsFit
    <3>1. CASE d = c
      BY <1>5, <3>1 DEF Suspending
    <3>2. CASE d # c
      BY <1>5, <2>1, <3>2 DEF Suspending
    <3> QED
      BY <3>1, <3>2
  <2>4. OrdersFit'
    <3> SUFFICES ASSUME NEW t \in live PROVE ordered'[t] = models[t] \cap Agents
      BY <1>2 DEF OrdersFit
    <3>1. CASE t \in T
      <4>1. isSuspended /\ ~Waits(t, "preSuspend")
        BY <1>1, <2>1, <3>1 DEF T, Waits
      <4>2. ordered[t] = {}
        BY <2>1, <4>1 DEF OrdersFit
      <4> QED
        BY <1>1, <1>2, <3>1, <4>2
    <3>2. CASE t \notin T
      BY <1>1, <1>2, <2>1, <2>2, <3>2 DEF OrdersFit
    <3> QED
      BY <3>1, <3>2
  <2>5. AgentsAreTold'
    <3> SUFFICES ASSUME NEW t \in live, NEW m \in models[t] \cap Agents PROVE Told(t, m)'
      BY <1>2 DEF AgentsAreTold
    <3>1. CASE t \in T
      <4>1. [call |-> c, model |-> m, enable |-> TRUE] \in ToSet(commands'[t])
        BY <1>3, <3>1
      <4> QED
        BY <4>1 DEF Told
    <3>2. CASE t \notin T
      <4>1. Told(t, m) /\ t \in Targets
        BY <1>1, <2>1, <2>2, <3>2 DEF AgentsAreTold
      <4>2. commands'[t] = commands[t] /\ isEnabled'[t] = isEnabled[t]
        BY <1>2, <1>4, <3>2, <4>1
      <4> QED
        BY <4>1, <4>2 DEF Told
    <3> QED
      BY <3>1, <3>2
  <2>6. PollersFit'
    <3> SUFFICES ASSUME NEW t \in live, ~Waits(t, "resume")', NEW m \in models[t] \cap Pollers
                 PROVE  suspensionState'[t][m] = "Active"
      BY <1>2 DEF PollersFit
    <3>1. t \in Targets /\ phase'[c][t] # "resume"
      BY <1>1 DEF Waits
    <3>2. CASE t \in atOnce
      BY <1>2, <3>1, <3>2 DEF PostResumed
    <3>3. CASE t \notin atOnce
      <4>1. t \notin T
        BY <1>5, <3>1, <3>3
      <4>2. ~Waits(t, "resume")
        BY <2>1, <3>1 DEF Waits
      <4> QED
        BY <1>2, <2>1, <2>2, <3>1, <3>3, <4>1, <4>2 DEF PollersFit
    <3> QED
      BY <3>2, <3>3
  <2> QED
    BY <2>3, <2>4, <2>5, <2>6
<1> QED
  BY <1>6, <1>7, <1>8, <1>9, <1>10, <1>11 DEF SuspensionInv

LEMMA Answered ==
  ASSUME IsFiniteSet(Agents), SuspensionInv, NEW t \in Targets, answered(t)
  PROVE  SuspensionInv'
<1> DEFINE command == Head(commands[t])
           c == command.call
           rest == awaited[c][t] \ {command.model}
<1>1. /\ phase \in [Calls -> [Targets -> Phases]]
      /\ awaited \in [Calls -> [Targets -> SUBSET Models]]
      /\ models \in [Targets -> SUBSET Models] /\ isEnabled \in [Targets -> SUBSET Agents]
      /\ commands \in [Targets -> Seq(Commands)]
      /\ suspensionState \in [Targets -> [Pollers -> {"Active", "Suspending", "Suspended"}]]
      /\ overlapped \in BOOLEAN /\ isSuspended \in BOOLEAN /\ live \subseteq Targets
  BY DEF SuspensionInv, TypeOK
<1>2. \A d \in Calls, u \in Targets : (phase[d][u] \in {"none", "done"}) = (awaited[d][u] = {})
  BY DEF SuspensionInv, TypeOK
<1>3. /\ commands[t] # <<>> /\ commands[t] \in Seq(Commands)
      /\ commands' = [commands EXCEPT ![t] = Tail(commands[t])]
      /\ isEnabled' = [isEnabled EXCEPT ![t] = flagAfter(t, command)]
      /\ IF c = Nobody
           THEN UNCHANGED <<awaited, phase, suspensionState>>
           ELSE /\ awaited' = [awaited EXCEPT ![c][t] = rest]
                /\ phase' = [phase EXCEPT ![c][t] = Begin(phase[c][t], rest)]
                /\ suspensionState' = [suspensionState EXCEPT ![t] =
                     IF rest = {} /\ phase[c][t] = "resume" THEN PostResumed(t) ELSE suspensionState[t]]
      /\ UNCHANGED <<isSuspended, live, born, suspended, models, ordered, calls, overlapped>>
  BY <1>1 DEF answered
<1>4. /\ command \in Commands /\ Tail(commands[t]) \in Seq(Commands)
      /\ ToSet(commands[t]) = {command} \cup ToSet(Tail(commands[t]))
  BY <1>3, ToSetTail
<1>5. c \in Calls \cup {Nobody} /\ command.model \in Agents
  BY <1>4 DEF Commands
<1>6. c # Nobody => phase[c][t] # "preSuspend"
  BY <1>4 DEF SuspensionInv, CommandsArePast
<1> HIDE DEF command, c, rest
<1>7. /\ commands' \in [Targets -> Seq(Commands)]
      /\ commands'[t] = Tail(commands[t])
      /\ \A u \in Targets \ {t} : commands'[u] = commands[u] /\ isEnabled'[u] = isEnabled[u]
      /\ isEnabled'[t] = flagAfter(t, command)
      /\ isEnabled' \in [Targets -> SUBSET Agents]
  BY <1>1, <1>3, <1>4, <1>5 DEF flagAfter
<1>8. \A d \in Calls, u \in Targets :
        \/ phase'[d][u] = phase[d][u] /\ awaited'[d][u] = awaited[d][u]
        \/ d = c /\ u = t /\ phase'[d][u] = phase[d][u] /\ awaited'[d][u] # {} /\ awaited[d][u] # {}
        \/ /\ d = c /\ u = t /\ phase'[d][u] = "done" /\ awaited'[d][u] = {}
           /\ phase[d][u] = "resume" => suspensionState' = [suspensionState EXCEPT ![t] = PostResumed(t)]
  BY <1>1, <1>3, <1>5 DEF Begin, rest
<1>9. \A d \in Calls, u \in Targets : phase'[d][u] = phase[d][u] \/ phase'[d][u] = "done"
  BY <1>8
<1>10. \A d \in Calls, u \in Targets : phase[d][u] = "preSuspend" => phase'[d][u] = "preSuspend"
  <2>1. ASSUME NEW d \in Calls, NEW u \in Targets, phase[d][u] = "preSuspend"
        PROVE  phase'[d][u] = "preSuspend"
    <3>1. ~(d = c /\ u = t)
      BY <1>5, <1>6, <2>1 DEF Calls, Nobody
    <3> QED
      BY <1>8, <2>1, <3>1
  <2> QED
    BY <2>1
<1>11. suspensionState' = suspensionState \/ suspensionState' = [suspensionState EXCEPT ![t] = PostResumed(t)]
  BY <1>1, <1>3
<1>12. TypeOK'
  <2>1. phase' \in [Calls -> [Targets -> Phases]]
    <3>1. CASE c = Nobody
      BY <1>1, <1>3, <3>1
    <3>2. CASE c # Nobody
      <4>1. phase[c][t] \in Phases /\ Begin(phase[c][t], rest) \in Phases /\ c \in Calls
        BY <1>1, <1>5, <3>2 DEF Begin, Phases
      <4>2. phase' = [phase EXCEPT ![c][t] = Begin(phase[c][t], rest)]
        BY <1>3, <3>2
      <4>3. phase \in [Calls -> [Targets -> Phases]]
        BY <1>1
      <4> QED
        BY <4>1, <4>2, <4>3
    <3> QED
      BY <3>1, <3>2
  <2>2. awaited' \in [Calls -> [Targets -> SUBSET Models]]
    <3>1. CASE c = Nobody
      BY <1>1, <1>3, <3>1
    <3>2. CASE c # Nobody
      <4>1. rest \in SUBSET Models /\ c \in Calls
        BY <1>1, <1>5, <3>2 DEF rest
      <4>2. awaited' = [awaited EXCEPT ![c][t] = rest]
        BY <1>3, <3>2
      <4>3. awaited \in [Calls -> [Targets -> SUBSET Models]]
        BY <1>1
      <4> QED
        BY <4>1, <4>2, <4>3
    <3> QED
      BY <3>1, <3>2
  <2>3. suspensionState' \in [Targets -> [Pollers -> {"Active", "Suspending", "Suspended"}]]
    BY <1>1, <1>11 DEF PostResumed
  <2>4. \A d \in Calls, u \in Targets : (phase'[d][u] \in {"none", "done"}) = (awaited'[d][u] = {})
    <3> SUFFICES ASSUME NEW d \in Calls, NEW u \in Targets
                 PROVE  (phase'[d][u] \in {"none", "done"}) = (awaited'[d][u] = {})
      OBVIOUS
    <3>1. (phase[d][u] \in {"none", "done"}) = (awaited[d][u] = {})
      BY <1>2
    <3>2. \/ phase'[d][u] = phase[d][u] /\ awaited'[d][u] = awaited[d][u]
          \/ phase'[d][u] = phase[d][u] /\ awaited'[d][u] # {} /\ awaited[d][u] # {}
          \/ phase'[d][u] = "done" /\ awaited'[d][u] = {}
      BY <1>8
    <3> QED
      BY <3>1, <3>2
  <2>5. /\ isSuspended' \in BOOLEAN /\ overlapped' \in BOOLEAN
        /\ live' \subseteq born' /\ born' \subseteq Targets /\ suspended' \subseteq born'
        /\ models' \in [Targets -> SUBSET Models] /\ ordered' \in [Targets -> SUBSET Agents]
        /\ calls' \in 0..MaxCalls
    BY <1>3 DEF SuspensionInv, TypeOK
  <2> QED
    BY <1>7, <2>1, <2>2, <2>3, <2>4, <2>5 DEF TypeOK
<1>13. FlagsAgree'
  BY <1>3 DEF SuspensionInv, FlagsAgree
<1>14. NewIsUntouched'
  <2>1. \A u \in Targets : \A m \in Pollers : m \notin models[u] => suspensionState'[u][m] = "Active"
    <3> SUFFICES ASSUME NEW u \in Targets, NEW m \in Pollers, m \notin models[u]
                 PROVE  suspensionState'[u][m] = "Active"
      OBVIOUS
    <3>1. suspensionState[u][m] = "Active"
      BY DEF SuspensionInv, NewIsUntouched
    <3>2. suspensionState'[u] = suspensionState[u] \/ suspensionState'[u] = PostResumed(u)
      BY <1>1, <1>11
    <3> QED
      BY <3>1, <3>2 DEF PostResumed
  <2> QED
    BY <1>3, <2>1 DEF SuspensionInv, NewIsUntouched
<1>15. \A u \in Targets : ToSet(commands'[u]) \subseteq ToSet(commands[u])
  BY <1>4, <1>7
<1>16. CommandsArePast'
  <2> SUFFICES ASSUME NEW u \in Targets, NEW x \in ToSet(commands[u])
               PROVE  x.call <= calls /\ (x.call # Nobody => phase'[x.call][u] # "preSuspend")
    BY <1>3, <1>15 DEF CommandsArePast
  <2>1. x.call <= calls /\ (x.call # Nobody => phase[x.call][u] # "preSuspend")
    BY DEF SuspensionInv, CommandsArePast
  <2>2. x.call \in Calls \cup {Nobody}
    BY CommandsTyped DEF SuspensionInv
  <2> QED
    BY <1>9, <2>1, <2>2
<1>17. CallsToCome'
  <2> SUFFICES ASSUME NEW d \in Calls, NEW u \in Targets, d > calls PROVE phase'[d][u] = "none"
    BY <1>3 DEF CallsToCome
  <2>1. phase[d][u] = "none"
    BY DEF SuspensionInv, CallsToCome
  <2>2. c <= calls
    BY <1>4 DEF SuspensionInv, CommandsArePast, c
  <2>3. d # c
    <3>1. calls \in Int /\ d \in Int
      BY BoundAssumption DEF SuspensionInv, TypeOK, Calls
    <3> QED
      BY <2>2, <3>1
  <2> QED
    BY <1>8, <2>1, <2>3
<1>18. ASSUME ~overlapped' PROVE CallsFit' /\ OrdersFit' /\ AgentsAreTold' /\ PollersFit'
  <2>1. CallsFit /\ OrdersFit /\ AgentsAreTold /\ PollersFit
    BY <1>3, <1>18 DEF SuspensionInv
  <2>2. CallsFit'
    BY <1>3, <1>9, <2>1 DEF CallsFit, Suspending
  <2>3. OrdersFit'
    <3>1. \A u \in live : Waits(u, "preSuspend") => Waits(u, "preSuspend")'
      BY <1>1, <1>10 DEF Waits
    <3> QED
      BY <1>3, <2>1, <3>1 DEF OrdersFit
  <2>4. AgentsAreTold'
    <3> SUFFICES ASSUME NEW u \in live, NEW m \in models[u] \cap Agents, ~isSuspended PROVE Told(u, m)'
      BY <1>3 DEF AgentsAreTold
    <3>1. u \in Targets /\ Told(u, m)
      BY <1>1, <2>1 DEF AgentsAreTold
    <3>2. CASE u # t
      BY <1>7, <3>1, <3>2 DEF Told
    <3>3. CASE u = t
      <4>1. isEnabled[t] \subseteq isEnabled'[t]
        BY <1>7 DEF flagAfter
      <4>2. CASE m \in isEnabled[t]
        BY <3>3, <4>1, <4>2 DEF Told
      <4>3. CASE m \notin isEnabled[t]
        <5>1. PICK x \in ToSet(commands[t]) : x.enable /\ x.model = m
          BY <3>1, <3>3, <4>3 DEF Told
        <5>2. CASE x = command
          BY <1>7, <3>3, <5>1, <5>2 DEF Told, flagAfter
        <5>3. CASE x \in ToSet(commands'[t])
          BY <3>3, <5>1, <5>3 DEF Told
        <5> QED
          BY <1>4, <1>7, <5>2, <5>3
      <4> QED
        BY <4>2, <4>3
    <3> QED
      BY <3>2, <3>3
  <2>5. PollersFit'
    <3> SUFFICES ASSUME NEW u \in live, ~isSuspended, ~Waits(u, "resume")', NEW m \in models[u] \cap Pollers
                 PROVE  suspensionState'[u][m] = "Active"
      BY <1>3 DEF PollersFit
    <3>1. u \in Targets /\ m \in models[u] /\ m \in Pollers
      BY <1>1
    <3>2. CASE u = t /\ suspensionState' = [suspensionState EXCEPT ![t] = PostResumed(t)]
      BY <1>1, <3>1, <3>2 DEF PostResumed
    <3>3. CASE ~Waits(u, "resume")
      <4>1. suspensionState[u][m] = "Active"
        BY <2>1, <3>3 DEF PollersFit
      <4> QED
        BY <1>1, <1>11, <3>1, <4>1 DEF PostResumed
    <3>4. CASE Waits(u, "resume")
      <4>1. PICK d \in Calls : phase[d][u] = "resume" /\ phase'[d][u] # "resume"
        BY <3>4 DEF Waits
      <4> QED
        BY <1>8, <3>1, <3>2, <4>1
    <3> QED
      BY <3>3, <3>4
  <2> QED
    BY <2>2, <2>3, <2>4, <2>5
<1> QED
  BY <1>12, <1>13, <1>14, <1>16, <1>17, <1>18 DEF SuspensionInv

(* Models are constructed with their target, or later for a live one.      *)
LEMMA Constructed ==
  ASSUME IsFiniteSet(Agents), SuspensionInv, NEW t \in Targets, NEW M \in SUBSET Models,
         M \cap models[t] = {}, Construct(t, M, isSuspended),
         live' = live \cup {t}, born' = born \cup {t}, t \notin live => t \notin born,
         suspended' = IF isSuspended THEN suspended \cup {t} ELSE suspended,
         UNCHANGED <<isSuspended, isEnabled, suspensionState, calls, phase, awaited, overlapped>>
  PROVE  SuspensionInv'
<1> DEFINE on == IF isSuspended THEN {} ELSE M \cap Agents
           C == {[call |-> Nobody, model |-> m, enable |-> TRUE] : m \in on}
<1>1. /\ models \in [Targets -> SUBSET Models] /\ ordered \in [Targets -> SUBSET Agents]
      /\ commands \in [Targets -> Seq(Commands)] /\ isSuspended \in BOOLEAN
      /\ live \subseteq born /\ born \subseteq Targets /\ suspended \subseteq born
  BY DEF SuspensionInv, TypeOK
<1>2. /\ models' = [models EXCEPT ![t] = models[t] \cup M]
      /\ ordered' = [ordered EXCEPT ![t] = ordered[t] \cup on]
      /\ commands' = [commands EXCEPT ![t] = commands[t] \o SetToSeq(C)]
  BY <1>1 DEF Construct
<1>3. commands'[t] \in Seq(Commands) /\ ToSet(commands'[t]) = ToSet(commands[t]) \cup C
  <2>1. on \in SUBSET Agents /\ commands[t] \in Seq(Commands)
        /\ Nobody \in Calls \cup {Nobody} /\ TRUE \in BOOLEAN
    BY <1>1
  <2>2. commands'[t] = commands[t] \o SetToSeq(C)
    BY <1>1, <1>2
  <2>3. commands[t] \o SetToSeq(C) \in Seq(Commands)
        /\ ToSet(commands[t] \o SetToSeq(C)) = ToSet(commands[t]) \cup C
    <3> HIDE DEF on
    <3> QED
      BY <2>1, Sent
  <2> QED
    BY <2>2, <2>3
<1>4. \A x \in C : x.call = Nobody
  OBVIOUS
<1>5. \A m \in on : [call |-> Nobody, model |-> m, enable |-> TRUE] \in C
  OBVIOUS
<1>6. on \subseteq M \cap Agents /\ (isSuspended => on = {}) /\ (~isSuspended => on = M \cap Agents)
  OBVIOUS
<1> HIDE DEF on, C
<1>7. /\ commands' \in [Targets -> Seq(Commands)]
      /\ models' \in [Targets -> SUBSET Models] /\ ordered' \in [Targets -> SUBSET Agents]
      /\ models'[t] = models[t] \cup M /\ ordered'[t] = ordered[t] \cup on
      /\ \A u \in Targets \ {t} :
           models'[u] = models[u] /\ ordered'[u] = ordered[u] /\ commands'[u] = commands[u]
  BY <1>1, <1>2, <1>3, <1>6
<1>8. TypeOK'
  <2>1. live' \subseteq born' /\ born' \subseteq Targets /\ suspended' \subseteq born'
    BY <1>1
  <2>2. \A c \in Calls, u \in Targets : (phase[c][u] \in {"none", "done"}) = (awaited[c][u] = {})
    BY DEF SuspensionInv, TypeOK
  <2>3. \A c \in Calls, u \in Targets : (phase'[c][u] \in {"none", "done"}) = (awaited'[c][u] = {})
    BY <2>2
  <2>4. /\ isSuspended' \in BOOLEAN /\ overlapped' \in BOOLEAN
        /\ isEnabled' \in [Targets -> SUBSET Agents]
        /\ suspensionState' \in [Targets -> [Pollers -> {"Active", "Suspending", "Suspended"}]]
        /\ calls' \in 0..MaxCalls
        /\ phase' \in [Calls -> [Targets -> Phases]]
        /\ awaited' \in [Calls -> [Targets -> SUBSET Models]]
    BY DEF SuspensionInv, TypeOK
  <2> QED
    BY <1>7, <2>1, <2>3, <2>4 DEF TypeOK
<1>9. FlagsAgree'
  <2> SUFFICES ASSUME NEW u \in live' PROVE (u \in suspended') = isSuspended
    BY DEF FlagsAgree
  <2>1. CASE u \in live
    <3>1. (u \in suspended) = isSuspended
      BY <2>1 DEF SuspensionInv, FlagsAgree
    <3> QED
      BY <1>1, <3>1
  <2>2. CASE u \notin live
    <3>1. u = t /\ t \notin suspended
      BY <1>1, <2>2
    <3> QED
      BY <1>1, <3>1
  <2> QED
    BY <2>1, <2>2
<1>10. NewIsUntouched'
  <2>1. \A u \in Targets : ordered'[u] \subseteq models'[u]
    BY <1>6, <1>7 DEF SuspensionInv, NewIsUntouched
  <2>2. \A u \in Targets : u \notin born' => models'[u] = {}
    BY <1>7 DEF SuspensionInv, NewIsUntouched
  <2>3. \A u \in Targets : \A m \in Pollers : m \notin models'[u] => suspensionState[u][m] = "Active"
    BY <1>7 DEF SuspensionInv, NewIsUntouched
  <2> QED
    BY <2>1, <2>2, <2>3 DEF NewIsUntouched
<1>11. CommandsArePast'
  <2> SUFFICES ASSUME NEW u \in Targets, NEW x \in ToSet(commands'[u])
               PROVE  x.call <= calls /\ (x.call # Nobody => phase[x.call][u] # "preSuspend")
    BY DEF CommandsArePast
  <2>1. CASE x \in ToSet(commands[u])
    BY <2>1 DEF SuspensionInv, CommandsArePast
  <2>2. CASE x \in C
    <3>1. calls >= 0
      BY BoundAssumption DEF SuspensionInv, TypeOK
    <3> QED
      BY <1>4, <2>2, <3>1 DEF Nobody
  <2> QED
    BY <1>3, <1>7, <2>1, <2>2
<1>12. CallsToCome'
  BY DEF SuspensionInv, CallsToCome
<1>13. ASSUME ~overlapped' PROVE CallsFit' /\ OrdersFit' /\ AgentsAreTold' /\ PollersFit'
  <2>1. CallsFit /\ OrdersFit /\ AgentsAreTold /\ PollersFit
    BY <1>13 DEF SuspensionInv
  <2>2. CallsFit'
    BY <2>1 DEF CallsFit
  <2>3. t \notin live => models[t] = {} /\ ordered[t] = {}
    BY DEF SuspensionInv, NewIsUntouched
  <2>4. OrdersFit'
    <3> SUFFICES ASSUME NEW u \in live'
                 PROVE  /\ ~isSuspended => ordered'[u] = models'[u] \cap Agents
                        /\ isSuspended /\ ~Waits(u, "preSuspend") => ordered'[u] = {}
      BY DEF OrdersFit, Waits
    <3>1. CASE u = t
      BY <1>6, <1>7, <2>1, <2>3, <3>1 DEF OrdersFit
    <3>2. CASE u # t
      BY <1>1, <1>7, <2>1, <3>2 DEF OrdersFit
    <3> QED
      BY <3>1, <3>2
  <2>5. AgentsAreTold'
    <3> SUFFICES ASSUME NEW u \in live', NEW m \in models'[u] \cap Agents, ~isSuspended
                 PROVE  Told(u, m)'
      BY DEF AgentsAreTold
    <3>1. u \in Targets
      BY <1>1
    <3>2. CASE m \in models[u]
      <4>1. Told(u, m)
        BY <2>1, <2>3, <3>2 DEF AgentsAreTold
      <4>2. ToSet(commands[u]) \subseteq ToSet(commands'[u])
        BY <1>3, <1>7, <3>1
      <4> QED
        BY <4>1, <4>2 DEF Told
    <3>3. CASE m \notin models[u]
      <4>1. u = t /\ m \in on
        BY <1>6, <1>7, <3>1, <3>3
      <4>2. [call |-> Nobody, model |-> m, enable |-> TRUE] \in ToSet(commands'[u])
        BY <1>3, <1>5, <4>1
      <4> QED
        BY <4>2 DEF Told
    <3> QED
      BY <3>2, <3>3
  <2>6. PollersFit'
    <3> SUFFICES ASSUME NEW u \in live', NEW m \in models'[u] \cap Pollers,
                        ~isSuspended, ~Waits(u, "resume")
                 PROVE  suspensionState[u][m] = "Active"
      BY DEF PollersFit, Waits
    <3>1. CASE m \in models[u]
      BY <2>1, <2>3, <3>1 DEF PollersFit
    <3>2. CASE m \notin models[u]
      BY <1>1, <3>2 DEF SuspensionInv, NewIsUntouched
    <3> QED
      BY <3>1, <3>2
  <2> QED
    BY <2>2, <2>4, <2>5, <2>6
<1> QED
  BY <1>8, <1>9, <1>10, <1>11, <1>12, <1>13 DEF SuspensionInv

LEMMA CreateTarget ==
  ASSUME IsFiniteSet(Agents), SuspensionInv, NEW t \in Targets, NEW M \in SUBSET Models, createTarget(t, M)
  PROVE  SuspensionInv'
<1>1. t \notin born /\ models[t] = {}
  BY DEF createTarget, SuspensionInv, NewIsUntouched
<1>2. /\ Construct(t, M, isSuspended)
      /\ live' = live \cup {t} /\ born' = born \cup {t}
      /\ suspended' = IF isSuspended THEN suspended \cup {t} ELSE suspended
      /\ UNCHANGED <<isSuspended, isEnabled, suspensionState, calls, phase, awaited, overlapped>>
  BY DEF createTarget
<1> QED
  BY <1>1, <1>2, Constructed

LEMMA ModelOnDemand ==
  ASSUME IsFiniteSet(Agents), SuspensionInv, NEW t \in Targets, NEW m \in Models, model(t, m)
  PROVE  SuspensionInv'
<1>1. /\ t \in live /\ m \notin models[t] /\ Construct(t, {m}, t \in suspended)
      /\ UNCHANGED <<isSuspended, live, born, suspended, isEnabled, suspensionState,
                     calls, phase, awaited, overlapped>>
  BY DEF model
<1>2. (t \in suspended) = isSuspended /\ t \in born
  BY <1>1 DEF SuspensionInv, TypeOK, FlagsAgree
<1>3. Construct(t, {m}, isSuspended)
  BY <1>1, <1>2 DEF Construct
<1>4. /\ {m} \in SUBSET Models /\ {m} \cap models[t] = {}
      /\ live' = live \cup {t} /\ born' = born \cup {t}
      /\ suspended' = IF isSuspended THEN suspended \cup {t} ELSE suspended
  BY <1>1, <1>2
<1> QED
  BY <1>1, <1>3, <1>4, Constructed

LEMMA RemoveTarget ==
  ASSUME SuspensionInv, NEW t \in Targets, removeTarget(t)
  PROVE  SuspensionInv'
<1>1. /\ live' = live \ {t}
      /\ UNCHANGED <<isSuspended, born, suspended, models, isEnabled, ordered,
                     suspensionState, commands, calls, phase, awaited, overlapped>>
  BY DEF removeTarget
<1>2. \A c \in Calls, u \in Targets : (phase'[c][u] \in {"none", "done"}) = (awaited'[c][u] = {})
  BY <1>1 DEF SuspensionInv, TypeOK
<1>3. TypeOK'
  BY <1>1, <1>2 DEF SuspensionInv, TypeOK
<1>4. FlagsAgree' /\ NewIsUntouched' /\ CommandsArePast' /\ CallsToCome'
  BY <1>1 DEF SuspensionInv, FlagsAgree, NewIsUntouched, CommandsArePast, CallsToCome
<1>5. ~overlapped' => CallsFit' /\ OrdersFit' /\ AgentsAreTold' /\ PollersFit'
  BY <1>1 DEF SuspensionInv, CallsFit, OrdersFit, AgentsAreTold, Told, PollersFit, Waits
<1> QED
  BY <1>3, <1>4, <1>5 DEF SuspensionInv

LEMMA SuspensionInit == Init => SuspensionInv
<1> SUFFICES ASSUME Init PROVE SuspensionInv
  OBVIOUS
<1>1. \A t \in Targets : commands[t] = <<>> /\ models[t] = {} /\ ordered[t] = {}
  BY DEF Init
<1>2. /\ phase = [c \in Calls |-> [t \in Targets |-> "none"]]
      /\ awaited = [c \in Calls |-> [t \in Targets |-> {}]]
  BY DEF Init
<1>3. \A c \in Calls, t \in Targets : phase[c][t] = "none" /\ awaited[c][t] = {}
  BY <1>2
<1>4. TypeOK
  <2>1. /\ phase \in [Calls -> [Targets -> Phases]]
        /\ awaited \in [Calls -> [Targets -> SUBSET Models]]
    BY <1>2 DEF Phases
  <2>2. \A c \in Calls, t \in Targets : (phase[c][t] \in {"none", "done"}) = (awaited[c][t] = {})
    BY <1>3
  <2>3. /\ models \in [Targets -> SUBSET Models] /\ isEnabled \in [Targets -> SUBSET Agents]
        /\ ordered \in [Targets -> SUBSET Agents]
    BY DEF Init
  <2>5. suspensionState \in [Targets -> [Pollers -> {"Active", "Suspending", "Suspended"}]]
    BY DEF Init
  <2>6. commands \in [Targets -> Seq(Commands)]
    <3>1. <<>> \in Seq(Commands)
      OBVIOUS
    <3> QED
      BY <3>1 DEF Init
  <2>4. /\ isSuspended \in BOOLEAN /\ overlapped \in BOOLEAN
        /\ live \subseteq born /\ born \subseteq Targets /\ suspended \subseteq born
    BY DEF Init
  <2>7. calls \in 0..MaxCalls
    <3>1. calls = 0
      BY DEF Init
    <3> QED
      BY <3>1, BoundAssumption
  <2> QED
    BY <2>1, <2>2, <2>3, <2>4, <2>5, <2>6, <2>7 DEF TypeOK
<1>5. CommandsArePast
  BY <1>1 DEF CommandsArePast, ToSet
<1>6. NewIsUntouched
  BY <1>1 DEF NewIsUntouched, Init
<1>7. FlagsAgree /\ OrdersFit /\ AgentsAreTold /\ PollersFit
  BY DEF Init, FlagsAgree, OrdersFit, AgentsAreTold, PollersFit
<1>8. CallsToCome /\ CallsFit
  BY <1>3 DEF CallsToCome, CallsFit, Suspending
<1> QED
  BY <1>4, <1>5, <1>6, <1>7, <1>8 DEF SuspensionInv

LEMMA SuspensionStep ==
  ASSUME IsFiniteSet(Agents) PROVE SuspensionInv /\ [Next]_vars => SuspensionInv'
<1> SUFFICES ASSUME SuspensionInv, [Next]_vars PROVE SuspensionInv'
  OBVIOUS
<1>1. ASSUME NEW slow \in [Targets -> SUBSET Pollers], suspendAllTargets(slow) PROVE SuspensionInv'
  BY <1>1, SuspendAllTargets
<1>2. CASE resumeAllTargets
  BY <1>2, ResumeAllTargets
<1>3. ASSUME NEW c \in Calls, NEW t \in Targets, NEW m \in Pollers, preSuspended(c, t, m) PROVE SuspensionInv'
  BY <1>3, PreSuspended
<1>4. ASSUME NEW t \in Targets, answered(t) PROVE SuspensionInv'
  BY <1>4, Answered
<1>5. ASSUME NEW t \in Targets, removeTarget(t) PROVE SuspensionInv'
  BY <1>5, RemoveTarget
<1>6. ASSUME NEW t \in Targets, NEW M \in SUBSET Models, createTarget(t, M) PROVE SuspensionInv'
  BY <1>6, CreateTarget
<1>7. ASSUME NEW t \in Targets, NEW m \in Models, model(t, m) PROVE SuspensionInv'
  BY <1>7, ModelOnDemand
<1>8. CASE UNCHANGED vars
  <2>1. UNCHANGED <<isSuspended, live, born, suspended, models, isEnabled, ordered,
                    suspensionState, commands, calls, phase, awaited, overlapped>>
    BY <1>8 DEF vars
  <2>2. \A c \in Calls, u \in Targets : (phase'[c][u] \in {"none", "done"}) = (awaited'[c][u] = {})
    BY <2>1 DEF SuspensionInv, TypeOK
  <2>3. TypeOK'
    BY <2>1, <2>2 DEF SuspensionInv, TypeOK
  <2>4. FlagsAgree' /\ NewIsUntouched' /\ CommandsArePast' /\ CallsToCome'
    BY <2>1 DEF SuspensionInv, FlagsAgree, NewIsUntouched, CommandsArePast, CallsToCome
  <2>5. ~overlapped' => CallsFit' /\ OrdersFit' /\ AgentsAreTold' /\ PollersFit'
    BY <2>1 DEF SuspensionInv, CallsFit, OrdersFit, AgentsAreTold, Told, PollersFit, Waits
  <2> QED
    BY <2>3, <2>4, <2>5 DEF SuspensionInv
<1> QED
  BY <1>1, <1>2, <1>3, <1>4, <1>5, <1>6, <1>7, <1>8 DEF Next

(* When everything has settled, the models are as the flags say.           *)
LEMMA SettledModelsFollow == SuspensionInv => ModelsFollow
<1> SUFFICES ASSUME SuspensionInv PROVE ModelsFollow
  OBVIOUS
<1>1. ASSUME Quiet, ~overlapped PROVE AgentsFollow /\ PollersResume
  <2>1. CallsFit /\ OrdersFit /\ AgentsAreTold /\ PollersFit
    BY <1>1 DEF SuspensionInv
  <2>2. \A t \in live : t \in Targets /\ ~Waits(t, "preSuspend") /\ ~Waits(t, "resume")
    BY <1>1 DEF Waits, Quiet, Settled, SuspensionInv, TypeOK
  <2>3. AgentsFollow
    <3> SUFFICES ASSUME NEW t \in live, commands[t] = <<>>
                 PROVE  LET on == IF isSuspended THEN {} ELSE models[t] \cap Agents
                        IN  ordered[t] = on /\ on \subseteq isEnabled[t]
      BY DEF AgentsFollow
    <3>1. ToSet(commands[t]) = {}
      BY DEF ToSet
    <3>2. CASE isSuspended
      BY <2>1, <2>2, <3>2 DEF OrdersFit
    <3>3. CASE ~isSuspended
      <4>1. ordered[t] = models[t] \cap Agents
        BY <2>1, <3>3 DEF OrdersFit
      <4>2. \A m \in models[t] \cap Agents : m \in isEnabled[t]
        BY <2>1, <3>1, <3>3 DEF AgentsAreTold, Told
      <4> QED
        BY <3>3, <4>1, <4>2
    <3> QED
      BY <3>2, <3>3
  <2>4. PollersResume
    BY <2>1, <2>2 DEF PollersFit, PollersResume
  <2> QED
    BY <2>3, <2>4
<1> QED
  BY <1>1 DEF SuspensionInv, ModelsFollow

-----------------------------------------------------------------------------
(* With any finite number of agents, the flags of the targets always agree *)
(* with the target manager's (TargetManager.ts:82 to 105), and when calls  *)
(* that did not overlap have settled, the agents and pollers of every      *)
(* target are suspended or active as it is (Target.ts:215 to 233).         *)
THEOREM ModelsAreAsTargets ==
  ASSUME IsFiniteSet(Agents)
  PROVE  SdkModelsSpec => []ModelsFollow
<1>1. Init => SuspensionInv
  BY SuspensionInit
<1>2. SuspensionInv /\ [Next]_vars => SuspensionInv'
  BY SuspensionStep
<1>3. SuspensionInv => ModelsFollow
  BY SettledModelsFollow
<1> QED
  BY <1>1, <1>2, <1>3, Parts, PTL DEF SdkModelsSpec, SdkModelsInit
-----------------------------------------------------------------------------
(* The part of the type that the proofs need.                              *)
MapsType ==
  /\ mapsEnabled \in BOOLEAN
  /\ clientData \in [Clients -> 0..MaxData]
  /\ made \in [Clients -> 0..MaxData]
  /\ loading \in [Clients -> SUBSET Maps!Data]
  /\ sourceMap \in [Clients -> BOOLEAN]

(* A clientData is one of those made for its client, and so is one whose   *)
(* load is under way: a new one is never taken for an old one.             *)
DataWereMade ==
  \A c \in Clients :
    /\ clientData[c] <= made[c]
    /\ \A n \in loading[c] : n <= made[c]
    /\ sourceMap[c] => clientData[c] # 0 /\ clientData[c] \notin loading[c]

(* The current clientData of a disabled manager have no load: those made   *)
(* before were dropped by setEnabled.                                      *)
DisabledLoadsNothing ==
  ~mapsEnabled => \A c \in Clients : ~sourceMap[c] /\ clientData[c] \notin loading[c]

MapsInv == MapsType /\ DataWereMade /\ DisabledLoadsNothing /\ Maps!MapsAreInverse

LEMMA ReattachInv ==
  ASSUME MapsInv, NEW D \in SUBSET Maps!Attached, NEW A \in SUBSET Clients,
         NEW enabled \in BOOLEAN, NEW U \in SUBSET Clients,
         Maps!Reattach(D, A, enabled, U),
         \A c \in A : c \in D \/ c \notin Maps!Attached,
         enabled # mapsEnabled => D = Maps!Attached /\ A = Maps!Attached
  PROVE  MapsInv'
<1> USE MapsBound
    DEF MapsInv, Maps!Reattach, Maps!Attached, Maps!Data, Maps!startsLoad, Maps!detachesEnabled
<1>1. MapsType'
  <2>1. \A c \in A : made[c] + 1 \in 0..MaxData /\ made[c] + 1 \in Maps!Data
    BY DEF MapsType
  <2>2. clientData' \in [Clients -> 0..MaxData] /\ made' \in [Clients -> 0..MaxData]
    BY <2>1 DEF MapsType
  <2>3. loading' \in [Clients -> SUBSET Maps!Data]
    BY <2>1 DEF MapsType
  <2>4. sourceMap' \in [Clients -> BOOLEAN]
    BY DEF MapsType
  <2> QED BY <2>2, <2>3, <2>4 DEF MapsType
<1>2. DataWereMade'
  <2> SUFFICES ASSUME NEW c \in Clients
               PROVE  /\ clientData'[c] <= made'[c]
                      /\ \A n \in loading'[c] : n <= made'[c]
                      /\ sourceMap'[c] => clientData'[c] # 0 /\ clientData'[c] \notin loading'[c]
    BY DEF DataWereMade
  <2>0. /\ made[c] \in Nat /\ clientData[c] \in Nat /\ loading[c] \subseteq Nat
        /\ clientData[c] <= made[c] /\ \A n \in loading[c] : n <= made[c]
        /\ sourceMap[c] => clientData[c] # 0 /\ clientData[c] \notin loading[c]
    BY DEF MapsType, DataWereMade
  <2>1. CASE c \in A
    <3>1. /\ made'[c] = made[c] + 1 /\ clientData'[c] = made[c] + 1 /\ ~sourceMap'[c]
          /\ loading'[c] \subseteq loading[c] \cup {made[c] + 1}
      BY <2>1
    <3> QED BY <2>0, <3>1
  <2>2. CASE c \notin A
    <3>1. /\ made'[c] = made[c] /\ loading'[c] = loading[c]
          /\ clientData'[c] = IF c \in D THEN 0 ELSE clientData[c]
          /\ sourceMap'[c] => sourceMap[c] /\ c \notin D
      BY <2>2
    <3> QED BY <2>0, <3>1
  <2> QED BY <2>1, <2>2
<1>3. DisabledLoadsNothing'
  <2> SUFFICES ASSUME ~enabled, NEW c \in Clients
               PROVE  ~sourceMap'[c] /\ clientData'[c] \notin loading'[c]
    BY DEF DisabledLoadsNothing
  <2>1. CASE c \in A
    BY <2>1 DEF MapsType, DataWereMade
  <2>2. CASE c \notin A /\ c \in D
    BY <2>2 DEF MapsType
  <2>3. CASE c \notin A /\ c \notin D /\ enabled = mapsEnabled
    BY <2>3 DEF MapsType, DisabledLoadsNothing
  <2>4. CASE c \notin A /\ c \notin D /\ enabled # mapsEnabled
    BY <2>4 DEF MapsType, DataWereMade
  <2> QED BY <2>1, <2>2, <2>3, <2>4
<1>4. Maps!MapsAreInverse'
  <2>1. CASE mapsEnabled
    <3>1. \A c \in Clients : sourceMap'[c] <=> sourceMap[c] /\ c \notin D
      BY DEF DataWereMade, MapsType
    <3>2. \A c \in Clients : sourceMap'[c] => clientData'[c] = clientData[c]
      BY <3>1 DEF MapsType
    <3>3. sourceMaps' = {m \in sourceMaps : ~(m[1] \in D /\ m[2] = clientData[m[1]])}
      BY <2>1
    <3> HIDE DEF Maps!Reattach
    <3>4. \A c \in Clients : sourceMap[c] => clientData[c] # 0
      BY DEF DataWereMade
    <3>5. sourceMaps = {<<c, clientData[c]>> : c \in {d \in Clients : sourceMap[d]}}
      BY <3>4 DEF Maps!MapsAreInverse
    <3>6. sourceMaps' = {<<c, clientData'[c]>> : c \in {d \in Clients : sourceMap'[d]}}
      BY <3>1, <3>2, <3>3, <3>5
    <3> QED BY <3>1, <3>2, <3>4, <3>6 DEF Maps!MapsAreInverse
  <2>2. CASE ~mapsEnabled
    BY <2>2 DEF Maps!MapsAreInverse, DisabledLoadsNothing, MapsType
  <2> QED BY <2>1, <2>2 DEF MapsType
<1> QED BY <1>1, <1>2, <1>3, <1>4

LEMMA LoadSettlesInv ==
  ASSUME MapsInv, NEW c \in Clients, NEW n \in Maps!Data, NEW ok \in BOOLEAN, Maps!loadSettles(c, n, ok)
  PROVE  MapsInv'
<1> USE MapsBound DEF MapsInv, Maps!loadSettles, Maps!isCurrent, Maps!Data
<1>1. MapsType'
  BY DEF MapsType
<1>2. DataWereMade' /\ DisabledLoadsNothing'
  BY DEF MapsType, DataWereMade, DisabledLoadsNothing
<1>3. Maps!MapsAreInverse'
  <2>1. CASE clientData[c] = n
    <3>1. ~sourceMap[c] /\ n # 0
      BY <2>1 DEF DataWereMade
    <3>2. sourceMap' = [sourceMap EXCEPT ![c] = ok]
      BY <2>1
    <3>3. sourceMaps' = sourceMaps \cup (IF ok THEN {<<c, n>>} ELSE {})
      BY <2>1
    <3> QED BY <2>1, <3>1, <3>2, <3>3 DEF Maps!MapsAreInverse, Maps!Attached, MapsType
  <2>2. CASE clientData[c] # n
    BY <2>2 DEF Maps!MapsAreInverse, Maps!Attached
  <2> QED BY <2>1, <2>2
<1> QED BY <1>1, <1>2, <1>3

LEMMA ConstructorThrowsInv ==
  ASSUME MapsInv, NEW c \in Clients, NEW n \in Maps!Data, Maps!constructorThrows(c, n)
  PROVE  MapsInv'
<1> USE MapsBound DEF MapsInv, Maps!constructorThrows, Maps!Data
<1>1. MapsType'
  BY DEF MapsType
<1>2. DataWereMade' /\ DisabledLoadsNothing'
  BY DEF MapsType, DataWereMade, DisabledLoadsNothing
<1>3. Maps!MapsAreInverse'
  BY DEF Maps!MapsAreInverse, Maps!Attached
<1> QED BY <1>1, <1>2, <1>3

LEMMA MapsStep == MapsInv /\ [Maps!Next]_(Maps!vars) => MapsInv'
<1> SUFFICES ASSUME MapsInv, [Maps!Next]_(Maps!vars) PROVE MapsInv'
  OBVIOUS
<1>0. Maps!Attached \subseteq Clients /\ mapsEnabled \in BOOLEAN
  BY DEF Maps!Attached, MapsInv, MapsType
<1>1. ASSUME NEW c \in Clients, NEW U \in SUBSET Clients, Maps!attachSourceMap(c, U) PROVE MapsInv'
  BY <1>0, <1>1, ReattachInv DEF Maps!attachSourceMap
<1>2. ASSUME NEW c \in Clients, Maps!detachSourceMap(c) PROVE MapsInv'
  BY <1>0, <1>2, ReattachInv DEF Maps!detachSourceMap
<1>3. ASSUME NEW enabled \in BOOLEAN, NEW U \in SUBSET Clients, Maps!setEnabled(enabled, U)
      PROVE  MapsInv'
  BY <1>0, <1>3, ReattachInv DEF Maps!setEnabled
<1>4. ASSUME NEW U \in SUBSET Clients, Maps!inspectedURLChanged(U) PROVE MapsInv'
  BY <1>0, <1>4, ReattachInv DEF Maps!inspectedURLChanged
<1>5. ASSUME NEW c \in Clients, NEW n \in Maps!Data, NEW ok \in BOOLEAN, Maps!loadSettles(c, n, ok)
      PROVE  MapsInv'
  BY <1>5, LoadSettlesInv
<1>7. ASSUME NEW c \in Clients, NEW n \in Maps!Data, Maps!constructorThrows(c, n) PROVE MapsInv'
  BY <1>7, ConstructorThrowsInv
<1>6. CASE Maps!dispose \/ UNCHANGED Maps!vars
  BY <1>6 DEF Maps!dispose, Maps!vars, MapsInv, MapsType, DataWereMade, DisabledLoadsNothing,
     Maps!MapsAreInverse, Maps!Attached
<1> QED BY <1>1, <1>2, <1>3, <1>4, <1>5, <1>6, <1>7 DEF Maps!Next

LEMMA MapsInit == Maps!Init => MapsInv
  BY MapsBound DEF Maps!Init, MapsInv, MapsType, DataWereMade, DisabledLoadsNothing,
     Maps!MapsAreInverse, Maps!Attached, Maps!Data

(* sourceMapForClient and clientForSourceMap are inverse of each other.    *)
THEOREM MapsStayInverse == SdkModelsSpec => []MapsAreInverse
<1>1. MapsInv => MapsAreInverse
  BY DEF MapsInv, MapsAreInverse
<1> QED BY MapsInit, MapsStep, <1>1, Parts, PTL DEF SdkModelsSpec, SdkModelsInit

(* No load makes a map visible while the manager is disabled.              *)
THEOREM DisabledStaysEmpty == SdkModelsSpec => []DisabledHidesMaps
<1>1. MapsInv => DisabledHidesMaps
  BY DEF MapsInv, Maps!MapsAreInverse, DisabledLoadsNothing, DisabledHidesMaps,
     Maps!DisabledHidesMaps, Maps!Attached
<1> QED BY MapsInit, MapsStep, <1>1, Parts, PTL DEF SdkModelsSpec, SdkModelsInit
-----------------------------------------------------------------------------
(* A sequence of events of one client that is in order, the way            *)
(* EventsAlternate says; and may event e be the next?                      *)
Alternates(s) ==
  \A i \in 1..Len(s) :
    IF i = 1 THEN s[i] \in {"SourceMapWillAttach", "SourceMapFailedToAttach"}
    ELSE /\ s[i - 1] \in Maps!After(s[i])
         /\ ~(s[i - 1] = "SourceMapWillAttach" /\ s[i] = "SourceMapWillAttach")

MayFollow(s, e) ==
  IF s = <<>> THEN e \in {"SourceMapWillAttach", "SourceMapFailedToAttach"}
  ELSE /\ s[Len(s)] \in Maps!After(e)
       /\ ~(s[Len(s)] = "SourceMapWillAttach" /\ e = "SourceMapWillAttach")

(* Nothing is announced, or what was is concluded.                         *)
Resting(s) == s = <<>> \/ s[Len(s)] \in {"SourceMapFailedToAttach", "SourceMapDetached"}

(* The last event of a client tells the state of its map: attached, under  *)
(* way or broken for an enabled manager, or neither.                       *)
LastTells ==
  \A c \in Clients :
    IF sourceMap[c] THEN events[c] # <<>> /\ events[c][Len(events[c])] = "SourceMapAttached"
    ELSE IF mapsEnabled /\ clientData[c] # 0 /\ (clientData[c] \in loading[c] \/ rejected[c])
      THEN events[c] # <<>> /\ events[c][Len(events[c])] = "SourceMapWillAttach"
      ELSE Resting(events[c])

(* A client with a broken payload has no load and no map.                  *)
Rejections ==
  /\ rejected \in [Clients -> BOOLEAN]
  /\ \A c \in Clients : rejected[c] =>
       mapsEnabled /\ clientData[c] # 0 /\ ~sourceMap[c] /\ clientData[c] \notin loading[c]

EventsInv ==
  /\ listening \in BOOLEAN
  /\ sourceMaps \subseteq Clients \X Maps!Data
  /\ events \in [Clients -> Seq(Maps!EventNames)]
  /\ \A c \in Clients : Alternates(events[c])
  /\ LastTells
  /\ Rejections

LEMMA Extended ==
  ASSUME NEW s \in Seq(Maps!EventNames), NEW e \in Maps!EventNames, Alternates(s), MayFollow(s, e)
  PROVE  /\ s \o <<e>> \in Seq(Maps!EventNames) /\ s \o <<e>> # <<>>
         /\ (s \o <<e>>)[Len(s \o <<e>>)] = e
         /\ Alternates(s \o <<e>>)
<1> DEFINE t == s \o <<e>>
<1>1. /\ t \in Seq(Maps!EventNames) /\ Len(t) = Len(s) + 1 /\ Len(s) \in Nat
      /\ t[Len(s) + 1] = e /\ \A i \in 1..Len(s) : t[i] = s[i]
      /\ (s = <<>> => Len(s) = 0) /\ (s # <<>> => Len(s) > 0)
  OBVIOUS
<1> HIDE DEF t
<1>2. t # <<>> /\ t[Len(t)] = e
  BY <1>1
<1>3. Alternates(t)
  <2> SUFFICES ASSUME NEW i \in 1..Len(t)
               PROVE  IF i = 1 THEN t[i] \in {"SourceMapWillAttach", "SourceMapFailedToAttach"}
                      ELSE /\ t[i - 1] \in Maps!After(t[i])
                           /\ ~(t[i - 1] = "SourceMapWillAttach" /\ t[i] = "SourceMapWillAttach")
    BY DEF Alternates
  <2>1. CASE i \in 1..Len(s)
    <3>1. t[i] = s[i] /\ (i # 1 => t[i - 1] = s[i - 1])
      BY <1>1, <2>1
    <3> QED
      BY <2>1, <3>1 DEF Alternates
  <2>2. CASE i = Len(s) + 1
    <3>1. CASE s = <<>>
      BY <1>1, <2>2, <3>1 DEF MayFollow
    <3>2. CASE s # <<>>
      <4>1. t[i] = e /\ i # 1 /\ t[i - 1] = s[Len(s)]
        BY <1>1, <2>2, <3>2
      <4> QED
        BY <3>2, <4>1 DEF MayFollow
    <3> QED
      BY <3>1, <3>2
  <2> QED
    BY <1>1, <2>1, <2>2
<1> QED
  BY <1>1, <1>2, <1>3 DEF t

(* What a detach dispatches may follow, and leaves nothing announced.      *)
LEMMA DetachEventsFollow ==
  ASSUME MapsInv, EventsInv, NEW c \in Clients, NEW s, s = events[c] \o Maps!detachEvents(c)
  PROVE  s \in Seq(Maps!EventNames) /\ Alternates(s) /\ Resting(s)
<1>1. events[c] \in Seq(Maps!EventNames) /\ Alternates(events[c])
  BY DEF EventsInv
<1>2. CASE clientData[c] = 0 \/ ~mapsEnabled
  <2>1. Maps!detachEvents(c) = <<>>
    BY <1>2 DEF Maps!detachEvents
  <2>2. s = events[c]
    BY <1>1, <2>1
  <2>3. ~sourceMap[c]
    BY <1>2 DEF MapsInv, DataWereMade, DisabledLoadsNothing
  <2> QED
    BY <1>1, <1>2, <2>2, <2>3 DEF EventsInv, LastTells
<1>3. CASE clientData[c] # 0 /\ mapsEnabled /\ sourceMap[c]
  <2>1. s = events[c] \o <<"SourceMapDetached">>
    BY <1>3 DEF Maps!detachEvents
  <2>2. MayFollow(events[c], "SourceMapDetached")
    BY <1>3 DEF EventsInv, LastTells, MayFollow, Maps!After, Maps!EventNames
  <2> QED
    BY <1>1, <2>1, <2>2, Extended DEF Maps!EventNames, Resting
<1>4. CASE clientData[c] # 0 /\ mapsEnabled /\ ~sourceMap[c]
  <2>1. s = events[c] \o <<"SourceMapFailedToAttach">>
    BY <1>4 DEF Maps!detachEvents
  <2>2. MayFollow(events[c], "SourceMapFailedToAttach")
    BY <1>4 DEF EventsInv, LastTells, MayFollow, Maps!After, Maps!EventNames, Resting
  <2> QED
    BY <1>1, <2>1, <2>2, Extended DEF Maps!EventNames, Resting
<1> QED
  BY <1>2, <1>3, <1>4

LEMMA ReattachEvents ==
  ASSUME MapsInv, EventsInv, NEW D \in SUBSET Maps!Attached, NEW A \in SUBSET Clients,
         NEW enabled \in BOOLEAN, NEW U \in SUBSET Clients,
         Maps!Reattach(D, A, enabled, U),
         \A c \in A : c \in D \/ c \notin Maps!Attached,
         enabled # mapsEnabled => D = Maps!Attached /\ A = Maps!Attached
  PROVE  EventsInv'
<1> DEFINE loads == Maps!startsLoad(A, U, enabled)
           detached(c) == events[c] \o (IF c \in D THEN Maps!detachEvents(c) ELSE <<>>)
           announced(c) == detached(c) \o (IF c \in loads THEN <<"SourceMapWillAttach">> ELSE <<>>)
<1>1. /\ clientData' = [c \in Clients |->
           IF c \in A THEN made[c] + 1 ELSE IF c \in D THEN 0 ELSE clientData[c]]
      /\ loading' = [c \in Clients |->
           loading[c] \cup (IF c \in loads THEN {made[c] + 1} ELSE {})]
      /\ sourceMap' = [c \in Clients |-> sourceMap[c] /\ c \notin D \cup A]
      /\ rejected' = [c \in Clients |-> rejected[c] /\ c \notin D \cup A]
      /\ sourceMaps' \subseteq sourceMaps
      /\ events' = [c \in Clients |-> announced(c)]
      /\ mapsEnabled' = enabled /\ listening' = listening
  BY DEF Maps!Reattach
<1>2. loads \subseteq A /\ (~enabled => loads = {})
  BY DEF Maps!startsLoad
<1> HIDE DEF loads
<1>3. \A c \in Clients : events[c] \in Seq(Maps!EventNames) /\ Alternates(events[c])
  BY DEF EventsInv
<1>4. ASSUME NEW c \in Clients
      PROVE  /\ detached(c) \in Seq(Maps!EventNames) /\ Alternates(detached(c))
             /\ c \in D \cup A => Resting(detached(c))
             /\ c \notin D => detached(c) = events[c]
  <2>1. CASE c \in D
    BY <2>1, DetachEventsFollow
  <2>2. CASE c \notin D
    <3>1. detached(c) = events[c]
      BY <1>3, <2>2
    <3>2. c \in A => clientData[c] = 0 /\ ~sourceMap[c]
      BY <2>2 DEF Maps!Attached, MapsInv, DataWereMade
    <3>3. c \in A => Resting(events[c])
      BY <3>2 DEF EventsInv, LastTells
    <3> QED
      BY <1>3, <2>2, <3>1, <3>3
  <2> QED
    BY <2>1, <2>2
<1> HIDE DEF detached
<1>5. ASSUME NEW c \in Clients
      PROVE  /\ announced(c) \in Seq(Maps!EventNames) /\ Alternates(announced(c))
             /\ c \in loads => /\ announced(c) # <<>>
                               /\ announced(c)[Len(announced(c))] = "SourceMapWillAttach"
             /\ c \notin loads => announced(c) = detached(c)
  <2>1. CASE c \in loads
    <3>1. MayFollow(detached(c), "SourceMapWillAttach")
      BY <1>2, <1>4, <2>1 DEF Resting, MayFollow, Maps!After, Maps!EventNames
    <3>2. announced(c) = detached(c) \o <<"SourceMapWillAttach">>
      BY <2>1
    <3> QED
      BY <1>4, <2>1, <3>1, <3>2, Extended DEF Maps!EventNames
  <2>2. CASE c \notin loads
    BY <1>4, <2>2
  <2> QED
    BY <2>1, <2>2
<1> HIDE DEF announced
<1>6. events' \in [Clients -> Seq(Maps!EventNames)] /\ \A c \in Clients : Alternates(events'[c])
  BY <1>1, <1>5
<1>7. ASSUME NEW c \in Clients
      PROVE  IF sourceMap'[c]
               THEN events'[c] # <<>> /\ events'[c][Len(events'[c])] = "SourceMapAttached"
               ELSE IF mapsEnabled' /\ clientData'[c] # 0 /\ (clientData'[c] \in loading'[c] \/ rejected'[c])
                 THEN events'[c] # <<>> /\ events'[c][Len(events'[c])] = "SourceMapWillAttach"
                 ELSE Resting(events'[c])
  <2>1. events'[c] = announced(c) /\ made[c] \in Nat /\ clientData[c] \in Nat
    BY <1>1 DEF MapsInv, MapsType
  <2>2. /\ clientData[c] <= made[c] /\ \A n \in loading[c] : n <= made[c]
        /\ sourceMap[c] => clientData[c] # 0 /\ clientData[c] \notin loading[c]
    BY DEF MapsInv, DataWereMade
  <2>3. CASE c \in loads
    <3>1. /\ ~sourceMap'[c] /\ mapsEnabled' /\ clientData'[c] = made[c] + 1
          /\ loading'[c] = loading[c] \cup {made[c] + 1}
      BY <1>1, <1>2, <2>3
    <3> QED
      BY <1>5, <2>1, <2>3, <3>1
  <2>4. CASE c \notin loads /\ c \in A
    <3>1. made[c] + 1 \notin loading[c]
      BY <2>1, <2>2
    <3>2. ~sourceMap'[c] /\ clientData'[c] \notin loading'[c] /\ ~rejected'[c]
      BY <1>1, <2>4, <3>1
    <3> QED
      BY <1>4, <1>5, <2>1, <2>4, <3>2
  <2>5. CASE c \notin loads /\ c \notin A /\ c \in D
    <3>1. ~sourceMap'[c] /\ clientData'[c] = 0
      BY <1>1, <2>5
    <3> QED
      BY <1>4, <1>5, <2>1, <2>5, <3>1
  <2>6. CASE c \notin A /\ c \notin D
    <3>1. /\ sourceMap'[c] = sourceMap[c] /\ clientData'[c] = clientData[c]
          /\ loading'[c] = loading[c] /\ events'[c] = events[c]
      BY <1>1, <1>2, <1>4, <1>5, <2>1, <2>6 DEF MapsInv, MapsType
    <3>4. rejected'[c] <=> rejected[c]
      BY <1>1, <2>6
    <3>2. CASE enabled = mapsEnabled
      BY <1>1, <3>1, <3>2, <3>4 DEF EventsInv, LastTells
    <3>3. CASE enabled # mapsEnabled
      <4>1. clientData[c] = 0
        BY <2>6, <3>3 DEF Maps!Attached
      <4> QED
        BY <2>2, <3>1, <4>1 DEF EventsInv, LastTells
    <3> QED
      BY <3>2, <3>3
  <2> QED
    BY <2>3, <2>4, <2>5, <2>6, <1>2
<1>8. LastTells'
  BY <1>7 DEF LastTells, Resting
<1>9. Rejections'
  <2>1. rejected' \in [Clients -> BOOLEAN]
    BY <1>1, Zenon
  <2>2. ASSUME NEW c \in Clients, rejected'[c]
        PROVE  mapsEnabled' /\ clientData'[c] # 0 /\ ~sourceMap'[c] /\ clientData'[c] \notin loading'[c]
    <3>1. rejected[c] /\ c \notin D /\ c \notin A
      BY <1>1, <2>2
    <3>2. mapsEnabled /\ clientData[c] # 0 /\ ~sourceMap[c] /\ clientData[c] \notin loading[c]
      BY <3>1 DEF EventsInv, Rejections
    <3>3. clientData'[c] = clientData[c] /\ loading'[c] = loading[c] /\ ~sourceMap'[c]
      BY <1>1, <1>2, <3>1, <3>2 DEF MapsInv, MapsType
    <3>4. enabled = mapsEnabled
      BY <3>1, <3>2 DEF Maps!Attached
    <3> QED
      BY <1>1, <3>2, <3>3, <3>4
  <2> QED
    BY <2>1, <2>2 DEF Rejections
<1> QED
  BY <1>1, <1>6, <1>8, <1>9 DEF EventsInv, Alternates

LEMMA LoadSettlesEvents ==
  ASSUME MapsInv, EventsInv, NEW c \in Clients, NEW n \in Maps!Data, NEW ok \in BOOLEAN,
         Maps!loadSettles(c, n, ok)
  PROVE  EventsInv'
<1>1. /\ n \in loading[c] /\ loading' = [loading EXCEPT ![c] = @ \ {n}]
      /\ mapsEnabled' = mapsEnabled /\ listening' = listening /\ clientData' = clientData
      /\ rejected' = rejected
  BY DEF Maps!loadSettles
<1>2. events[c] \in Seq(Maps!EventNames) /\ Alternates(events[c]) /\ clientData[c] \in Nat
  BY DEF EventsInv, MapsInv, MapsType
<1>3. CASE clientData[c] # n
  <2>1. UNCHANGED <<sourceMap, sourceMaps, events>>
    BY <1>3 DEF Maps!loadSettles, Maps!isCurrent
  <2>2. \A d \in Clients : clientData[d] \in loading'[d] <=> clientData[d] \in loading[d]
    BY <1>1, <1>3 DEF MapsInv, MapsType
  <2>3. Rejections'
    BY <1>1, <2>1, <2>2 DEF EventsInv, Rejections
  <2> QED
    BY <1>1, <2>1, <2>2, <2>3 DEF EventsInv, LastTells, Alternates, Resting
<1>4. CASE clientData[c] = n
  <2>1. /\ sourceMap' = [sourceMap EXCEPT ![c] = ok]
        /\ sourceMaps' = sourceMaps \cup (IF ok THEN {<<c, n>>} ELSE {})
        /\ events' = [events EXCEPT ![c] = @ \o Maps!settles(ok)]
    BY <1>4 DEF Maps!loadSettles, Maps!isCurrent
  <2>2. ~sourceMap[c] /\ mapsEnabled /\ clientData[c] # 0 /\ ~rejected[c]
    BY <1>1, <1>4 DEF MapsInv, DataWereMade, DisabledLoadsNothing, Maps!Data, EventsInv,
       Rejections
  <2>3. events[c] # <<>> /\ events[c][Len(events[c])] = "SourceMapWillAttach"
    BY <1>1, <1>4, <2>2 DEF EventsInv, LastTells
  <2> DEFINE e == IF ok THEN "SourceMapAttached" ELSE "SourceMapFailedToAttach"
             t == events[c] \o <<e>>
  <2>4. MayFollow(events[c], e) /\ e \in Maps!EventNames
    BY <2>3 DEF MayFollow, Maps!After, Maps!EventNames
  <2>5. events' = [events EXCEPT ![c] = t]
    BY <2>1 DEF Maps!settles
  <2>6. t \in Seq(Maps!EventNames) /\ t # <<>> /\ t[Len(t)] = e /\ Alternates(t)
    <3> HIDE DEF e
    <3> QED
      BY <1>2, <2>4, Extended
  <2> HIDE DEF t
  <2>7. events' \in [Clients -> Seq(Maps!EventNames)] /\ \A d \in Clients : Alternates(events'[d])
    BY <2>5, <2>6 DEF EventsInv
  <2>8. ASSUME NEW d \in Clients
        PROVE  IF sourceMap'[d]
                 THEN events'[d] # <<>> /\ events'[d][Len(events'[d])] = "SourceMapAttached"
                 ELSE IF mapsEnabled' /\ clientData'[d] # 0 /\ (clientData'[d] \in loading'[d] \/ rejected'[d])
                   THEN events'[d] # <<>> /\ events'[d][Len(events'[d])] = "SourceMapWillAttach"
                   ELSE Resting(events'[d])
    <3>1. CASE d = c
      <4>1. events'[d] = t /\ sourceMap'[d] = ok /\ clientData'[d] \notin loading'[d]
        BY <1>1, <1>4, <2>1, <2>5, <3>1 DEF EventsInv, MapsInv, MapsType
      <4>2. ~rejected'[d]
        BY <1>1, <2>2, <3>1
      <4> QED
        BY <2>6, <4>1, <4>2 DEF Resting
    <3>2. CASE d # c
      <4>1. events'[d] = events[d] /\ sourceMap'[d] = sourceMap[d] /\ loading'[d] = loading[d]
        BY <1>1, <2>1, <2>5, <3>2 DEF EventsInv, MapsInv, MapsType
      <4> QED
        BY <1>1, <4>1 DEF EventsInv, LastTells
    <3> QED
      BY <3>1, <3>2
  <2>9. LastTells'
    BY <2>8 DEF LastTells, Resting
  <2>10. sourceMaps' \subseteq Clients \X Maps!Data
    BY <2>1 DEF EventsInv
  <2>11. Rejections'
    <3>1. ASSUME NEW d \in Clients, rejected'[d]
          PROVE  mapsEnabled' /\ clientData'[d] # 0 /\ ~sourceMap'[d] /\ clientData'[d] \notin loading'[d]
      <4>1. rejected[d] /\ d # c
        BY <1>1, <2>2, <3>1
      <4>2. (sourceMap'[d] <=> sourceMap[d]) /\ loading'[d] = loading[d]
        BY <1>1, <2>1, <4>1 DEF MapsInv, MapsType
      <4> QED
        BY <1>1, <4>1, <4>2 DEF EventsInv, Rejections
    <3> QED
      BY <1>1, <3>1 DEF EventsInv, Rejections
  <2> QED
    BY <1>1, <2>7, <2>9, <2>10, <2>11 DEF EventsInv, Alternates
<1> QED
  BY <1>3, <1>4

(* No event tells of a payload that is no source map.                      *)
LEMMA ConstructorThrowsEvents ==
  ASSUME MapsInv, EventsInv, NEW c \in Clients, NEW n \in Maps!Data, Maps!constructorThrows(c, n)
  PROVE  EventsInv'
<1>1. /\ n \in loading[c] /\ loading' = [loading EXCEPT ![c] = @ \ {n}]
      /\ rejected' = [rejected EXCEPT ![c] = @ \/ Maps!isCurrent(c, n)]
      /\ mapsEnabled' = mapsEnabled /\ listening' = listening /\ clientData' = clientData
      /\ sourceMap' = sourceMap /\ sourceMaps' = sourceMaps /\ events' = events
  BY DEF Maps!constructorThrows
<1>2. /\ rejected' \in [Clients -> BOOLEAN]
      /\ \A d \in Clients : rejected'[d] <=> rejected[d] \/ (d = c /\ clientData[c] = n)
  <2>1. rejected \in [Clients -> BOOLEAN]
    BY DEF EventsInv, Rejections
  <2>2. (rejected[c] \/ Maps!isCurrent(c, n)) \in BOOLEAN
    BY Zenon
  <2>3. Maps!isCurrent(c, n) <=> clientData[c] = n
    BY DEF Maps!isCurrent
  <2> QED
    BY <1>1, <2>1, <2>2, <2>3
<1>3. \A d \in Clients : loading'[d] = IF d = c THEN loading[c] \ {n} ELSE loading[d]
  BY <1>1 DEF MapsInv, MapsType
<1>4. clientData[c] = n => mapsEnabled /\ n # 0 /\ ~sourceMap[c]
  BY <1>1 DEF MapsInv, DataWereMade, DisabledLoadsNothing, Maps!Data
<1>5. LastTells'
  <2>1. \A d \in Clients :
          (clientData[d] \in loading'[d] \/ rejected'[d]) <=> (clientData[d] \in loading[d] \/ rejected[d])
    BY <1>1, <1>2, <1>3
  <2> QED
    BY <1>1, <2>1 DEF EventsInv, LastTells, Resting
<1>6. Rejections'
  <2>1. ASSUME NEW d \in Clients, rejected'[d]
        PROVE  mapsEnabled /\ clientData[d] # 0 /\ ~sourceMap[d] /\ clientData[d] \notin loading'[d]
    BY <1>2, <1>3, <1>4, <2>1 DEF EventsInv, Rejections
  <2> QED
    BY <1>1, <1>2, <2>1 DEF Rejections
<1> QED
  BY <1>1, <1>5, <1>6 DEF EventsInv, Alternates

LEMMA EventsStep == MapsInv /\ EventsInv /\ [Maps!Next]_(Maps!vars) => EventsInv'
<1> SUFFICES ASSUME MapsInv, EventsInv, [Maps!Next]_(Maps!vars) PROVE EventsInv'
  OBVIOUS
<1>0. Maps!Attached \subseteq Clients /\ mapsEnabled \in BOOLEAN
  BY DEF Maps!Attached, MapsInv, MapsType
<1>1. ASSUME NEW c \in Clients, NEW U \in SUBSET Clients, Maps!attachSourceMap(c, U)
      PROVE  EventsInv'
  BY <1>0, <1>1, ReattachEvents DEF Maps!attachSourceMap
<1>2. ASSUME NEW c \in Clients, Maps!detachSourceMap(c) PROVE EventsInv'
  BY <1>0, <1>2, ReattachEvents DEF Maps!detachSourceMap
<1>3. ASSUME NEW enabled \in BOOLEAN, NEW U \in SUBSET Clients, Maps!setEnabled(enabled, U)
      PROVE  EventsInv'
  BY <1>0, <1>3, ReattachEvents DEF Maps!setEnabled
<1>4. ASSUME NEW U \in SUBSET Clients, Maps!inspectedURLChanged(U) PROVE EventsInv'
  BY <1>0, <1>4, ReattachEvents DEF Maps!inspectedURLChanged
<1>5. ASSUME NEW c \in Clients, NEW n \in Maps!Data, NEW ok \in BOOLEAN, Maps!loadSettles(c, n, ok)
      PROVE  EventsInv'
  BY <1>5, LoadSettlesEvents
<1>7. ASSUME NEW c \in Clients, NEW n \in Maps!Data, Maps!constructorThrows(c, n) PROVE EventsInv'
  BY <1>7, ConstructorThrowsEvents
<1>6. CASE Maps!dispose \/ UNCHANGED Maps!vars
  <2>1. /\ listening' \in BOOLEAN
        /\ UNCHANGED <<mapsEnabled, clientData, loading, sourceMap, rejected, sourceMaps, events>>
    BY <1>6 DEF Maps!dispose, Maps!vars, EventsInv
  <2> QED
    BY <2>1 DEF EventsInv, LastTells, Rejections, Alternates, Resting
<1> QED
  BY <1>1, <1>2, <1>3, <1>4, <1>5, <1>6, <1>7 DEF Maps!Next

(* The listeners of the manager see the events of a client in order: each  *)
(* map announced, then attached or failed, and detached only if attached,  *)
(* whatever settles late (SourceMapManager.ts:attachSourceMap).            *)
THEOREM EventsStayInOrder == SdkModelsSpec => []EventsAlternate
<1>1. Maps!Init => EventsInv
  BY DEF Maps!Init, EventsInv, LastTells, Rejections, Alternates, Resting
<1>2. MapsInv /\ EventsInv => EventsAlternate
  BY MapsBound
  DEF MapsInv, Maps!EventsAlternate, Maps!EventNames, Maps!After, Maps!Data, MapsType,
      DataWereMade, EventsInv, Rejections, EventsAlternate, Alternates, Maps!TypeOK, Maps!Attached
<1> QED
  BY MapsInit, MapsStep, <1>1, EventsStep, <1>2, Parts, PTL DEF SdkModelsSpec, SdkModelsInit
=============================================================================
