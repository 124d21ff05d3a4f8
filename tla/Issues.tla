------------------------------- MODULE Issues -------------------------------
(***************************************************************************)
(* The issues manager (models/issues_manager/IssuesManager.ts) with a      *)
(* resolver of issue ids.  All issues are stored, one per primary key; the *)
(* shown ones are those the filter accepts, which depends on the scope,    *)
(* on the setting for third parties and on whether an outermost frame is   *)
(* known.  Maps and counters over the shown ones are kept incrementally    *)
(* when an issue comes, and rebuilt when something else changes.           *)
(***************************************************************************)
EXTENDS Integers, Sequences, FiniteSets, Resolver

CONSTANTS Issues, keyOf, idOf, kindOf, codeOf,
          targetOf,    \* the outermost target an issue is reported for
          Targets, NoTarget,
          UrlIssues,   \* issues of a URL: third-party while no frame is known
          ThirdParty,  \* those of another site than the outermost frame
          MaxStored    \* bound: on the reports that are stored
Codes == {codeOf[i] : i \in Issues}
Kinds == {kindOf[i] : i \in Issues}

IssuesAssumption ==
  /\ idOf \in [Issues -> Ids \cup {NoId}]
  /\ targetOf \in [Issues -> Targets]
  /\ ThirdParty \subseteq UrlIssues /\ UrlIssues \subseteq Issues
  /\ NoId \notin Ids /\ NoObject \notin Issues /\ NoTarget \notin Targets
  /\ {"waits", "rejected"} \cap (Issues \cup {NoObject}) = {} /\ MaxStored \in Nat

VARIABLES
  allIssues,       \* in the order they were stored
  filteredIssues, issueCounts, hiddenIssueCount, issuesById,
  hidden,          \* the issues that say they are hidden
  scopeTarget, framed,        \* framed: the targets whose frame was added
  showThirdParty, hideSetting,
  storedCount      \* of reports stored so far

managerVars == <<allIssues, filteredIssues, issueCounts, hiddenIssueCount, issuesById, hidden>>
settingVars == <<scopeTarget, framed, showThirdParty, hideSetting>>
vars == <<managerVars, settingVars, storedCount, resolverVars>>

Init ==
  /\ allIssues = <<>> /\ filteredIssues = {}
  /\ issueCounts = [k \in Kinds |-> 0] /\ hiddenIssueCount = [k \in Kinds |-> 0]
  /\ issuesById = [id \in Ids |-> NoObject] /\ hidden = {}
  /\ scopeTarget = NoTarget /\ framed = {}
  /\ showThirdParty = FALSE
  /\ hideSetting = [c \in Codes |-> "unset"]
  /\ storedCount = 0
  /\ ResolverInit

Stored == {allIssues[n] : n \in 1..Len(allIssues)}

isCausedByThirdParty(i, frames) == i \in (IF frames = {} THEN UrlIssues ELSE ThirdParty)

issueFilter(i, scope, frames, show) ==
  /\ targetOf[i] = scope
  /\ show \/ ~isCausedByThirdParty(i, frames)

(* What updateIssueHiddenStatus makes of the hidden flags of the issues S. *)
HiddenBy(setting, flags, S) ==
  (flags \ {i \in S : setting[codeOf[i]] = "Unhidden"})
  \cup {i \in S : setting[codeOf[i]] = "Hidden"}

(* The issues of the sequence s that are kept, in their order.             *)
KeptInOrder(s, kept) ==
  LET upTo[n \in 0..Len(s)] ==
        IF n = 0 THEN <<>>
        ELSE IF s[n] \in kept THEN Append(upTo[n - 1], s[n]) ELSE upTo[n - 1]
  IN upTo[Len(s)]

(* The last issue of the sequence s, among those of S, that has an id.     *)
LastWithId(id, s, S) ==
  LET I == {n \in 1..Len(s) : s[n] \in S /\ idOf[s[n]] = id}
  IN IF I = {} THEN NoObject ELSE s[CHOOSE n \in I : \A m \in I : m <= n]

OfKind(S, k) == Cardinality({i \in S : kindOf[i] = k})

(* The flags that are counted: those that are updated already.             *)
Counted(before, after) == after

(* updateFilteredIssues, when the stored issues are s, with the new scope  *)
(* and settings and the hidden flags of before.                            *)
updateFilteredIssues(s, frames, flags) ==
  LET accepted == {i \in {s[n] : n \in 1..Len(s)} :
                     issueFilter(i, scopeTarget', frames, showThirdParty')}
  IN
  /\ allIssues' = s
  /\ filteredIssues' = accepted
  /\ hidden' = HiddenBy(hideSetting', flags, accepted)
  /\ issueCounts' = [k \in Kinds |-> OfKind(accepted, k)]
  /\ hiddenIssueCount' = [k \in Kinds |-> OfKind(accepted \cap Counted(flags, hidden'), k)]
  /\ issuesById' = [id \in Ids |-> LastWithId(id, s, accepted)]

----------------------------------------------------------------------------
(* The id under which an added issue is found.                             *)
Entered(i, accepted) == IF accepted THEN idOf[i] ELSE NoId

(* addIssue of a key that is not stored; the issue is a new one, and not   *)
(* hidden before.                                                          *)
addIssue(i) ==
  LET accepted == issueFilter(i, scopeTarget, framed, showThirdParty)
      shown == IF accepted THEN {i} ELSE {}
      id == Entered(i, accepted)
  IN
  /\ storedCount < MaxStored /\ \A j \in Stored : keyOf[j] # keyOf[i]
  /\ storedCount' = storedCount + 1
  /\ allIssues' = Append(allIssues, i)
  /\ hidden' = HiddenBy(hideSetting, hidden, shown)
  /\ filteredIssues' = filteredIssues \cup shown
  /\ issueCounts' = [k \in Kinds |-> issueCounts[k] + OfKind(shown, k)]
  /\ hiddenIssueCount' = [k \in Kinds |-> hiddenIssueCount[k] + OfKind(shown \cap hidden', k)]
  /\ issuesById' = IF id = NoId THEN issuesById ELSE [issuesById EXCEPT ![id] = i]
  /\ added(id, i)
  /\ UNCHANGED settingVars

(* onPrimaryPageChanged: the issues of the new page's load, and the bounce *)
(* tracking ones, are kept; the others are thrown away with their flags.   *)
onPrimaryPageChanged(kept) ==
  LET s == KeptInOrder(allIssues, kept) IN
  /\ kept \subseteq Stored
  /\ UNCHANGED <<settingVars, storedCount, resolverVars>>
  /\ updateFilteredIssues(s, framed, hidden \cap kept)

(* Does an outermost frame of t filter again; the mutant never does.       *)
FiltersAgainNever(t) == FALSE
FiltersAgain(t) == t = scopeTarget

(* The outermost frame of t is added; only one in scope filters again.     *)
onFrameAddedToTarget(t) ==
  /\ t \notin framed
  /\ framed' = framed \cup {t}
  /\ UNCHANGED <<scopeTarget, showThirdParty, hideSetting, storedCount, resolverVars>>
  /\ IF FiltersAgain(t) THEN updateFilteredIssues(allIssues, framed', hidden)
                          ELSE UNCHANGED managerVars

(* The scope is set to another page, and the scoped observer is told of it.*)
targetAdded(t) ==
  /\ t # scopeTarget
  /\ scopeTarget' = t
  /\ UNCHANGED <<framed, showThirdParty, hideSetting, storedCount, resolverVars>>
  /\ updateFilteredIssues(allIssues, framed, hidden)

toggleThirdParty ==
  /\ showThirdParty' = ~showThirdParty
  /\ UNCHANGED <<scopeTarget, framed, hideSetting, storedCount, resolverVars>>
  /\ updateFilteredIssues(allIssues, framed, hidden)

(* The user hides or unhides issues like a shown one.                      *)
hideLike(i) ==
  /\ i \in filteredIssues
  /\ hideSetting' = [hideSetting EXCEPT ![codeOf[i]] =
                       IF i \in hidden THEN "Unhidden" ELSE "Hidden"]
  /\ UNCHANGED <<scopeTarget, framed, showThirdParty, storedCount, resolverVars>>
  /\ updateFilteredIssues(allIssues, framed, hidden)

unhideAllIssues ==
  /\ hideSetting' = [c \in Codes |-> "unset"]
  /\ UNCHANGED <<scopeTarget, framed, showThirdParty, storedCount, resolverVars>>
  /\ updateFilteredIssues(allIssues, framed, hidden \ Stored)

resolve(c, id) ==
  /\ waitFor(c, id, issuesById[id])
  /\ UNCHANGED <<managerVars, settingVars, storedCount>>

clearResolver ==
  /\ clear
  /\ UNCHANGED <<managerVars, settingVars, storedCount>>

Next ==
  \/ \E i \in Issues : addIssue(i) \/ hideLike(i)
  \/ \E kept \in SUBSET Stored : onPrimaryPageChanged(kept)
  \/ \E t \in Targets : onFrameAddedToTarget(t) \/ targetAdded(t)
  \/ toggleThirdParty \/ unhideAllIssues
  \/ \E c \in Calls, id \in Ids : resolve(c, id)
  \/ clearResolver

Spec == Init /\ [][Next]_vars

----------------------------------------------------------------------------
TypeOK ==
  /\ allIssues \in Seq(Issues) /\ filteredIssues \subseteq Issues /\ hidden \subseteq Issues
  /\ issueCounts \in [Kinds -> Nat] /\ hiddenIssueCount \in [Kinds -> Nat]
  /\ issuesById \in [Ids -> Issues \cup {NoObject}]
  /\ scopeTarget \in Targets \cup {NoTarget} /\ framed \subseteq Targets
  /\ showThirdParty \in BOOLEAN
  /\ hideSetting \in [Codes -> {"unset", "Hidden", "Unhidden"}]
  /\ storedCount \in 0..MaxStored
  /\ ResolverTypeOK(Issues)

(* Once the frame of the page in scope is known, the shown issues are      *)
(* exactly the stored ones that the filter accepts now, whichever of       *)
(* issue, frame, scope and settings came first or changed last.            *)
FilteredIsFresh ==
  scopeTarget \in framed =>
    filteredIssues = {i \in Stored : issueFilter(i, scopeTarget, framed, showThirdParty)}

(* The counters by kind, kept by adding and by rebuilding, are the numbers *)
(* of shown issues and of hidden ones among them, so numberOfIssues never  *)
(* miscounts.                                                              *)
CountsMatch ==
  \A k \in Kinds :
    /\ issueCounts[k] = OfKind(filteredIssues, k)
    /\ hiddenIssueCount[k] = OfKind(filteredIssues \cap hidden, k)

(* A shown issue is hidden exactly if the setting hides its code, after    *)
(* any series of hiding, unhiding, resetting and filtering.                *)
HiddenFollowsSetting ==
  \A i \in filteredIssues : i \in hidden <=> hideSetting[codeOf[i]] = "Hidden"

(* An id leads to a shown issue if there is one that has it, to the latest.*)
IdsLeadToShown ==
  \A id \in Ids : issuesById[id] = LastWithId(id, allIssues, filteredIssues)

(* A call is answered with an issue of the id it asked for, and the answer *)
(* is never taken back.                                                    *)
AnswersAreRight ==
  [][\A c \in Calls : /\ outcome[c] # "waits" => outcome'[c] = outcome[c]
                      /\ outcome'[c] \in Issues => idOf[outcome'[c]] = askedFor'[c]]_vars

(* "Returns a promise that resolves once the `id` can be resolved to an    *)
(* object." (ResolverBase.ts:26): nobody waits for an id the manager knows.*)
ResolvesOnceKnown == \A c \in Waiting : issuesById[askedFor[c]] = NoObject
=============================================================================
