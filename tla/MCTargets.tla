----------------------------- MODULE MCTargets -----------------------------
(* The target manager, and a scoped observer of its, the issues manager    *)
(* with its resolver, on small instances.  What the issues manager knows   *)
(* of the scope it is told of, so that the two are checked apart: a        *)
(* behaviour is one of either, the other staying as it was made.           *)
(*                                                                         *)
(* There are a tab with a page, a worker of it, and a prerendered page     *)
(* beside it; two issues of the page with the same id, one of them of a    *)
(* third party, and one issue of the prerendered page with the same        *)
(* primary key.                                                            *)
EXTENDS TargetManager

CONSTANTS Issues, keyOf, idOf, issueKindOf, codeOf, targetOf, Pages, UrlIssues, ThirdParty,
          MaxStored, Ids, NoId, Calls, NoObject,
          tab, page, worker, prerender, auto, lazy, scopedPanel, panel, sidebar,
          cookie, tracker, other, k1, k2, id1, id2

VARIABLES
  part,   \* which of the two it is
  allIssues, filteredIssues, issueCounts, hiddenIssueCount, issuesById, hidden,
  issuesScope, framed, showThirdParty, hideSetting, storedCount,
  unresolvedIds, listening, askedFor, outcome

issuesVars == <<allIssues, filteredIssues, issueCounts, hiddenIssueCount, issuesById, hidden,
                issuesScope, framed, showThirdParty, hideSetting, storedCount,
                unresolvedIds, listening, askedFor, outcome>>

Manager == INSTANCE Issues
             WITH Targets <- Pages, kindOf <- issueKindOf, scopeTarget <- issuesScope

ASSUME ManagerAssumption == Manager!IssuesAssumption

MCParentOf == [t \in Targets |->
  CASE t = tab -> NoTarget [] t = worker -> page [] OTHER -> tab]
MCKindOf == [t \in Targets |->
  CASE t = tab -> "tab" [] t = worker -> "worker" [] OTHER -> "frame"]
MCClassOf == [o \in ModelObservers |-> lazy]

MCKeyOf == [i \in Issues |-> IF i = tracker THEN 2 ELSE 1]
MCIdOf == [i \in Issues |-> IF i = other THEN id2 ELSE id1]
MCIssueKindOf == [i \in Issues |-> IF i = tracker THEN k2 ELSE k1]
MCCodeOf == [i \in Issues |-> IF i = cookie THEN "c" ELSE "t"]
MCIssueTargetOf == [i \in Issues |-> IF i = other THEN prerender ELSE page]

TargetsInit == part \in {"targets", "issues"} /\ Init /\ Manager!Init

TargetsNext ==
  /\ UNCHANGED part
  /\ \/ part = "targets" /\ Next /\ UNCHANGED issuesVars
     \/ part = "issues" /\ Manager!Next /\ UNCHANGED vars

TargetsSpec == TargetsInit /\ [][TargetsNext]_<<part, vars, issuesVars>>

-----------------------------------------------------------------------------
(* What the issues panel shows is up to date (IssuesManager.ts:268 to 403),*)
(* whichever of issue, frame, scope and settings came first or changed     *)
(* last: the issues, their counts, what is hidden, and the way by id.      *)
IssuesAreFresh ==
  /\ Manager!TypeOK /\ Manager!FilteredIsFresh /\ Manager!CountsMatch
  /\ Manager!HiddenFollowsSetting /\ Manager!IdsLeadToShown

(* Who asks the resolver for an issue is answered rightly                  *)
(* (ResolverBase.ts:26): with an issue of that id, once; and who waits is  *)
(* known to the resolver and will be heard when it comes.                  *)
ResolverAnswers == [](Manager!TypeOK /\ Manager!WaitersAreHeard) /\ Manager!AnswersAreRight
=============================================================================
