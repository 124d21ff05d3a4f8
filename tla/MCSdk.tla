------------------------------- MODULE MCSdk -------------------------------
(* Three of core/sdk on small instances: the network dispatchers of two    *)
(* targets with one navigation of up to two legs, the isolate manager,     *)
(* and the page resource loader.                                           *)
(* They share nothing, so that a behaviour is one of one of them, the      *)
(* others staying as they were made, and the states of the three add up.   *)
EXTENDS NetworkDispatcher

CONSTANTS Models, IsolateIds, NoModel, Retrieving, Observers, MaxLoops,
          Loads, Keys, keyOf, NoLoad, maxConcurrentLoads

VARIABLES
  part,   \* which of the three it is
  gone, asked, isolateIdByModel, isolates, observers, told, pollId, loops,
  currentlyLoading, queuedLoads, pageResources, phase, success

isolateVars == <<gone, asked, isolateIdByModel, isolates, observers, told, pollId, loops>>
loaderVars == <<currentlyLoading, queuedLoads, pageResources, phase, success>>

Isolates == INSTANCE IsolateManager WITH Ids <- IsolateIds
Loader == INSTANCE PageResourceLoader

ASSUME NetworkAssumption == DispatchersAssumption
ASSUME IsolatesAssumption == Isolates!IdsAssumption
ASSUME LoaderAssumption == Loader!LoadsAssumption /\ Loader!MaxAssumption

(* Loads 1 and 4 ask for the same resource.                                *)
MCLoads == 1..5
MCKeyOf == [l \in MCLoads |-> l % 3]
MCKeys == 0..2

SdkInit ==
  /\ part \in {"network", "isolates", "loader"}
  /\ Init /\ Isolates!Init /\ Loader!Init

SdkNext ==
  /\ UNCHANGED part
  /\ \/ part = "network" /\ Next /\ UNCHANGED <<isolateVars, loaderVars>>
     \/ part = "isolates" /\ Isolates!Next /\ UNCHANGED <<vars, loaderVars>>
     \/ part = "loader" /\ Loader!Next /\ UNCHANGED <<vars, isolateVars>>

SdkSpec ==
  /\ SdkInit /\ [][SdkNext]_<<part, vars, isolateVars, loaderVars>>
  /\ Isolates!Fairness /\ Loader!Fairness

-----------------------------------------------------------------------------
(* What belongs to a leg of a load stays with it, though all events carry  *)
(* the id of the load only and come in any order (NetworkManager.ts:1814): *)
(* the infos of the network stack, if it told of every leg, raw headers    *)
(* unless an interceptor answered, the id it is called by after a          *)
(* redirect, and the web bundle of the last leg.                           *)
LegsKeepTheirInfos ==
  /\ TypeOK /\ InfosAtTheirLegs /\ NoInfoLost
  /\ RawHeadersStay /\ LegsCalledApart /\ BundleAtFinalLeg

(* A navigation changes hands rightly (NetworkManager.ts:952): a request   *)
(* is known to one dispatcher, and one in flight is there to be adopted.   *)
NavigationsChangeHands == OneDispatcherKnows /\ InflightCanBeAdopted

(* An isolate holds exactly the models whose id it is, and every observer  *)
(* was told of the isolates there are (IsolateManager.ts:67, :94).         *)
IsolatesOfModels == Isolates!IsolatesOfModels

ObserversKnowIsolates == Isolates!ObserversKnowIsolates

(* The polling follows the observers (IsolateManager.ts:127), however      *)
(* often they come and go during the awaits of a loop: one loop polls as   *)
(* long as somebody observes, and else none.                               *)
PollingFollowsObservers == Isolates!TypeOK /\ Isolates!OneLoopPolls

(* Slots are accounted for (PageResourceLoader.ts:146 to 206), and a page  *)
(* resource shown as loading belongs to a load that runs.                  *)
SlotsAreAccounted == Loader!SlotsAreAccounted

ShownAsLoading == Loader!ShownAsLoading

(* The limit of concurrent loads is passed by nothing but the settling of  *)
(* a canceled load (PageResourceLoader.ts:203).                            *)
OnlyCancellationsPassTheLimit == Loader!OnlyCancellationsPassTheLimit

(* What waits is seen to: every load settles, whatever reloads cancel      *)
(* (PageResourceLoader.ts:186); a loop that was stopped ends, and another  *)
(* asks every isolate again and again (IsolateManager.ts:127).             *)
LoadsAndLoopsGoOn == Loader!LoadsSettle /\ Isolates!LoopsGoOn
=============================================================================
