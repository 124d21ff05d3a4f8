---------------------------- MODULE MCSdkModels ----------------------------
(* Two of core/sdk on small instances: the suspension of targets and their *)
(* models, and a source map manager.                                       *)
(* They share nothing, so that a behaviour is one of one of them, the      *)
(* other staying as it was made, and the states of the two add up.         *)
EXTENDS Suspension

CONSTANTS Clients, MaxData

VARIABLES
  part,   \* which of the two it is
  mapsEnabled, listening, clientData, made, loading, sourceMap, rejected, sourceMaps, events

mapVars == <<mapsEnabled, listening, clientData, made, loading, sourceMap, rejected, sourceMaps,
             events>>

Maps == INSTANCE SourceMapManager WITH isEnabled <- mapsEnabled

ASSUME MapsAssumption == Maps!MaxDataAssumption

SdkModelsInit ==
  /\ part \in {"suspension", "maps"}
  /\ Init /\ Maps!Init

SdkModelsNext ==
  /\ UNCHANGED part
  /\ \/ part = "suspension" /\ Next /\ UNCHANGED mapVars
     \/ part = "maps" /\ Maps!Next /\ UNCHANGED vars

SdkModelsSpec ==
  /\ SdkModelsInit /\ [][SdkModelsNext]_<<part, vars, mapVars>>
  /\ Fairness /\ Maps!Fairness

-----------------------------------------------------------------------------
(* sourceMapForClient and clientForSourceMap agree (SourceMapManager.ts:80 *)
(* and 94): a map is found from its client exactly when the client is      *)
(* found from the map, so no detached map is left behind and none is lost. *)
MapsAreInverse == Maps!MapsAreInverse

(* What is loaded while the manager is disabled is never seen.             *)
DisabledHidesMaps == Maps!DisabledHidesMaps

(* The listeners of the manager, which build and tear down the bindings of *)
(* a client, see its events in order.                                      *)
EventsAlternate == Maps!EventsAlternate

(* An announced map is concluded, attached or failed, unless its payload   *)
(* was no source map.                                                      *)
AnnouncedIsConcluded == Maps!AnnouncedIsConcluded
=============================================================================
