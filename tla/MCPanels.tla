------------------------------ MODULE MCPanels ------------------------------
(* The runs of Lighthouse, the polling of coverage, and the web socket to  *)
(* the back end on small instances.  They share nothing, so that a         *)
(* behaviour is one of one of them, the others staying as they were made.  *)
EXTENDS LighthouseRuns

CONSTANTS Loops, None, MaxMessages, MaxDisconnects

VARIABLES
  part,   \* which of the three it is
  coverageView, suspension, suspensionState, performanceTraceRecording,
  shouldResumePollingOnResume, loop, pollTimer, currentPoll, asked, awaiting, backlog,
  crossed,
  hasSocket, connected, messages, listening, onerror, onclose, readyState, events, toBackend,
  sent, arrived, posted, heard, told, lost, promises

coverageVars == <<coverageView, suspension, suspensionState, performanceTraceRecording,
                  shouldResumePollingOnResume, loop, pollTimer, currentPoll, asked, awaiting,
                  backlog, crossed>>
socketVars == <<hasSocket, connected, messages, listening, onerror, onclose, readyState, events,
                toBackend, sent, arrived, posted, heard, told, lost, promises>>

Coverage == INSTANCE CoverageModel WITH view <- coverageView
Socket == INSTANCE WebSocketConnection

ASSUME LighthouseAssumption == BoundsAssumption
ASSUME CoverageAssumption == Coverage!LoopsAssumption
ASSUME SocketAssumption == Socket!BoundsAssumption

PanelsInit ==
  /\ part \in {"lighthouse", "coverage", "socket"}
  /\ Init /\ Coverage!Init /\ Socket!Init

PanelsNext ==
  /\ UNCHANGED part
  /\ \/ part = "lighthouse" /\ Next /\ UNCHANGED <<coverageVars, socketVars>>
     \/ part = "coverage" /\ Coverage!Next /\ UNCHANGED <<vars, socketVars>>
     \/ part = "socket" /\ Socket!Next /\ UNCHANGED <<vars, coverageVars>>

PanelsSpec ==
  /\ PanelsInit /\ [][PanelsNext]_<<part, vars, coverageVars, socketVars>>
  /\ Fairness /\ Coverage!Fairness /\ Socket!Fairness

-----------------------------------------------------------------------------
(* Coverage polls as the recording wants it (CoverageModel.ts:136 to 213): *)
(* never in two loops; and, since polling began and until a stop meets a   *)
(* poll or a suspension, in one loop while it records, in none after its   *)
(* last poll, and no poll ends in a suspended target.                      *)
CoveragePolls ==
  /\ [](Coverage!TypeOK /\ Coverage!AtMostOneLoop)
  /\ [](Coverage!OneLoopWhileRecording /\ Coverage!LastPollIsLast)
  /\ Coverage!PollsEndUnlessCrossed

(* Lighthouse gives back what a run took (LighthouseController.ts:491):    *)
(* session, dialog handler, targets, emulation, and no worker or session   *)
(* is left that it does not know, whether the run is concluded, cancelled  *)
(* or fails at any step, unless it was cancelled while it was set up or    *)
(* another was started meanwhile.                                          *)
LighthouseGivesBack ==
  /\ TypeOK /\ AllGivenBack
  /\ NothingStray /\ SavesOwnEmulation

(* A user who cancels a Lighthouse run comes back to the start view.       *)
LighthouseCancelReturns == CancelReturns

(* The web socket is a Channel for the session router, whichever end       *)
(* closes it and when (Connections.ts:86): in order, nothing lost while    *)
(* it is up, and told once of its end.                                     *)
SocketIsChannel ==
  /\ [](Socket!TypeOK /\ Socket!NothingLostWhileUp /\ Socket!EndsOnce)
  /\ Socket!ImplementsChannel

(* What waits is seen to in the end: coverage that came while its target   *)
(* was suspending is processed (CoverageModel.ts:277), messages kept for   *)
(* an open socket go out (Connections.ts:127), and the disconnect that     *)
(* found the socket is concluded (Connections.ts:164).                     *)
WhatWaitsIsSeenTo ==
  Coverage!BacklogIsProcessed /\ Socket!KeptMessagesGoOut /\ Socket!DisconnectIsKept
=============================================================================
