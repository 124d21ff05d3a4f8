------------------------ MODULE WebSocketConnection ------------------------
(***************************************************************************)
(* WebSocketConnection of core/sdk/Connections.ts, the connection of a     *)
(* front end that runs apart from its host.  Messages are kept until the   *)
(* socket is open; close drops the socket and all its handlers, so that    *)
(* only the close event that disconnect asked for is still heard.          *)
(*                                                                         *)
(* The socket is the browser's: it opens, fails, is closed by either end,  *)
(* and its events come as tasks of their own.  The messages of each        *)
(* direction are numbered.                                                 *)
(***************************************************************************)
EXTENDS Naturals, SequencesExt, FiniteSets

CONSTANTS MaxMessages,    \* bound: messages of each direction
          MaxDisconnects  \* bound: calls of disconnect

BoundsAssumption == MaxMessages \in Nat /\ MaxDisconnects \in Nat

VARIABLES
  hasSocket,  \* #socket is not null
  connected,  \* #connected
  messages,   \* #messages, kept until the socket is open
  listening,  \* the handlers that the socket has for open and message
  onerror,    \* that for error: "onError", "console", or "none"
  onclose,    \* that for close: "onClose", "callback" of disconnect, or "none"
  readyState, \* of the socket: "connecting", "open", "closing" or "closed"
  events,     \* events of the socket that have not been handled
  toBackend,  \* messages under way to the back end
  sent,       \* number of messages handed in
  arrived,    \* those that the back end got
  posted,     \* number of messages that the back end posted
  heard,      \* those that the owner got
  told,       \* how often the owner was told that the connection is gone
  lost,       \* how often onWebSocketDisconnect was called
  promises    \* of each call of disconnect, "kept" or "open", and whether it found a socket

vars == <<hasSocket, connected, messages, listening, onerror, onclose, readyState, events,
          toBackend, sent, arrived, posted, heard, told, lost, promises>>
handlers == <<hasSocket, listening, onerror, onclose>>

Init ==
  /\ hasSocket = TRUE /\ connected = FALSE /\ messages = << >>
  /\ listening = TRUE /\ onerror = "onError" /\ onclose = "onClose"
  /\ readyState = "connecting" /\ events = << >> /\ toBackend = << >>
  /\ sent = 0 /\ arrived = << >> /\ posted = 0 /\ heard = << >>
  /\ told = 0 /\ lost = 0 /\ promises = << >>

sendsAtOnce == hasSocket

sendsNow == connected /\ hasSocket

(* sendRawMessage: to the socket, which drops what it gets while it closes,*)
(* or to the messages that are kept.                                       *)
sendRawMessage ==
  /\ sent < MaxMessages
  /\ sent' = sent + 1
  /\ IF sendsNow
     THEN /\ toBackend' = IF readyState = "open" THEN Append(toBackend, sent + 1) ELSE toBackend
          /\ UNCHANGED messages
     ELSE messages' = Append(messages, sent + 1) /\ UNCHANGED toBackend
  /\ UNCHANGED <<handlers, connected, readyState, events, arrived, posted, heard, told, lost, promises>>

(* close(): all handlers go, but for the callback of disconnect.           *)
close(callback) ==
  IF hasSocket
  THEN /\ hasSocket' = FALSE /\ listening' = FALSE /\ onerror' = "none" /\ onclose' = callback
       /\ readyState' = IF readyState = "closed" THEN "closed" ELSE "closing"
  ELSE UNCHANGED <<handlers, readyState>>

callbackSet == "callback"

(* disconnect(): a promise that its close event keeps.                     *)
disconnect ==
  /\ Len(promises) < MaxDisconnects
  /\ promises' = Append(promises, [kept |-> FALSE, found |-> hasSocket])
  /\ close(callbackSet)
  /\ UNCHANGED <<connected, messages, events, toBackend, sent, arrived, posted, heard, told, lost>>

-----------------------------------------------------------------------------
(* The browser and the back end.                                           *)

Event(type, n) == [type |-> type, n |-> n]

socketOpens ==
  /\ readyState = "connecting"
  /\ readyState' = "open"
  /\ events' = Append(events, Event("open", 0))
  /\ UNCHANGED <<handlers, connected, messages, toBackend, sent, arrived, posted, heard, told, lost, promises>>

(* The connection cannot be made, or one that is made breaks: error and    *)
(* close, in one task.  If the other end closes it, close only.            *)
socketFails ==
  /\ readyState \in {"connecting", "open"}
  /\ readyState' = "closed"
  /\ events' = events \o <<Event("error", 0), Event("close", 0)>>
  /\ toBackend' = << >>
  /\ UNCHANGED <<handlers, connected, messages, sent, arrived, posted, heard, told, lost, promises>>

(* The close handshake, begun by either end: what was sent before arrives. *)
socketCloses ==
  /\ readyState \in {"open", "closing"}
  /\ toBackend = << >>
  /\ readyState' = "closed"
  /\ events' = Append(events, Event("close", 0))
  /\ UNCHANGED <<handlers, connected, messages, toBackend, sent, arrived, posted, heard, told, lost, promises>>

backendReceives ==
  /\ toBackend # << >>
  /\ arrived' = Append(arrived, Head(toBackend))
  /\ toBackend' = Tail(toBackend)
  /\ UNCHANGED <<handlers, connected, messages, readyState, events, sent, posted, heard, told, lost, promises>>

backendPosts ==
  /\ readyState = "open" /\ posted < MaxMessages
  /\ posted' = posted + 1
  /\ events' = Append(events, Event("message", posted + 1))
  /\ UNCHANGED <<handlers, connected, messages, readyState, toBackend, sent, arrived, heard, told, lost, promises>>

-----------------------------------------------------------------------------
(* The handlers of the socket.                                             *)

Handle(type) ==
  /\ events # << >> /\ Head(events).type = type
  /\ events' = Tail(events)

keptAfterOpen == << >>

keptMessages == messages

(* onOpen: what was kept is sent in order, and errors go to the console.   *)
onOpen ==
  /\ Handle("open")
  /\ IF listening
     THEN /\ connected' = TRUE
          /\ onerror' = "console"
          /\ toBackend' = IF readyState = "open" THEN toBackend \o keptMessages ELSE toBackend
          /\ messages' = keptAfterOpen
     ELSE UNCHANGED <<connected, onerror, toBackend, messages>>
  /\ UNCHANGED <<hasSocket, listening, onclose, readyState, sent, arrived, posted, heard, told, lost, promises>>

onMessage ==
  /\ Handle("message")
  /\ heard' = IF listening THEN Append(heard, Head(events).n) ELSE heard
  /\ UNCHANGED <<handlers, connected, messages, readyState, toBackend, sent, arrived, posted, told, lost, promises>>

dropsOnClose == "none"

(* onError and onClose tell the front end and the owner, and close, which  *)
(* takes the handler of what follows.                                      *)
reportsGone ==
  /\ lost' = lost + 1
  /\ told' = told + 1
  /\ close(dropsOnClose)
  /\ UNCHANGED promises

onError ==
  /\ Handle("error")
  /\ IF onerror = "onError" THEN reportsGone
     ELSE UNCHANGED <<handlers, readyState, told, lost, promises>>
  /\ UNCHANGED <<connected, messages, toBackend, sent, arrived, posted, heard>>

(* If disconnect was first, its callback tells the owner, and keeps the    *)
(* promise that was made then; other promises are not heard of again.      *)
keepsPromise ==
  /\ told' = told + 1
  /\ promises' = [i \in DOMAIN promises |-> [promises[i] EXCEPT !.kept = @ \/ promises[i].found]]
  /\ UNCHANGED <<handlers, readyState, lost>>

onClose ==
  /\ Handle("close")
  /\ CASE onclose = "onClose" -> reportsGone
       [] onclose = "callback" -> keepsPromise
       [] onclose = "none" -> UNCHANGED <<handlers, readyState, told, lost, promises>>
  /\ UNCHANGED <<connected, messages, toBackend, sent, arrived, posted, heard>>

Handlers == onOpen \/ onMessage \/ onError \/ onClose

Next ==
  \/ sendRawMessage \/ disconnect
  \/ socketOpens \/ socketFails \/ socketCloses \/ backendReceives \/ backendPosts
  \/ Handlers

(* Events are handled, messages arrive, and a handshake that this end      *)
(* began comes to its end; nothing makes a socket open or the other close. *)
Fairness ==
  /\ WF_vars(Handlers)
  /\ WF_vars(backendReceives)
  /\ WF_vars(readyState = "closing" /\ socketCloses)

Spec == Init /\ [][Next]_vars /\ Fairness

-----------------------------------------------------------------------------
(* Type invariant.                                                         *)
TypeOK ==
  /\ {hasSocket, connected, listening} \subseteq BOOLEAN
  /\ {messages, toBackend, arrived, heard} \subseteq Seq(1..MaxMessages)
  /\ onerror \in {"onError", "console", "none"}
  /\ onclose \in {"onClose", "callback", "none"}
  /\ readyState \in {"connecting", "open", "closing", "closed"}
  /\ events \in Seq([type : {"open", "message", "error", "close"}, n : 0..MaxMessages])
  /\ sent \in 0..MaxMessages /\ posted \in 0..MaxMessages
  /\ told \in 0..1 /\ lost \in 0..1
  /\ promises \in Seq([kept : BOOLEAN, found : BOOLEAN]) /\ Len(promises) <= MaxDisconnects

(* While the socket is there and not closed, every message handed in is at *)
(* the back end, on its way, or kept, in the order it was handed in.       *)
NothingLostWhileUp ==
  hasSocket /\ readyState # "closed" =>
    arrived \o toBackend \o messages = [i \in 1..sent |-> i]

(* A connection ends once, in one way: by a disconnect that found the      *)
(* socket, or by a loss, which is what the user is shown.  The owner hears *)
(* of either.                                                              *)
EndsOnce ==
  LET found == {i \in DOMAIN promises : promises[i].found}
      kept == {i \in DOMAIN promises : promises[i].kept}
  IN  /\ lost + Cardinality(found) <= 1
      /\ hasSocket <=> lost + Cardinality(found) = 0
      /\ told = lost + Cardinality(kept)

(* The connection is a Channel.                                            *)
Wire == INSTANCE Channel
ImplementsChannel == Wire!ChannelSpec

(* What was kept while the socket was not open goes out once it is, unless *)
(* the socket is dropped first.                                            *)
KeptMessagesGoOut ==
  (messages # << >> /\ readyState = "open") ~> (messages = << >> \/ ~hasSocket)

(* The promise of the disconnect that found the socket is kept, whatever   *)
(* state the socket was in.                                                *)
DisconnectIsKept ==
  \A i \in 1..MaxDisconnects :
    (i \in DOMAIN promises /\ promises[i].found) ~> (i \in DOMAIN promises /\ promises[i].kept)
=============================================================================
