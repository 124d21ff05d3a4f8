--------------------------- MODULE ProtocolCalls ---------------------------
(***************************************************************************)
(* What the protocol client promises to the callers of its agents: a call  *)
(* on a session is settled at most once, by a response received while the  *)
(* session is open or by an error once the session is closed, and a closed *)
(* session never opens again.                                              *)
(***************************************************************************)
CONSTANTS Calls, Sessions, Root

VARIABLES state,    \* state[c]: unused, pending, answered or closed
          on,       \* on[c]: the session of the call
          open,     \* the open sessions
          closed    \* the sessions that were open once

vars == <<state, on, open, closed>>

Init ==
  /\ state = [c \in Calls |-> "unused"]
  /\ on = [c \in Calls |-> Root]
  /\ open = {Root}
  /\ closed = {}

Open(s) ==
  /\ s \notin open \cup closed
  /\ open' = open \cup {s}
  /\ UNCHANGED <<state, on, closed>>

Close(S) ==
  /\ S # {} /\ S \subseteq open
  /\ open' = open \ S
  /\ closed' = closed \cup S
  /\ UNCHANGED <<state, on>>

Start(c, s) ==
  /\ state[c] = "unused"
  /\ state' = [state EXCEPT ![c] = "pending"]
  /\ on' = [on EXCEPT ![c] = s]
  /\ UNCHANGED <<open, closed>>

Answer(c) ==
  /\ state[c] = "pending" /\ on[c] \in open
  /\ state' = [state EXCEPT ![c] = "answered"]
  /\ UNCHANGED <<on, open, closed>>

Fail(c) ==
  /\ state[c] = "pending" /\ on[c] \in closed
  /\ state' = [state EXCEPT ![c] = "closed"]
  /\ UNCHANGED <<on, open, closed>>

Next ==
  \/ \E s \in Sessions : Open(s)
  \/ \E S \in SUBSET Sessions : Close(S)
  \/ \E c \in Calls : Answer(c) \/ Fail(c) \/ \E s \in Sessions : Start(c, s)

Spec == Init /\ [][Next]_vars
============================================================================
