-------------------------- MODULE WebSocketManager ---------------------------
(***************************************************************************)
(* The connection loop of BinanceWebSocketManager                          *)
(* (pipeline/websocket_manager.py): one task connects, reads, and          *)
(* reconnects with exponential backoff; another task may call stop() while *)
(* it is suspended.  Messages are not modelled, only the connections.      *)
(***************************************************************************)
EXTENDS Integers, FiniteSets

CONSTANTS
  MaxConnections,   (* bound: connections opened                           *)
  MaxDelay,         (* MAX_RECONNECT_DELAY, in seconds                     *)
  MaxFailures       (* bound: failures in a row that are told apart        *)

ASSUME MaxConnectionsAssumption == MaxConnections \in Nat
ASSUME MaxDelayAssumption == MaxDelay \in Nat \ {0}
ASSUME MaxFailuresAssumption == MaxFailures \in Nat /\ 2 ^ MaxFailures >= MaxDelay

VARIABLES
  running,   (* _running                                                   *)
  pc,        (* the await the task is suspended at                         *)
  ws,        (* _ws: the connection the manager knows, 0 for None          *)
  open,      (* the connections that are open                              *)
  opened,    (* how many were opened                                       *)
  replaced,  (* history: those another one took the place of while open    *)
  delay,     (* _reconnect_delay                                           *)
  failures   (* history: waits since the last successful reconnection      *)

socketVars == <<running, pc, ws, open, opened, replaced, delay, failures>>

InitialDelay == 1
Least(a, b)  == IF a <= b THEN a ELSE b
-----------------------------------------------------------------------------
(* _connect: the connection it makes takes the place of the one known so   *)
(* far, which nobody closes if it is open.                                 *)
Opens ==
  /\ opened < MaxConnections
  /\ opened' = opened + 1
  /\ ws' = opened + 1
  /\ open' = open \union {opened + 1}
  /\ replaced' = replaced \union ({ws} \intersect open)

(* The loop of start() connects ...                                        *)
Connect ==
  /\ pc = "connect"
  /\ Opens
  /\ pc' = "read"
  /\ UNCHANGED <<running, delay, failures>>

(* ... and goes to _reconnect when that fails.                             *)
ConnectFails ==
  /\ pc = "connect"
  /\ pc' = IF running THEN "sleep" ELSE "ended"
  /\ UNCHANGED <<running, ws, open, opened, replaced, delay, failures>>

ServerCloses ==
  /\ \E c \in open : open' = open \ {c}
  /\ UNCHANGED <<running, pc, ws, opened, replaced, delay, failures>>

(* _message_loop ends: with ConnectionClosed, or normally after an orderly *)
(* close, after which start() connects again at once.                      *)
ReadBreaks ==
  /\ pc = "read" /\ ws \notin open
  /\ pc' = IF running THEN "sleep" ELSE "ended"
  /\ UNCHANGED <<running, ws, open, opened, replaced, delay, failures>>

ReadEnds ==
  /\ pc = "read" /\ ws \notin open
  /\ pc' = IF running THEN "connect" ELSE "ended"
  /\ UNCHANGED <<running, ws, open, opened, replaced, delay, failures>>

(* A message read after stop() ends the loop without being processed.      *)
ReadAfterStop ==
  /\ pc = "read" /\ ws \in open /\ ~running
  /\ pc' = "ended"
  /\ UNCHANGED <<running, ws, open, opened, replaced, delay, failures>>
-----------------------------------------------------------------------------
(* _reconnect: wait, and double the delay for the next attempt.            *)
Wait ==
  /\ pc = "sleep"
  /\ delay' = Least(delay * 2, MaxDelay)
  /\ failures' = Least(failures + 1, MaxFailures)
  /\ pc' = "reconnect"
  /\ UNCHANGED <<running, ws, open, opened, replaced>>

(* It succeeds, resets the delay and returns to start(), whose loop        *)
(* connects once more: of the two connections the manager knows the        *)
(* second only, and the first stays open.                                  *)
Reconnect ==
  /\ pc = "reconnect"
  /\ Opens
  /\ delay' = InitialDelay
  /\ failures' = 0
  /\ pc' = IF running THEN "connect" ELSE "ended"
  /\ UNCHANGED running

ReconnectFails ==
  /\ pc = "reconnect"
  /\ pc' = IF running THEN "sleep" ELSE "ended"
  /\ UNCHANGED <<running, ws, open, opened, replaced, delay, failures>>
-----------------------------------------------------------------------------
(* stop(), called by another task, closes the connection known then.       *)
StopSocket ==
  /\ running
  /\ running' = FALSE
  /\ open' = open \ {ws}
  /\ UNCHANGED <<pc, ws, opened, replaced, delay, failures>>

SocketInit ==
  /\ running = TRUE /\ pc = "connect"
  /\ ws = 0 /\ open = {} /\ opened = 0 /\ replaced = {}
  /\ delay = InitialDelay /\ failures = 0

Read      == ReadBreaks \/ ReadEnds \/ ReadAfterStop
Succeed   == Connect \/ Reconnect
GiveError == ConnectFails \/ ReconnectFails

SocketNext == Succeed \/ GiveError \/ Read \/ Wait \/ ServerCloses \/ StopSocket

SocketSpec == SocketInit /\ [][SocketNext]_socketVars

-----------------------------------------------------------------------------
SocketTypeOK ==
  /\ running \in BOOLEAN
  /\ pc \in {"connect", "read", "sleep", "reconnect", "ended"}
  /\ opened \in 0 .. MaxConnections
  /\ ws \in 0 .. opened /\ open \subseteq 1 .. opened /\ replaced \subseteq 1 .. opened
  /\ delay \in 1 .. MaxDelay /\ failures \in 0 .. MaxFailures

Doubled[n \in 0 .. MaxFailures] ==
  IF n = 0 THEN InitialDelay ELSE Least(2 * Doubled[n - 1], MaxDelay)

(* The delay doubles with every failed attempt up to its maximum, over any *)
(* mix of failed connects, broken reads and stops, and is back at its      *)
(* initial value once a reconnection succeeded.                            *)
BackoffFollowsFailures == delay = Doubled[failures]
=============================================================================
