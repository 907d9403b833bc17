----------------------------- MODULE TickRunner ------------------------------
(***************************************************************************)
(* Strategies on a message bus: MessageBus (infrastructure/redis) and the  *)
(* StrategyRunner that hands every tick to its StrategyManager.  A         *)
(* listener is a task of the bus: it reads one connection at a time, and   *)
(* goes on with a tick until it waits for Redis.  Tasks move in between    *)
(* only while no listener goes on.                                         *)
(***************************************************************************)
EXTENDS Integers, Sequences

CONSTANTS
  Strategies,  \* strategies of the manager
  Channels,    \* symbols, each with its channel
  Watches,     \* the symbols of each strategy
  MaxTicks,    \* bound: ticks published
  MaxBreaks,   \* bound: reads that fail
  MaxCalls     \* bound: calls of start() and stop()

BusAssumption ==
  /\ Watches \in [Strategies -> SUBSET Channels]
  /\ {MaxTicks, MaxBreaks, MaxCalls} \subseteq Nat

VARIABLES
  bus,        \* MessageBus._running
  conn,       \* the number of the current connection, 0 before the first
  known,      \* the channels in _channels
  callbacks,  \* how often each of them has the runner's callback
  heard,      \* the connection that is subscribed to a channel, or 0
  wire,       \* the ticks of each channel that wait there
  starter,    \* start(): the channels left, and the one it waits for
  listeners,  \* the tasks of _listen()
  started,    \* the strategies were started
  spent,      \* ticks, failed reads and calls so far
  work        \* history: the ticks the strategies worked on, in that order

vars == <<bus, conn, known, callbacks, heard, wire, starter, listeners, started, spent, work>>

link == <<bus, conn, known, callbacks, heard, wire>>

Reading(k) == [at |-> "reading", on |-> k]
Asleep     == [at |-> "asleep"]
Gone       == [at |-> "gone"]
MayListen  == DOMAIN listeners

Spend(what) == spent' = [spent EXCEPT ![what] = @ + 1]
-----------------------------------------------------------------------------
(* MessageBus.connect(): a new connection, subscribed to nothing, beside   *)
(* the one before it, and one more listener.                               *)
Connect(others) ==
  /\ bus' = TRUE /\ conn' = conn + 1
  /\ \E l \in MayListen :
       /\ others[l] = Gone
       /\ listeners' = [others EXCEPT ![l] = Reading(conn')]

(* disconnect(): the current connection is closed, its channels stay known.*)
Disconnect ==
  /\ bus' = FALSE
  /\ heard' = [c \in Channels |-> IF heard[c] = conn THEN 0 ELSE heard[c]]
  /\ wire' = [c \in Channels |-> IF heard[c] = conn THEN <<>> ELSE wire[c]]

(* start(), whether or not the runner was started before.                  *)
Start ==
  /\ starter.todo = {} /\ spent.calls < MaxCalls /\ Spend("calls")
  /\ starter' = [todo |-> Channels, waits |-> {}]
  /\ Connect(listeners)
  /\ started' = TRUE
  /\ UNCHANGED <<known, callbacks, heard, wire, work>>

SubscribeAgain(c) ==
  /\ starter.waits = {} /\ c \in starter.todo
  /\ known' = known \union {c}
  /\ heard' = [heard EXCEPT ![c] = conn]
  /\ starter' = [starter EXCEPT !.waits = {c}]
  /\ UNCHANGED <<bus, conn, callbacks, wire, listeners, started, spent, work>>

(* subscribe(): only a channel that was not known is asked of Redis, on    *)
(* the connection there is now, and the callback is added behind that.     *)
Subscribe(c) ==
  /\ starter.waits = {} /\ c \in starter.todo
  /\ IF c \in known
     THEN /\ callbacks' = [callbacks EXCEPT ![c] = @ + 1]
          /\ starter' = [starter EXCEPT !.todo = @ \ {c}]
          /\ UNCHANGED <<known, heard>>
     ELSE /\ known' = known \union {c}
          /\ heard' = [heard EXCEPT ![c] = conn]
          /\ starter' = [starter EXCEPT !.waits = {c}]
          /\ UNCHANGED callbacks
  /\ UNCHANGED <<bus, conn, wire, listeners, started, spent, work>>

Subscribed(c) ==
  /\ c \in starter.waits
  /\ callbacks' = [callbacks EXCEPT ![c] = @ + 1]
  /\ starter' = [todo |-> starter.todo \ {c}, waits |-> {}]
  /\ UNCHANGED <<bus, conn, known, heard, wire, listeners, started, spent, work>>

(* Redis fails, and start() with it: the channel stays known.              *)
SubscribeFails(c) ==
  /\ c \in starter.waits /\ starter' = [todo |-> {}, waits |-> {}]
  /\ heard' = [heard EXCEPT ![c] = 0] /\ wire' = [wire EXCEPT ![c] = <<>>]
  /\ UNCHANGED <<bus, conn, known, callbacks, listeners, started, spent, work>>

Stop ==
  /\ starter.todo = {} /\ spent.calls < MaxCalls /\ Spend("calls")
  /\ Disconnect /\ started' = FALSE
  /\ UNCHANGED <<conn, known, callbacks, starter, listeners, work>>

(* A tick somebody else publishes: Redis keeps none that nobody hears.     *)
Publish(c) ==
  /\ spent.ticks < MaxTicks /\ Spend("ticks")
  /\ wire' = IF heard[c] # 0 THEN [wire EXCEPT ![c] = Append(@, spent.ticks + 1)] ELSE wire
  /\ UNCHANGED <<bus, conn, known, callbacks, heard, starter, listeners, started, work>>
-----------------------------------------------------------------------------
(* _listen(): a read that fails makes the listener wait and connect again, *)
(* whatever became of the bus meanwhile.                                   *)
ReadFails(l) ==
  /\ listeners[l].at = "reading" /\ bus /\ spent.breaks < MaxBreaks /\ Spend("breaks")
  /\ listeners' = [listeners EXCEPT ![l] = Asleep]
  /\ UNCHANGED <<link, starter, started, work>>

Reconnect(l) ==
  /\ listeners[l] = Asleep
  /\ Connect([listeners EXCEPT ![l] = Reading(conn + 1)])
  /\ UNCHANGED <<known, callbacks, heard, wire, starter, started, spent, work>>

(* A read finds nothing: the next one is of the connection there is then.  *)
ReadsOn(l) ==
  /\ listeners[l].at = "reading" /\ bus
  /\ \A c \in Channels : heard[c] = listeners[l].on => wire[c] = <<>>
  /\ listeners' = [listeners EXCEPT ![l] = Reading(conn)]
  /\ UNCHANGED <<link, starter, started, spent, work>>

ListenerEnds(l) ==
  /\ listeners[l].at = "reading" /\ ~bus
  /\ listeners' = [listeners EXCEPT ![l] = Gone]
  /\ UNCHANGED <<link, starter, started, spent, work>>

(* _process_message(): the callbacks of the channel by their place in the  *)
(* list, which may grow while one of them is awaited.                      *)
TakeMessage(l, c) ==
  /\ listeners[l].at = "reading" /\ heard[c] = listeners[l].on /\ wire[c] # <<>>
  /\ listeners' = [listeners EXCEPT ![l] =
                     [at |-> "tick", on |-> heard[c], symbol |-> c, tick |-> Head(wire[c]),
                      place |-> 0, unsent |-> {}]]
  /\ wire' = [wire EXCEPT ![c] = Tail(@)]
  /\ UNCHANGED <<bus, conn, known, callbacks, heard, starter, started, spent, work>>

Working(l) == listeners[l].at = "tick"
GoesOn(l)  == Working(l) /\ listeners[l].unsent = {}
Waiting    == \A l \in MayListen : ~GoesOn(l)

(* StrategyRunner._on_tick(): all strategies of the symbol at once; one    *)
(* that raises is passed over.                                             *)
OnTick(l) ==
  LET c == listeners[l].symbol IN
  /\ GoesOn(l) /\ listeners[l].place < callbacks[c]
  /\ \E signalling \in SUBSET {s \in Strategies : started /\ c \in Watches[s]} :
       listeners' = [listeners EXCEPT ![l].place = @ + 1, ![l].unsent = signalling]
  /\ work' = IF started
             THEN Append(work, [symbol |-> c, tick |-> listeners[l].tick,
                                current |-> listeners[l].on = conn])
             ELSE work
  /\ UNCHANGED <<link, starter, started, spent>>

(* The signals are published one after the other; publish() never raises.  *)
PublishSignal(l, s) ==
  /\ Working(l) /\ s \in listeners[l].unsent
  /\ listeners' = [listeners EXCEPT ![l].unsent = @ \ {s}]
  /\ UNCHANGED <<link, starter, started, spent, work>>

MessageDone(l) ==
  /\ GoesOn(l) /\ listeners[l].place >= callbacks[listeners[l].symbol]
  /\ listeners' = [listeners EXCEPT ![l] = Reading(conn)]
  /\ UNCHANGED <<link, starter, started, spent, work>>
-----------------------------------------------------------------------------
Init ==
  /\ bus = FALSE /\ conn = 0 /\ known = {} /\ callbacks = [c \in Channels |-> 0]
  /\ heard = [c \in Channels |-> 0] /\ wire = [c \in Channels |-> <<>>]
  /\ starter = [todo |-> {}, waits |-> {}]
  /\ listeners = [l \in 1 .. MaxBreaks + MaxCalls |-> Gone]
  /\ started = FALSE
  /\ spent = [ticks |-> 0, breaks |-> 0, calls |-> 0]
  /\ work = <<>>

Listen(l) ==
  \/ ReadFails(l) \/ Reconnect(l) \/ ReadsOn(l) \/ ListenerEnds(l)
  \/ \E c \in Channels : TakeMessage(l, c)
  \/ \E s \in Strategies : PublishSignal(l, s)

Next ==
  \/ \E l \in MayListen : OnTick(l) \/ MessageDone(l)
  \/ /\ Waiting
     /\ \/ Start \/ Stop
        \/ \E c \in Channels : Subscribe(c) \/ Subscribed(c) \/ SubscribeFails(c) \/ Publish(c)
        \/ \E l \in MayListen : Listen(l)

RunnerSpec == Init /\ [][Next]_vars
-----------------------------------------------------------------------------
TypeOK ==
  /\ {bus, started} \subseteq BOOLEAN /\ conn \in 0 .. MaxBreaks + MaxCalls
  /\ known \subseteq Channels /\ heard \in [Channels -> 0 .. conn]
  /\ \A c \in Channels : \A i \in DOMAIN wire[c] : wire[c][i] \in 1 .. MaxTicks
  /\ starter.waits \subseteq starter.todo /\ starter.todo \subseteq Channels
  /\ \A l \in MayListen : listeners[l].at \in {"gone", "reading", "asleep", "tick"}

(* While a connection is the current one, strategies work on each of its   *)
(* ticks once and in the order of the ticks, however often the bus was     *)
(* connected and the runner started before, and however many listeners     *)
(* that left behind (message_bus.py:201).  Behind a new start() a tick     *)
(* still at hand reaches the callback that was added since (:221).         *)
WorksOnceInOrder ==
  \A j \in DOMAIN work : \A i \in 1 .. j - 1 :
    work[j].current /\ work[i].symbol = work[j].symbol => work[i].tick < work[j].tick
=============================================================================
