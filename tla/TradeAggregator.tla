--------------------------- MODULE TradeAggregator ---------------------------
(***************************************************************************)
(* The 1-second candle aggregator of one symbol (pipeline/aggregator.py).  *)
(*                                                                         *)
(* Trades are numbered in the order in which they reach add_trade(); tape  *)
(* records the 1-second window each of them belongs to.  A trade stands    *)
(* for its own price, so the OHLCV fields of a candle are functions of the *)
(* set of trades it holds and only its close, which a flat candle          *)
(* inherits, is kept.  add_trade() and tick() hold an asyncio lock and     *)
(* contain no await under it: each is one step.                            *)
(***************************************************************************)
EXTENDS Integers, Sequences, FiniteSets

CONSTANTS
  MaxTrade,   (* bound: trades that reach the aggregator                   *)
  MaxClock    (* bound: last second boundary the ticker fires at           *)

ASSUME MaxTradeAssumption == MaxTrade \in Nat
ASSUME MaxClockAssumption == MaxClock \in Nat

NoTime  == -1                 \* _last_emitted_time is None
NoClose == -1                 \* _last_close is None
Seed    == 0                  \* the close read from the database at start-up
NoCandle == [time |-> NoTime, ids |-> {}, close |-> NoClose]

VARIABLES
  current,      (* _current: the window being aggregated, or NoCandle      *)
  pending,      (* _pending: windows closed by add_trade, oldest first     *)
  lastClose,    (* _last_close                                             *)
  lastEmitted,  (* _last_emitted_time                                      *)
  tape,         (* history: the window of every trade received             *)
  emitted,      (* history: every candle returned by tick() or flush()     *)
  clock,        (* the latest "now" tick() was called with                 *)
  orderly       (* history: every trade so far was timely, and flush() was *)
                (* not called                                              *)

aggVars == <<current, pending, lastClose, lastEmitted>>
vars    == <<aggVars, tape, emitted, clock, orderly>>

Trades  == DOMAIN tape
Windows == 0 .. MaxClock - 1
-----------------------------------------------------------------------------
(* TradeAggregation.update on a fresh window and on an open one.           *)
OpenCandle(t, w)   == [time |-> w, ids |-> {t}, close |-> t]
UpdateCandle(c, t) == [c EXCEPT !.ids = @ \union {t}, !.close = t]

(* _emit: the state kept for the next flat candle, and the candle returned.*)
Emit(c) ==
  /\ lastClose'   = c.close
  /\ lastEmitted' = c.time
  /\ emitted'     = Append(emitted, c)

(* A trade of another window than the open one closes that window first,   *)
(* whether the trade is newer or older than it.                            *)
Rolls(w) == current # NoCandle /\ w # current.time

AddTrade(t, w) ==
  /\ pending'   = IF Rolls(w) THEN Append(pending, current) ELSE pending
  /\ lastClose' = IF Rolls(w) THEN current.close ELSE lastClose
  /\ current'   = IF Rolls(w) \/ current = NoCandle
                    THEN OpenCandle(t, w)
                    ELSE UpdateCandle(current, t)
  /\ UNCHANGED lastEmitted
-----------------------------------------------------------------------------
(* tick(now), one disjunct per way through it.                             *)
AlreadyEmittedNext(now)   == lastEmitted # NoTime /\ now - 2 <= lastEmitted

AlreadyEmitted(now) == lastEmitted # NoTime /\ now - 1 <= lastEmitted

TickPendingPeeks ==
  /\ pending # <<>>
  /\ Emit(Head(pending))
  /\ UNCHANGED <<pending, current>>

TickPending ==
  /\ pending # <<>>
  /\ pending' = Tail(pending)
  /\ Emit(Head(pending))
  /\ UNCHANGED current

TickCurrentEarly(now) ==
  /\ pending = <<>>
  /\ ~AlreadyEmitted(now)
  /\ current # NoCandle
  /\ current.time <= now
  /\ current' = NoCandle
  /\ Emit(current)
  /\ UNCHANGED pending

TickCurrent(now) ==
  /\ pending = <<>>
  /\ ~AlreadyEmitted(now)
  /\ current # NoCandle
  /\ current.time <= now - 1
  /\ current' = NoCandle
  /\ Emit(current)
  /\ UNCHANGED pending

FlatCandle(w) == [time |-> w, ids |-> {}, close |-> lastClose]

TickFlat(now) ==
  /\ pending = <<>>
  /\ ~AlreadyEmitted(now)
  /\ current = NoCandle \/ current.time > now - 1
  /\ lastClose # NoClose
  /\ Emit(FlatCandle(now - 1))
  /\ UNCHANGED <<current, pending>>

TickNothing(now) ==
  /\ pending = <<>>
  /\ \/ AlreadyEmitted(now)
     \/ /\ current = NoCandle \/ current.time > now - 1
        /\ lastClose = NoClose
  /\ UNCHANGED <<aggVars, emitted>>

Tick(now) ==
  \/ TickPending
  \/ TickCurrent(now)
  \/ TickFlat(now)
  \/ TickNothing(now)

(* flush(): hands out the open window, whatever waits in _pending.         *)
Flush ==
  /\ current # NoCandle
  /\ current' = NoCandle
  /\ Emit(current)
  /\ UNCHANGED pending
-----------------------------------------------------------------------------
(* ensure_symbol() seeds the close from the database when it has a candle. *)
Init ==
  /\ current = NoCandle
  /\ pending = <<>>
  /\ lastClose \in {NoClose, Seed}
  /\ lastEmitted = NoTime
  /\ tape = <<>>
  /\ emitted = <<>>
  /\ clock = 0
  /\ orderly = TRUE

(* Timely delivery: trades come in the order of their windows, and none    *)
(* comes after the tick that closed its window.                            *)
Timely(w) ==
  /\ w >= clock
  /\ \A t \in Trades : tape[t] <= w

ReceiveTrade ==
  /\ Len(tape) < MaxTrade
  /\ \E w \in Windows :
       /\ orderly' = (orderly /\ Timely(w))
       /\ tape' = Append(tape, w)
       /\ AddTrade(Len(tape) + 1, w)
  /\ UNCHANGED <<emitted, clock>>

(* The ticker sleeps to the next second boundary; it may skip seconds when *)
(* a tick was slow, and fire twice in one when it wakes early.             *)
TickAt(now) ==
  /\ now >= clock
  /\ clock' = now
  /\ Tick(now)
  /\ UNCHANGED <<tape, orderly>>

TickSecond == \E now \in 1 .. MaxClock : TickAt(now)

(* flush_all(), which the pipeline itself never calls.                     *)
FlushAll ==
  /\ Flush
  /\ orderly' = FALSE
  /\ UNCHANGED <<tape, clock>>

Next == ReceiveTrade \/ TickSecond \/ FlushAll

Spec == Init /\ [][Next]_vars

(* Seconds pass and the ticker loop runs for as long as the pipeline does. *)
LiveSpec == Spec /\ WF_vars(TickAt(MaxClock))
-----------------------------------------------------------------------------
CandleType == [time : Nat, ids : SUBSET (Nat \ {0}), close : Nat]

TypeOK ==
  /\ current \in CandleType \union {NoCandle}
  /\ pending \in Seq(CandleType)
  /\ lastClose \in Nat \union {NoClose}
  /\ lastEmitted \in Nat \union {NoTime}
  /\ tape \in Seq(Nat)
  /\ emitted \in Seq(CandleType)
  /\ clock \in Nat
  /\ orderly \in BOOLEAN

(* No trade given to the aggregator is lost: each is in a candle already   *)
(* handed out, in a queued one, or in the open window.                     *)
InEmitted(t) == \E i \in DOMAIN emitted : t \in emitted[i].ids
InPending(t) == \E i \in DOMAIN pending : t \in pending[i].ids
InCurrent(t) == t \in current.ids

NoTradeLost ==
  \A t \in Trades : InEmitted(t) \/ InPending(t) \/ InCurrent(t)

(* No trade is counted twice: a trade is in one candle only, so volume and *)
(* trade_count never count it again.                                       *)
NoTradeTwice ==
  /\ \A i, j \in DOMAIN emitted :
       i # j => emitted[i].ids \intersect emitted[j].ids = {}
  /\ \A i, j \in DOMAIN pending :
       i # j => pending[i].ids \intersect pending[j].ids = {}
  /\ \A i \in DOMAIN emitted, j \in DOMAIN pending :
       emitted[i].ids \intersect pending[j].ids = {}
  /\ \A i \in DOMAIN emitted : emitted[i].ids \intersect current.ids = {}
  /\ \A i \in DOMAIN pending : pending[i].ids \intersect current.ids = {}

(* Together: candles partition the trades that came, in any interleaving   *)
(* of on_trade, tick and flush.                                            *)
EveryTradeOnce == NoTradeLost /\ NoTradeTwice

(* A candle holds trades of its own second only, however late they came.   *)
PureCandle(c) == \A t \in c.ids : t \in Trades /\ tape[t] = c.time

WindowPurity ==
  /\ \A i \in DOMAIN emitted : PureCandle(emitted[i])
  /\ \A i \in DOMAIN pending : PureCandle(pending[i])
  /\ PureCandle(current)

(* With timely delivery a candle handed out holds every trade of its       *)
(* second: trade_count is the number of trades in the window.              *)
CandleComplete ==
  orderly =>
    \A i \in DOMAIN emitted :
      emitted[i].ids = {t \in Trades : tape[t] = emitted[i].time}

(* With timely delivery candles come out in the order of their seconds,    *)
(* one per second at most.                                                 *)
StrictlyLater ==
  orderly =>
    \A i, j \in DOMAIN emitted : i < j => emitted[i].time < emitted[j].time

(* A flat candle carries the price of the last trade before its second,    *)
(* or the seed when there is none.                                         *)
LastBefore(w) ==
  LET earlier == {t \in Trades : tape[t] < w}
  IN  IF earlier = {} THEN Seed
      ELSE CHOOSE t \in earlier : \A u \in earlier : u <= t

FlatCarriesLastPrice ==
  orderly =>
    \A i \in DOMAIN emitted :
      emitted[i].ids = {} => emitted[i].close = LastBefore(emitted[i].time)

(* What a candle handed out says of its second, with timely delivery: all  *)
(* its trades, in its turn, and the last price before it when it has none. *)
CandleTellsItsSecond == CandleComplete /\ StrictlyLater /\ FlatCarriesLastPrice

(* Every trade ends up in a candle that is handed out, as long as trades   *)
(* are timely: each tick hands out one candle at most, and still none is   *)
(* left behind.                                                            *)
EventuallyEmitted ==
  \A t \in 1 .. MaxTrade : (t \in Trades) ~> (InEmitted(t) \/ ~orderly)
=============================================================================
