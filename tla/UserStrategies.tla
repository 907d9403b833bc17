---------------------------- MODULE UserStrategies ----------------------------
(***************************************************************************)
(* The trading strategies of src/strategies/user and of domain/strategies, *)
(* as an engine meets them: on_tick, which may return a signal, and        *)
(* on_position_closed.                                                     *)
(*                                                                         *)
(* What an indicator reads is arbitrary and decides only whether a signal  *)
(* that the strategy's own state allows is given.  What a strategy keeps   *)
(* is modelled: what it believes to hold, the grid it trades on, and what  *)
(* it remembers of the last readings, as far as it decides (above or below *)
(* the signal line, how many times in a row the indicator fell).           *)
(***************************************************************************)
EXTENDS SimulatedMarket

CONSTANTS
  Kinds,      \* the strategy classes to run
  GridSize,   \* grid_size, even
  ProfitPart, \* grid_profit_pct, in parts of Scale
  TestPart,   \* the half percent of macd_peak's test order, in parts of Scale
  Lookback,   \* trend_lookback
  MaxOpen     \* max_open_positions

Counting == {"macd_momentum", "macd_cross"}
Flagged  == {"sma_cross", "example_rsi", "bollinger"}
Dipping  == {"macd_buy", "mean_reversion", "rsi_peak", "macd_peak"}
Domain   == {"rsi", "macd", "sma_crossover", "bollinger_bands", "multi_indicator"}

ASSUME StrategyAssumption ==
  /\ Kinds \subseteq {"grid", "infinity_grid"} \union Counting \union Flagged \union Dipping \union Domain
  /\ GridSize \in Nat /\ GridSize % 2 = 0
  /\ {ProfitPart, TestPart, MaxOpen} \subseteq Nat
  /\ Lookback \in Nat /\ Lookback >= 2

VARIABLES
  kind,       \* the strategy's class
  own,        \* _open_position_count of the counting strategies
  inPosition, \* in_position of sma_cross and bollinger, position_open of example_rsi
  ref,        \* reference_price of the grids, the first price
  last,       \* last_price of the grids
  used,       \* _used_buy_levels of the grid
  locked,     \* _symbol_locked_level of the infinity grid
  side,       \* where the last fast value was: "below", "on", "above" the slow one, or "unknown"
  falls,      \* times in a row that the values of the history fell; Unseen if empty
  cool,       \* _signal_cooldown of macd_peak
  testBuy     \* macd_peak: the test order is configured and not given yet

beliefVars   == <<own, inPosition>>
gridVars     == <<ref, last, used, locked>>
readVars     == <<side, falls, cool, testBuy>>
strategyVars == <<kind, beliefVars, gridVars, readVars>>

Never  == 0
NoLock == -2
Unseen == -1

BuySignal(tp, level) == [type |-> "BUY", tp |-> tp, level |-> level]
SellSignal(level)    == [type |-> "SELL", tp |-> Never, level |-> level]
NoSignal             == [type |-> "none", tp |-> Never, level |-> Never]

Target(p) == p * (Scale + ProfitPart)  \* expected_profit_price
-----------------------------------------------------------------------------
(* GridTradingStrategy: level 2n buys, level 2n + 1 is its take-profit.    *)
Level(i) == IF i % 2 = 0 THEN ref - (i \div 2 + 1) ELSE ref - (i \div 2 - 1)

BuyLevels == {i \in 0 .. GridSize - 1 : i % 2 = 0}

CrossedUpAnywhere(i, p) == i \in used /\ last < p /\ p >= Level(i)

(* _detect_crossing returns at the first level that is crossed: a BUY at   *)
(* level i, a SELL at the take-profit of level i.                          *)
CrossedDown(i, p) == i \notin used /\ last > Level(i) /\ p <= Level(i)
CrossedUp(i, p)   == i \in used /\ last < Level(i + 1) /\ p >= Level(i + 1)

Crossed(p) == {i \in BuyLevels : CrossedDown(i, p) \/ CrossedUp(i, p)}
First(p)   == Min(Crossed(p))

GridSignal(p) ==
  IF ref = Never \/ Crossed(p) = {} THEN NoSignal
  ELSE IF CrossedDown(First(p), p)
    THEN BuySignal(Level(First(p) + 1) * Scale, First(p))
    ELSE SellSignal(First(p))

Grid(p, signal) ==
  /\ kind = "grid" /\ signal = GridSignal(p)
  /\ used' = (used \ {signal.level : x \in {signal.type} \intersect {"SELL"}})
               \union {signal.level : x \in {signal.type} \intersect {"BUY"}}
  /\ UNCHANGED <<locked, readVars>>
-----------------------------------------------------------------------------
(* InfinityGridStrategy: levels on both sides of the first price, lowest   *)
(* first.  A BUY locks buying; only the first level of the list that a     *)
(* tick crosses is looked at to unlock it.                                 *)
Half     == GridSize \div 2
Line(i)  == IF i < Half THEN ref - (Half - i) ELSE ref + (i - Half + 1)
Lines    == 0 .. GridSize - 1

Falls(i, p)   == last > Line(i) /\ p <= Line(i)
Crosses(i, p) == Falls(i, p) \/ (last < Line(i) /\ p >= Line(i))

FirstLine(p) == Min({i \in Lines : Crosses(i, p)})

Adjacent(i)  == i - locked \in {-1, 1}
OtherSide(i) == (i < Half) # (locked < Half)

Unlocking(p) == locked # NoLock /\ \E i \in Lines : Crosses(i, p)

LockAfter(p) ==
  IF Unlocking(p) /\ (Adjacent(FirstLine(p)) \/ OtherSide(FirstLine(p))) THEN NoLock ELSE locked

Buyable(p) ==
  {i \in Lines : Falls(i, p) /\ ~(Unlocking(p) /\ Adjacent(FirstLine(p)) /\ i = FirstLine(p))}

InfinitySignal(p) ==
  IF ref = Never \/ LockAfter(p) # NoLock \/ Buyable(p) = {} THEN NoSignal
  ELSE BuySignal(Target(Line(Min(Buyable(p)))), Min(Buyable(p)))

InfinityGrid(p, signal) ==
  /\ kind = "infinity_grid" /\ signal = InfinitySignal(p)
  /\ locked' = CASE signal.type = "BUY" -> signal.level
                 [] ref = Never -> NoLock
                 [] OTHER -> LockAfter(p)
  /\ UNCHANGED <<used, readVars>>

(* Both grids take the first price as their reference.                     *)
OnGrid(p, signal) ==
  /\ Grid(p, signal) \/ InfinityGrid(p, signal)
  /\ ref' = IF ref = Never THEN p ELSE ref
  /\ last' = p
-----------------------------------------------------------------------------
(* What is believed after n positions were closed: on_position_closed      *)
(* counts one down, or forgets the only one; bollinger does not override   *)
(* it and goes on believing.                                               *)
OwnAfter(n)  == Max({0, own - n})
FlagAfter(n) == inPosition /\ (n = 0 \/ kind = "bollinger")

Closed(n) == own' = OwnAfter(n) /\ inPosition' = FlagAfter(n)

(* A signal is counted when it is given, whatever becomes of it, and a     *)
(* position that it closes is counted down again in on_position_closed.    *)
OwnSignalled(signal, n) ==
  CASE kind \notin Counting   -> 0
    [] signal.type = "BUY"    -> OwnAfter(n) + 1
    [] signal.type = "SELL"   -> Max({0, OwnAfter(n) - 1})
    [] OTHER                  -> OwnAfter(n)

Believes(signal, n, sold) ==
  /\ own' = Max({0, OwnSignalled(signal, n) - sold})
  /\ inPosition' = CASE kind \notin Flagged    -> FALSE
                     [] signal.type = "BUY"    -> TRUE
                     [] signal.type = "SELL"   -> FALSE
                     [] OTHER                  -> FlagAfter(n)

MayBuy(n)  == IF kind \in Counting THEN OwnAfter(n) < MaxOpen ELSE ~FlagAfter(n)
MaySell(n) == IF kind \in Counting THEN OwnAfter(n) > 0 ELSE FlagAfter(n)

(* The fast value crossed the slow one since the last tick.                *)
Sides == {"below", "on", "above"}
Over(now)  == side # "above" /\ now = "above"
Under(now) == side # "below" /\ now = "below"

(* macd_momentum: any reading.                                             *)
Momentum(p, signal, n) ==
  /\ kind = "macd_momentum"
  /\ \/ signal = NoSignal
     \/ signal = BuySignal(Target(p), Never) /\ MayBuy(n)
     \/ signal = SellSignal(Never) /\ MaySell(n)
  /\ UNCHANGED readVars

(* Any reading of the RSI; the price at one of the bands.                  *)
ByFlag(signal, n) ==
  /\ \/ signal = NoSignal
     \/ signal = BuySignal(Never, Never) /\ MayBuy(n)
     \/ signal = SellSignal(Never) /\ MaySell(n)
  /\ UNCHANGED readVars

ExampleRsi(signal, n) == kind = "example_rsi" /\ ByFlag(signal, n)
Bollinger(signal, n)  == kind = "bollinger" /\ ByFlag(signal, n)

(* The moving averages crossed.                                            *)
SmaCross(signal, n, now) ==
  /\ kind = "sma_cross"
  /\ signal = IF Over(now) /\ MayBuy(n) THEN BuySignal(Never, Never)
              ELSE IF Under(now) /\ MaySell(n) THEN SellSignal(Never) ELSE NoSignal
  /\ side' = now
  /\ UNCHANGED <<falls, cool, testBuy>>

(* The MACD crossed its signal line.  A change that is small among the     *)
(* last ones is noise and gives no signal, but the reading is remembered.  *)
MacdCross(signal, n, now) ==
  /\ kind = "macd_cross"
  /\ \/ signal = NoSignal
     \/ signal = BuySignal(Never, Never) /\ Over(now) /\ MayBuy(n)
     \/ signal = SellSignal(Never) /\ Under(now) /\ MaySell(n)
  /\ side' = now
  /\ UNCHANGED <<falls, cool, testBuy>>

(* The same without a SELL, below the averages and a border.               *)
MacdBuy(p, signal, now) ==
  /\ kind = "macd_buy"
  /\ \/ signal = NoSignal
     \/ signal = BuySignal(Target(p), Never) /\ Over(now)
  /\ side' = now
  /\ UNCHANGED <<falls, cool, testBuy>>

(* mean_reversion: at or below the lower band, however often.              *)
MeanReversion(p, signal) ==
  /\ kind = "mean_reversion"
  /\ signal \in {NoSignal, BuySignal(Target(p), Never)}
  /\ UNCHANGED readVars

(* rsi_peak and macd_peak: after Lookback - 1 falls in a row, a rise.      *)
Fell(trend) ==
  IF trend = "falls" /\ falls # Unseen THEN Min({falls + 1, Lookback - 1}) ELSE 0

Turned(trend) == falls = Lookback - 1 /\ trend = "rises"

RsiPeak(p, signal, trend) ==
  /\ kind = "rsi_peak"
  /\ \/ signal = NoSignal
     \/ signal = BuySignal(Target(p), Never) /\ Turned(trend)
  /\ falls' = Fell(trend)
  /\ UNCHANGED <<side, cool, testBuy>>

(* macd_peak remembers only the readings that its filters let through, and *)
(* after a BUY lets Lookback + 1 of them pass.                             *)
MacdPeak(p, signal, trend) ==
  /\ kind = "macd_peak" /\ ~testBuy
  /\ \/ signal = NoSignal /\ cool' = Max({0, cool - 1})
     \/ /\ signal = BuySignal(Target(p), Never)
        /\ cool = 0 /\ Turned(trend)
        /\ cool' = Lookback + 1
  /\ falls' = Fell(trend)
  /\ UNCHANGED <<side, testBuy>>

(* The order of test_buy_enabled on the first tick, before any filter.     *)
TestBuy(p, signal) ==
  /\ kind = "macd_peak" /\ testBuy
  /\ signal = BuySignal(p * (Scale + TestPart), Never)
  /\ testBuy' = FALSE
  /\ UNCHANGED <<side, falls, cool>>

(* No reading, or one that a filter of the averages, of the day's or the   *)
(* week's price stops before it is remembered.                             *)
Unread(signal) ==
  /\ kind \in {"macd_cross", "macd_buy", "rsi_peak"} \/ (kind = "macd_peak" /\ ~testBuy)
  /\ signal = NoSignal
  /\ UNCHANGED readVars

(* The strategies of domain/strategies believe nothing: they signal what   *)
(* they read, also a SELL with nothing held.  A missing indicator reads as *)
(* zero: the two that compare with the last tick remember both lines on    *)
(* one another, the bands say SELL at any price.                           *)
AnyOf(signal) ==
  /\ signal \in {NoSignal, BuySignal(Never, Never), SellSignal(Never)}
  /\ UNCHANGED readVars

Rsi(signal)            == kind = "rsi" /\ AnyOf(signal)
BollingerBands(signal) == kind = "bollinger_bands" /\ AnyOf(signal)
MultiIndicator(signal) == kind = "multi_indicator" /\ AnyOf(signal)

LinesCross(signal, now) ==
  /\ signal = IF side = "unknown" THEN NoSignal
              ELSE IF Over(now) THEN BuySignal(Never, Never)
              ELSE IF Under(now) THEN SellSignal(Never) ELSE NoSignal
  /\ side' = now
  /\ UNCHANGED <<falls, cool, testBuy>>

Macd(signal, now)         == kind = "macd" /\ LinesCross(signal, now)
SmaCrossover(signal, now) == kind = "sma_crossover" /\ LinesCross(signal, now)

OnDomain(signal) ==
  \/ Rsi(signal) \/ BollingerBands(signal) \/ MultiIndicator(signal)
  \/ \E now \in Sides : Macd(signal, now) \/ SmaCrossover(signal, now)

OnIndicators(p, signal, n) ==
  /\ \/ Momentum(p, signal, n)
     \/ ExampleRsi(signal, n) \/ Bollinger(signal, n)
     \/ \E now \in Sides :
          SmaCross(signal, n, now) \/ MacdCross(signal, n, now) \/ MacdBuy(p, signal, now)
     \/ MeanReversion(p, signal)
     \/ \E trend \in {"falls", "rises", "flat"} :
          RsiPeak(p, signal, trend) \/ MacdPeak(p, signal, trend)
     \/ TestBuy(p, signal)
     \/ Unread(signal)
     \/ OnDomain(signal)
  /\ UNCHANGED gridVars
-----------------------------------------------------------------------------
(* process_tick, after n positions were closed and with open left: at the  *)
(* limit on_tick is not called.  sold counts what the signal closes.       *)
OnTick(p, signal, open, n, sold) ==
  /\ Believes(signal, n, sold)
  /\ IF open < MaxOpen
       THEN OnGrid(p, signal) \/ OnIndicators(p, signal, n)
       ELSE signal = NoSignal /\ UNCHANGED <<gridVars, readVars>>
  /\ UNCHANGED kind

SignalsAt(p) ==
  CASE kind = "grid"          -> {GridSignal(p), NoSignal}
    [] kind = "infinity_grid" -> {InfinitySignal(p), NoSignal}
    [] OTHER -> {NoSignal, SellSignal(Never), BuySignal(Never, Never),
                 BuySignal(Target(p), Never), BuySignal(p * (Scale + TestPart), Never)}

StrategyInit ==
  /\ kind \in Kinds
  /\ own = 0 /\ inPosition = FALSE
  /\ ref = Never /\ last = Never /\ used = {} /\ locked = NoLock
  /\ side = (IF kind \in Domain THEN "unknown" ELSE "on") /\ falls = Unseen /\ cool = 0
  /\ testBuy \in BOOLEAN /\ (testBuy => kind = "macd_peak")
=============================================================================
