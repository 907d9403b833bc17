----------------------------- MODULE OrderFilters -----------------------------
(***************************************************************************)
(* The exchange's trading rules for one symbol and what the two layers in  *)
(* front of it make of a quantity and a price: BinanceExchangeClient,      *)
(* which rounds every order, and BinanceFilterEngine with OrderNormalizer, *)
(* which also clamps, and adjusts and tries again.  Decimals are integers  *)
(* in the unit of the last decimal the exchange prints.                    *)
(*                                                                         *)
(* quantize(step) rounds to the step's last printed decimal and not to a   *)
(* multiple of the step.  The client strips trailing zeros first           *)
(* (binance_exchange_client.py:71-78) and so rounds to the power of ten in *)
(* the step; the engine parses the printed string as it is                 *)
(* (binance_filters.py:282-337) and so rounds to the unit.                 *)
(***************************************************************************)
EXTENDS Integers

CONSTANTS
  DefaultUnit,     \* the last decimal of the default step and tick sizes
  DefaultNotional, \* SymbolFilters.min_notional when none was fetched
  Huge             \* 9999999999: no upper limit

ASSUME FilterAssumption ==
  /\ {DefaultUnit, DefaultNotional, Huge} \subseteq Nat \ {0}
  /\ DefaultUnit <= Huge

Types   == {"MARKET", "LIMIT"}
Sides   == {"BUY", "SELL"}
NoPrice == 0

(* The filter an exchange states the least worth of an order in.           *)
NotionalFilters == {"MIN_NOTIONAL", "NOTIONAL"}

RoundDown(x, unit)   == x - (x % unit)
RoundHalfUp(x, unit) == RoundDown(2 * x + unit, 2 * unit) \div 2
Clamp(x, low, high)  == IF x > high THEN IF high < low THEN low ELSE high
                        ELSE IF x < low THEN low ELSE x

(* The rules of a symbol: the step a quantity must be a multiple of, the   *)
(* power of ten in it and in the tick, the limits, by type of order where  *)
(* LOT_SIZE and MARKET_LOT_SIZE differ.                                    *)
Filters ==
  [step : [Types -> Nat \ {0}], lot : [Types -> Nat \ {0}], tick : Nat \ {0},
   minQty : [Types -> Nat], maxQty : [Types -> Nat],
   minPrice : Nat, maxPrice : Nat, minNotional : Nat, maxNotional : Nat,
   minimumIn : NotionalFilters]

WellFormed(f) ==
  /\ f \in Filters
  /\ f.minPrice <= f.maxPrice
  /\ \A type \in Types : f.minQty[type] <= f.maxQty[type]

(* What is used when the rules cannot be fetched, or name no such symbol.  *)
Defaults(notional) ==
  [step        |-> [type \in Types |-> DefaultUnit],
   lot         |-> [type \in Types |-> DefaultUnit],
   tick        |-> DefaultUnit,
   minQty      |-> [type \in Types |-> 0],
   maxQty      |-> [type \in Types |-> Huge],
   minPrice    |-> 0, maxPrice |-> Huge,
   minNotional |-> notional, maxNotional |-> Huge,
   minimumIn   |-> "MIN_NOTIONAL"]

ClientDefaults == Defaults(0)
EngineDefaults == Defaults(DefaultNotional)

(* The client knows the least worth from a MIN_NOTIONAL filter only and    *)
(* puts none for one the exchange states in NOTIONAL, which the engine     *)
(* reads (binance_filters.py:313).                                         *)
ClientReads(f) ==
  IF f.minimumIn = "MIN_NOTIONAL" THEN f ELSE [f EXCEPT !.minNotional = 0]

(* The client: round the quantity down and the price to the nearest, and   *)
(* refuse what is worth too little; without a price nothing is checked.    *)
ClientQtyNearest(f, qty, type) == RoundHalfUp(qty, f.lot[type])

ClientQty(f, qty, type) == RoundDown(qty, f.lot[type])

ClientPrice(f, price) ==
  IF price = NoPrice THEN NoPrice ELSE RoundHalfUp(price, f.tick)

ClientAccepts(f, qty, price) == price # NoPrice => qty * price >= f.minNotional

(* The engine reads the printed decimals, so its own unit is 1 for rules   *)
(* it fetched; a quantity below the minimum is raised to it.               *)
AsPrinted(f) == [f EXCEPT !.lot = [type \in Types |-> 1], !.tick = 1]

EngineQty(f, qty, type) ==
  Clamp(RoundDown(qty, f.lot[type]), f.minQty[type], f.maxQty[type])

EnginePrice(f, price) ==
  IF price = NoPrice THEN NoPrice
  ELSE Clamp(RoundHalfUp(price, f.tick), f.minPrice, f.maxPrice)

(* The filter that refuses the order, or "none".                           *)
EngineRefusal(f, qty, price, type) ==
  LET q == EngineQty(f, qty, type)
      p == EnginePrice(f, price)
  IN  IF q <= 0 THEN "LOT_SIZE"
      ELSE IF price = NoPrice THEN "none"
      ELSE IF p * q < f.minNotional THEN "MIN_NOTIONAL"
      ELSE IF p * q > f.maxNotional THEN "NOTIONAL"
      ELSE "none"

(* OrderNormalizer moves the price after the first refusal, the quantity   *)
(* after the second, by half a percent.                                    *)
Up(x)   == (201 * x) \div 200
Down(x) == (199 * x) \div 200

AdjustPrice(price, refusal, side) ==
  IF refusal = "NOTIONAL" \/ side = "SELL" THEN Down(price) ELSE Up(price)

AdjustQty(qty, refusal) == IF refusal = "NOTIONAL" THEN Down(qty) ELSE Up(qty)
=============================================================================
