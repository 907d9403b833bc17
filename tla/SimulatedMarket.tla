---------------------------- MODULE SimulatedMarket ----------------------------
(***************************************************************************)
(* The two simulated markets: PaperMarketService, which the ticker's       *)
(* orders and the API's reach, and BacktestMarketService.  Both fill an    *)
(* order at once or not at all and keep balances and positions; they       *)
(* differ in what a LIMIT order is filled at.                              *)
(*                                                                         *)
(* Prices are small numbers.  Slippage and fee are counted in parts of     *)
(* Scale (the code has basis points), so a fill price is a number of       *)
(* Scale-ths of a tick and money one of Scale-ths of those: no rounding.   *)
(***************************************************************************)
EXTENDS Integers, Sequences, FiniteSetsExt

CONSTANTS
  Symbols,      \* trading pairs
  Prices,       \* market prices
  Quantities,   \* quantities of an order
  Scale,        \* parts slippage and fee are counted in
  Slip,         \* _slippage_bps
  Fee,          \* _fee_bps
  StartBalance, \* initial_balance
  MaxOrders     \* bound: orders placed

ASSUME MarketAssumption ==
  /\ IsFiniteSet(Symbols) /\ Symbols # {}
  /\ Prices \subseteq Nat \ {0} /\ Quantities \subseteq Nat \ {0}
  /\ Scale \in Nat \ {0} /\ Slip \in 0 .. Scale /\ Fee \in 0 .. Scale
  /\ StartBalance \in Nat /\ MaxOrders \in Nat

VARIABLES
  service,  \* "paper" or "backtest"
  price,    \* the market price of each symbol
  quote,    \* free balance of the quote asset
  base,     \* free balance of each symbol's own asset
  position, \* _positions: quantity and entry price; quantity 0 for none
  limited,  \* history: the paper service was given a LIMIT order
  placed    \* orders placed so far, for the bound

accountVars == <<quote, base, position>>
marketVars  == <<service, price, accountVars, limited, placed>>

NoPosition == [qty |-> 0, entry |-> 0]
Nothing    == 0

(* _apply_slippage.                                                        *)
Slipped(side, p) == p * (IF side = "BUY" THEN Scale + Slip ELSE Scale - Slip)

(* What q units cost with the fee, and what they bring.                    *)
Cost(fill, q)     == fill * q * (Scale + Fee)
Proceeds(fill, q) == fill * q * (Scale - Fee)

ReachedNeverAsked(side, limit, p) == TRUE

(* The side a limit price is on.                                           *)
Reached(side, limit, p) == IF side = "BUY" THEN limit >= p ELSE limit <= p

(* _simulate_fill, and _extract_market_price with _apply_slippage of the   *)
(* paper service: it takes the limit itself for the market price.          *)
FillPrice(side, y, limit) ==
  IF limit = Nothing THEN Slipped(side, price[y])
  ELSE IF service = "paper" THEN Slipped(side, limit)
  ELSE IF Reached(side, limit, price[y]) THEN limit * Scale ELSE Nothing
-----------------------------------------------------------------------------
Affordable(fill, q) == Cost(fill, q) <= quote

(* place_order.  A BUY replaces the position, a SELL removes it.           *)
Buy(y, q, limit) ==
  LET fill == FillPrice("BUY", y, limit)
  IN  /\ fill # Nothing /\ Affordable(fill, q)
      /\ quote' = quote - Cost(fill, q)
      /\ base' = [base EXCEPT ![y] = @ + q]
      /\ position' = [position EXCEPT ![y] = [qty |-> q, entry |-> fill]]

Sell(y, q, limit) ==
  LET fill == FillPrice("SELL", y, limit)
  IN  /\ fill # Nothing
      /\ base[y] >= q  \* otherwise ValueError, and no order is kept
      /\ quote' = quote + Proceeds(fill, q)
      /\ base' = [base EXCEPT ![y] = @ - q]
      /\ position' = [position EXCEPT ![y] = NoPosition]

Reject(y, q, limit) ==
  /\ \/ \E side \in {"BUY", "SELL"} : FillPrice(side, y, limit) = Nothing
     \/ ~Affordable(FillPrice("BUY", y, limit), q)
  /\ UNCHANGED accountVars

PlaceOrder(y, q, limit) ==
  /\ placed < MaxOrders
  /\ placed' = placed + 1
  /\ limited' = (limited \/ (service = "paper" /\ limit # Nothing))
  /\ Buy(y, q, limit) \/ Sell(y, q, limit) \/ Reject(y, q, limit)
  /\ UNCHANGED <<service, price>>

PriceMoves(y) ==
  /\ placed < MaxOrders
  /\ \E p \in Prices : p # price[y] /\ price' = [price EXCEPT ![y] = p]
  /\ UNCHANGED <<service, accountVars, limited, placed>>

MarketInit ==
  /\ service \in {"paper", "backtest"}
  /\ price \in [Symbols -> Prices]
  /\ quote = StartBalance
  /\ base = [y \in Symbols |-> 0] /\ position = [y \in Symbols |-> NoPosition]
  /\ limited = FALSE /\ placed = 0

MarketNext ==
  \E y \in Symbols :
    \/ PriceMoves(y)
    \/ \E q \in Quantities, limit \in Prices \union {Nothing} : PlaceOrder(y, q, limit)

-----------------------------------------------------------------------------
(* What the account is worth at the market.                                *)
Value(y) == base[y] * price[y] * Scale * Scale
Worth    == quote + SumFunction([y \in Symbols |-> Value(y)])

(* Whatever orders come in whatever order: nothing is sold that is not     *)
(* held, nothing bought on credit, and a position that is reported is      *)
(* covered by the balance, though a SELL of a part removes all of it and a *)
(* second BUY counts only the last one.                                    *)
Solvent ==
  /\ quote >= 0
  /\ \A y \in Symbols : base[y] >= 0 /\ position[y].qty <= base[y]

(* An order never makes the account richer: it fills at the market or      *)
(* worse, and pays its fee.  The paper service fills a LIMIT order at its  *)
(* limit, wherever the market is.                                          *)
OrdersCostMoney == [][placed' # placed /\ ~limited' => Worth' <= Worth]_marketVars
=============================================================================
