------------------------------- MODULE Backtest -------------------------------
(***************************************************************************)
(* BacktestEngine.run_backtest (application/services/backtest_engine.py)   *)
(* with the BacktestMarketService it creates and a strategy: candle by     *)
(* candle, positions that reach take-profit or stop-loss are closed by the *)
(* market service, then the strategy's signal opens or closes one.         *)
(*                                                                         *)
(* What is hard is that everything is kept three times.  The engine has    *)
(* its cash and its positions, the market service the tracked positions,   *)
(* the strategy a count, and the grid strategy the levels it believes to   *)
(* be used; they are kept together by matching prices and quantities.      *)
(*                                                                         *)
(* Nothing in the loop waits, so a candle is one step.  A market service   *)
(* either belongs to an engine or is given orders (module SimulatedMarket),*)
(* never both.                                                             *)
(***************************************************************************)
EXTENDS UserStrategies, SequencesExt

CONSTANTS
  StopPart,   \* stop_loss_pct, in parts of Scale
  MaxCandles  \* bound: candles of the period, by kind of strategy

ASSUME BacktestAssumption ==
  /\ StopPart \in Nat
  /\ MaxCandles \in [Kinds -> Nat]

VARIABLES
  phase,     \* "orders" if no engine uses the service, else "running", "done"
  stopped,   \* the strategy is configured with a stop-loss
  candle,    \* candles simulated so far
  cash,      \* cash of the engine
  held,      \* positions of the engine
  tracked,   \* _tracked_positions of the market service
  count,     \* _open_positions_count of the strategy's base class
  realised,  \* history: the pnl of all trades
  opened,    \* history: positions opened
  closed     \* history: trades recorded

engineVars   == <<phase, stopped, candle, cash, held, tracked, count>>
historyVars  == <<realised, opened, closed>>
vars == <<marketVars, engineVars, strategyVars, historyVars>>

Sym  == CHOOSE y \in Symbols : TRUE  \* the engine simulates symbols[0]

(* What the sums are about: entry cost with fee, and the pnl of a trade.   *)
Spent(p)     == Cost(p.entry, p.qty)
Pnl(p, exit) == Proceeds(exit, p.qty) - Spent(p)

Total(seq, Op(_)) == SumFunction([i \in DOMAIN seq |-> Op(seq[i])])
-----------------------------------------------------------------------------
(* check_positions: _check_exit_condition at the close of the candle.      *)
Hit(t, p) ==
  \/ t.tp # Never /\ p * Scale >= t.tp
  \/ t.sl # Never /\ p * Scale <= t.sl

(* The engine removes its first record of the entry price and quantity.    *)
RemoveRecord(seq, t) ==
  RemoveFirstMatch(seq, LAMBDA r : r.entry = t.entry /\ r.qty = t.qty)

(* The tracked positions are looked at in turn; the engine goes through    *)
(* those closed in the same order.                                         *)
Exit(books, t, p) ==
  IF Hit(t, p)
  THEN [books EXCEPT !.hits = Append(@, t), !.held = RemoveRecord(@, t)]
  ELSE [books EXCEPT !.unhit = Append(@, t)]

ExitsAt(p) ==
  LET after[i \in 0 .. Len(tracked)] ==
        IF i = 0 THEN [hits |-> <<>>, unhit |-> <<>>, held |-> held]
        ELSE Exit(after[i - 1], tracked[i], p)
  IN  after[Len(tracked)]

Hits(p)           == ExitsAt(p).hits
Unhit(p)          == ExitsAt(p).unhit
HeldAfterExits(p) == ExitsAt(p).held

(* The engine credits what the market service returned.                    *)
CashAfterExits(p)  == cash + Total(Hits(p), LAMBDA t : Proceeds(Slipped("SELL", p), t.qty))
CountAfterExits(p) == Max({0, count - Len(Hits(p))})

(* _close_tracked_position on the balances of the service, which were not  *)
(* told of the BUYs (register_position) and which nothing reads.           *)
SettleExits(p) ==
  /\ quote' = quote + Total(Hits(p), LAMBDA t : Proceeds(Slipped("SELL", p), t.qty))
  /\ base' = [base EXCEPT ![Sym] = @ - Total(Hits(p), LAMBDA t : t.qty)]
  /\ UNCHANGED <<service, position, limited, placed>>

(* The trades of a candle: the exits, and those of seq at the price p.     *)
Book(p, seq) ==
  /\ realised' = realised + Total(Hits(p) \o seq, LAMBDA t : Pnl(t, Slipped("SELL", p)))
  /\ closed' = closed + Len(Hits(p) \o seq)

(* _open_position of q units, if there is cash for them.                   *)
StopPrice(entry) == IF stopped THEN (entry * (Scale - StopPart)) \div Scale ELSE Never

Open(p, signal, q) ==
  LET entry == Slipped("BUY", p)
      rec   == [entry |-> entry, qty |-> q]
  IN  /\ signal.type = "BUY"
      /\ Cost(entry, q) <= CashAfterExits(p)
      /\ cash' = CashAfterExits(p) - Cost(entry, q)
      /\ held' = Append(HeldAfterExits(p), rec)
      /\ tracked' = Append(Unhit(p), [entry |-> entry, qty |-> q, tp |-> signal.tp,
                                       sl |-> StopPrice(entry), level |-> signal.level])
      /\ count' = CountAfterExits(p) + 1
      /\ opened' = opened + 1
      /\ Book(p, <<>>)

(* A SELL without a grid index closes the oldest position of the engine;   *)
(* the market service drops its first one of that entry price.             *)
Unregister(seq, entry) == RemoveFirstMatch(seq, LAMBDA t : t.entry = entry)

CloseOldest(p, signal) ==
  LET rest == HeldAfterExits(p)
  IN  /\ signal.type = "SELL" /\ kind # "grid" /\ rest # <<>>
      /\ cash' = CashAfterExits(p) + Proceeds(Slipped("SELL", p), Head(rest).qty)
      /\ held' = Tail(rest)
      /\ tracked' = Unregister(Unhit(p), Head(rest).entry)
      /\ count' = Max({0, CountAfterExits(p) - 1})
      /\ Book(p, <<Head(rest)>>)
      /\ UNCHANGED opened

(* No signal; a BUY there is no cash for; a SELL with nothing to close: a  *)
(* grid SELL names the index of its level, and no record carries one.      *)
NoTrade(p, signal) ==
  /\ \/ signal.type = "none"
     \/ signal.type = "BUY" /\ \E q \in Quantities : Cost(Slipped("BUY", p), q) > CashAfterExits(p)
     \/ signal.type = "SELL" /\ (kind = "grid" \/ HeldAfterExits(p) = <<>>)
  /\ cash' = CashAfterExits(p) /\ held' = HeldAfterExits(p) /\ tracked' = Unhit(p)
  /\ count' = CountAfterExits(p)
  /\ Book(p, <<>>)
  /\ UNCHANGED opened

(* One candle of run_backtest's loop.                                      *)
Candle(p) ==
  /\ phase = "running" /\ candle < MaxCandles[kind]
  /\ candle' = candle + 1
  /\ price' = [price EXCEPT ![Sym] = p]
  /\ SettleExits(p)
  /\ \E signal \in SignalsAt(p), sold \in 0 .. 1 :
       /\ OnTick(p, signal, CountAfterExits(p), Len(Hits(p)), sold)
       /\ \/ sold = 0 /\ \E q \in Quantities : Open(p, signal, q)
          \/ sold = 1 /\ CloseOldest(p, signal)
          \/ sold = 0 /\ NoTrade(p, signal)
  /\ UNCHANGED <<phase, stopped>>

(* After the last candle what is left is closed at its price.  The market  *)
(* service is not told, and is dropped.                                    *)
Finish ==
  LET p == price[Sym]
  IN  /\ phase = "running" /\ candle > 0
      /\ phase' = "done"
      /\ cash' = cash + Total(held, LAMBDA t : Proceeds(Slipped("SELL", p), t.qty))
      /\ realised' = realised + Total(held, LAMBDA t : Pnl(t, Slipped("SELL", p)))
      /\ closed' = closed + Len(held)
      /\ held' = <<>>
      /\ count' = Max({0, count - Len(held)})
      /\ Closed(Len(held))
      /\ UNCHANGED <<marketVars, stopped, candle, tracked, kind, gridVars, readVars, opened>>
-----------------------------------------------------------------------------
EngineUnused ==
  UNCHANGED <<engineVars, strategyVars, historyVars>>

Init ==
  /\ MarketInit
  /\ phase \in {"orders", "running"} /\ (phase = "running" => service = "backtest")
  /\ StrategyInit /\ stopped \in BOOLEAN
  /\ phase = "orders" => kind = "grid" /\ ~stopped
  /\ candle = 0 /\ cash = StartBalance /\ held = <<>> /\ tracked = <<>> /\ count = 0
  /\ realised = 0 /\ opened = 0 /\ closed = 0

Orders == phase = "orders" /\ MarketNext /\ EngineUnused

Next == Orders \/ Finish \/ \E p \in Prices : Candle(p)

Spec == Init /\ [][Next]_vars
-----------------------------------------------------------------------------
(* What SimulatedMarket promises of an account that is given orders; the   *)
(* balances of an engine's own service are meaningless (SettleExits).      *)
OrdersSolvent == phase = "orders" => Solvent

OrdersKeepTheAccount == []OrdersSolvent /\ OrdersCostMoney

(* The engine's record of a position that is tracked.                      *)
RecordOf(t) == [entry |-> t.entry, qty |-> t.qty]
Registered  == [i \in DOMAIN tracked |-> RecordOf(tracked[i])]

Copies(seq, r)    == Quantify(DOMAIN seq, LAMBDA i : seq[i] = r)
SameRecords(a, b) == \A r \in Range(a) \union Range(b) : Copies(a, r) = Copies(b, r)

(* The three books agree after every candle: the market service tracks     *)
(* exactly the engine's positions, in the same order where the strategy    *)
(* gives a SELL, which closes the oldest; and the strategy's base class    *)
(* counts them, which is what its limit of positions rests on.             *)
PositionsAgree ==
  phase = "running" =>
    /\ SameRecords(held, Registered)
    /\ kind \in Counting \union Flagged \union Domain => held = Registered
    /\ count = Len(held) /\ count <= MaxOpen

(* No cash appears or vanishes between the two ways a position is closed:  *)
(* the cash is the initial balance, less what the open positions cost,     *)
(* plus the pnl of the trades that are reported.                           *)
CashIsAccounted == cash + Total(held, Spent) = StartBalance + realised

(* Every position opened makes exactly one trade in the end.               *)
OneTradeEach == closed + Len(held) = opened

(* All books of a backtest, over any order of signals and exits.           *)
BooksAgree == PositionsAgree /\ CashIsAccounted /\ OneTradeEach

(* Money and positions, in a test and in orders given by hand.             *)
AccountsHold == OrdersKeepTheAccount /\ []BooksAgree

(* No two open positions are of the same grid level: a level is freed only *)
(* when the position bought there is closed.                               *)
LevelHeldOnce ==
  kind = "grid" =>
    \A i, j \in DOMAIN tracked : tracked[i].level = tracked[j].level => i = j

(* A strategy that only remembers whether it is in a position never holds  *)
(* a second one, nor one it does not know of.                              *)
FlagHoldsOne ==
  kind \in Flagged => Len(held) <= 1 /\ (held # <<>> => inPosition)

(* What a strategy believes to hold keeps it from buying it twice, though  *)
(* it hears of its orders' fate only when a position is closed.            *)
NeverBoughtTwice == phase = "running" => LevelHeldOnce /\ FlagHoldsOne
=============================================================================
