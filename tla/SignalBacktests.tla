--------------------------- MODULE SignalBacktests ---------------------------
(***************************************************************************)
(* The backtests that follow a model's signal from row to row, one         *)
(* position at a time: those of the TradingTCN, over the API (tcn) and as  *)
(* a script (tcn_script).  What a model predicts is arbitrary; which rows  *)
(* it is shown is not.  Those of the entry model, over the API (entry) and *)
(* as a script (entry_script), end at the first prediction they ask for.   *)
(***************************************************************************)
EXTENDS TrainingSets

CONSTANT Hold  \* seconds a position is held (600)

ASSUME TestsAssumption == Hold \in Nat \ {0}

VARIABLE bt  \* the backtest that runs

Tests == {"tcn", "tcn_script"}

NoTest == [kind |-> "none"]

(* The rows it goes through and the last it decides at.  The script loads  *)
(* candles and vectors apart, up to the latest vector, and lays one over   *)
(* the other.                                                              *)
Latest == Max(vector \union {0})
Vectors == Ordered({t \in vector : t < Latest})

RowsOf(kind) ==
  IF kind = "tcn" THEN JoinedRows(1, clock + 1) ELSE Ordered({t \in Candles : t < Latest})

LastOf(kind, rows) ==
  IF kind = "tcn" THEN Len(rows) ELSE Min({Len(rows), Len(Vectors)})

FirstOf(kind) == IF kind = "tcn" THEN 1 ELSE Length + 1

BeginTest(kind) ==
  /\ bt = NoTest
  /\ LET rows == RowsOf(kind)
     IN /\ FirstOf(kind) <= LastOf(kind, rows)
        /\ bt' = [kind |-> kind, rows |-> rows, last |-> LastOf(kind, rows),
                  at |-> FirstOf(kind), entry |-> 0, trades |-> <<>>]

(* The entry model is asked with a threshold, which its predict does not   *)
(* take: with any row to predict the test ends in a TypeError, and without *)
(* one it ends before.  Neither has traded.                                *)
Predicted(kind) ==
  IF kind = "entry" THEN JoinedRows(1, clock + 1) # <<>>
  ELSE EntrySamples(1, clock + 1) # {}

EntryTest(kind) ==
  /\ bt = NoTest
  /\ bt' = [kind |-> IF Predicted(kind) THEN "raised" ELSE "no data"]

(* The seconds a prediction at row i is made from; before there is a window *)
(* the route puts scores of zero, which no threshold above zero calls a     *)
(* signal.                                                                  *)
Shown(kind, rows, i) ==
  IF kind = "tcn" THEN IF i > Length THEN Slice(rows, i - Length, Length) ELSE {}
  ELSE Slice(Vectors, i - Length, Length)

MaySignal(kind, i) == kind = "tcn" => i > Length

(* Whether a position opened at row e is to be closed at row i.            *)
Exits(t, e, i) == t.rows[i] - t.rows[e] >= Hold \/ i = t.last

(* The script asks whether to close also at the row it has opened at.      *)
AsksAtOnce(t) == t.kind = "tcn_script"

Closes(t, e) ==
  [t EXCEPT !.entry = 0, !.at = @ + 1, !.trades = Append(@, [entry |-> e, exit |-> t.at])]

SignalBeforeExit(signal) ==
  /\ bt.kind \in Tests /\ bt.at <= bt.last
  /\ signal => MaySignal(bt.kind, bt.at)
  /\ LET e == IF signal THEN bt.at ELSE bt.entry
     IN bt' = IF ~signal /\ bt.entry # 0 /\ Exits(bt, e, bt.at) THEN Closes(bt, e)
              ELSE [bt EXCEPT !.entry = e, !.at = @ + 1]

Decide(signal) ==
  /\ bt.kind \in Tests /\ bt.at <= bt.last
  /\ signal => MaySignal(bt.kind, bt.at)
  /\ LET opens == signal /\ bt.entry = 0
         e     == IF opens THEN bt.at ELSE bt.entry
         asks  == bt.entry # 0 \/ (opens /\ AsksAtOnce(bt))
     IN bt' = IF asks /\ Exits(bt, e, bt.at) THEN Closes(bt, e)
              ELSE [bt EXCEPT !.entry = e, !.at = @ + 1]
-----------------------------------------------------------------------------
(* Every position but one opened at the route's last row becomes a trade,  *)
(* at the first row that asks for it, and there is one at a time: trades   *)
(* follow one another.                                                     *)
TradesAddUp ==
  bt.kind \in Tests =>
    /\ \A k \in DOMAIN bt.trades :
         LET t == bt.trades[k]
             asked == IF AsksAtOnce(bt) THEN t.entry ELSE t.entry + 1
         IN /\ Exits(bt, t.entry, t.exit) /\ asked <= t.exit
            /\ \A i \in asked..(t.exit - 1) : ~Exits(bt, t.entry, i)
            /\ k > 1 => bt.trades[k - 1].exit < t.entry
    /\ bt.at > bt.last /\ bt.entry # 0 => bt.entry = bt.last /\ ~AsksAtOnce(bt)

(* What a position was opened on was recorded before the row it was opened *)
(* at: by the route always, by the script while each candle so far has its *)
(* vector and each vector its candle: one without a vector lets it look    *)
(* ahead by a row.                                                         *)
Aligned(t, e) ==
  t.kind = "tcn_script" =>
    \A i \in 1..(e - 1) : i \in DOMAIN Vectors /\ Vectors[i] = t.rows[i]

SignalsLookBack ==
  bt.kind \in Tests =>
    \A k \in DOMAIN bt.trades :
      LET e == bt.trades[k].entry
      IN Aligned(bt, e) => \A s \in Shown(bt.kind, bt.rows, e) : s < bt.rows[e]
=============================================================================
