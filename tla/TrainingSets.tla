---------------------------- MODULE TrainingSets -----------------------------
(***************************************************************************)
(* What the training scripts learn from: the rows they join from the       *)
(* recorded candles and wide vectors, the samples they cut from them, the  *)
(* splits into training, validation and test, the entry labels, and the    *)
(* smoothed target values stored beside the candles.  A value is           *)
(* represented by the seconds it was computed from: that is what the       *)
(* properties are about.                                                   *)
(***************************************************************************)
EXTENDS Integers, Sequences, FiniteSets, SequencesExt, FiniteSetsExt

CONSTANTS
  Length,     \* sequence_length
  Horizon,    \* prediction_horizon, in rows
  Slack,      \* seconds a sequence may be longer than gapless (5)
  Stride,     \* return_stride of the trading datasets
  LookAhead,  \* rows after an entry that decide its label
  MinAfter,   \* min_bars_after
  Part,       \* a profit is a price times 1 + 1/Part, a stop times 1 - 1/Part
  ValShare,   \* shares of validation and of test, in parts of Whole
  TestShare,
  Whole,
  ValPart,    \* 1 / val_frac of the scripts with a gap
  Hours,      \* by script: seconds of data asked for, 0 for all
  Width       \* response_time: rows of the smoothing window

ASSUME SetsAssumption ==
  /\ {Length, Stride, Part, Whole, ValPart, Width} \subseteq Nat \ {0}
  /\ {Horizon, Slack, LookAhead, MinAfter, ValShare, TestShare} \subseteq Nat
  /\ Hours \in [{"ml", "tcn", "entry"} -> Nat]
  /\ Horizon > 0 /\ LookAhead > 0 /\ ValShare + TestShare < Whole

VARIABLES
  clock,  \* seconds recorded so far
  close,  \* the close of each second's candle, 0 when there is none
  vector  \* the seconds with a wide vector

world == <<clock, close, vector>>

Candles == {t \in 1..clock : close[t] # 0}

(* The seconds of S in order: the i-th is the one with i up to it.         *)
Rank(S, t) == Cardinality({s \in S : s <= t})

Ordered(S) == [i \in 1..Cardinality(S) |-> CHOOSE t \in S : Rank(S, t) = i]

JoinedToTheEnd(from, to) == Ordered({t \in Candles \cap vector : from <= t /\ t <= to})

(* The seconds a script's query joins: a candle and a vector, time >= from *)
(* and time < to, in order.                                                *)
JoinedRows(from, to) == Ordered({t \in Candles \cap vector : from <= t /\ t < to})

Sample(inputs, label) == [inputs |-> inputs, label |-> label]

Slice(rows, i, n) == {rows[k] : k \in i..(i + n - 1)}
-----------------------------------------------------------------------------
(* WideVectorDataset: the target of a row is the return to the row Horizon *)
(* rows later; the last rows, which have none, are dropped.                *)
Labelled(rows) == Len(rows) - Horizon

LabelOf(rows, i) == {rows[i], rows[i + Horizon]}

(* A sequence may not span more seconds than its length and Slack.         *)
BuildSequences(rows) ==
  {i \in 1..(Labelled(rows) - Length + 1) :
     rows[i + Length - 1] - rows[i] <= Length - 1 + Slack}

SequenceSamples(from, to) ==
  LET rows == JoinedRows(from, to)
  IN {Sample(Slice(rows, i, Length), LabelOf(rows, i + Length - 1)) :
        i \in BuildSequences(rows)}

(* create_data_loaders: the last TestShare of the time is for the test,    *)
(* the ValShare before it for validation.  The second at data_end is in    *)
(* none of them.  Times are counted in parts of a second.                  *)
FirstSecond(parts) == (parts + Whole - 1) \div Whole

LoaderSplits ==
  LET first == Min(Candles)  last == Max(Candles)
      start == IF Hours["ml"] > 0 THEN Max({first, last - Hours["ml"]}) ELSE first
      test  == Whole * last - TestShare * (last - start)
      val   == test - ValShare * (last - start)
  IN [train |-> <<start, FirstSecond(val)>>,
      val   |-> <<FirstSecond(val), FirstSecond(test)>>,
      test  |-> <<FirstSecond(test), last>>]

(* TradingDataset and build_sequences of train_trading_tcn: every Stride-th *)
(* row is kept and the window runs over those, however far apart they are. *)
Kept(k) == 1 + (k - 1) * Stride

TradingSamples(from, to) ==
  LET rows == JoinedRows(from, to)
      kept == {k \in 1..Len(rows) : Kept(k) <= Labelled(rows)}
  IN {Sample({rows[Kept(k)] : k \in i..(i + Length - 1)},
             LabelOf(rows, Kept(i + Length - 1))) :
        i \in {k \in kept : k + Length - 1 \in kept}}

(* train_trading_tcn and train_entry_model leave a gap before validation.  *)
GappedSplits(end, hours, gap) ==
  LET usable == hours - gap
      val    == usable \div ValPart
      start  == end - val
  IN [train |-> <<start - gap - (usable - val), start - gap>>,
      val   |-> <<start, end>>,
      test  |-> <<end, end>>]

TcnSplits == GappedSplits(Max(vector), Hours["tcn"], 2 * Stride)
EntrySplits == GappedSplits(clock + 1, Hours["entry"], LookAhead)
-----------------------------------------------------------------------------
(* label_entry_points: numpy's argmax gives the first row that reaches the *)
(* price, or the first row of all when none does.                          *)
Gains(entry, price) == price * Part >= entry * (Part + 1)
Loses(entry, price) == price * Part <= entry * (Part - 1)

ArgMax(Reaches(_)) ==
  LET hits == {k \in 1..LookAhead : Reaches(k)}
  IN IF hits = {} THEN 1 ELSE Min(hits)

EntryLabel(rows, i) ==
  LET Upper(k) == Gains(close[rows[i]], close[rows[i + k]])
      Lower(k) == Loses(close[rows[i]], close[rows[i + k]])
      up == ArgMax(Upper)  down == ArgMax(Lower)
  IN IF Upper(up) /\ Lower(down) THEN IF up < down THEN 1 ELSE 0
     ELSE IF Upper(up) THEN 1 ELSE IF Lower(down) THEN 0 ELSE -1

(* EntryPointDataset: the rows whose label is decided; balance_classes is  *)
(* off wherever it is used.                                                *)
EntrySamples(from, to) ==
  LET rows == JoinedRows(from, to)
      decided == {i \in 1..(Len(rows) - LookAhead - MinAfter) :
                    i <= Labelled(rows) /\ EntryLabel(rows, i) # -1}
  IN {[inputs |-> {rows[i]}, label |-> Slice(rows, i, LookAhead + 1),
       enters |-> EntryLabel(rows, i)] : i \in decided}
-----------------------------------------------------------------------------
(* A target value: the seconds it smooths, or the bare close of its own.   *)
Bare(t) == {t}

(* batch_calculate_target_data by the centred Hanning window (use_future), *)
(* which both callers use: row i smooths the Width rows around it; the     *)
(* rows within half a window of either end keep the bare close.            *)
Shift == Width \div 2

Smoothed(rows, i) ==
  IF Width < 2 \/ i <= Shift \/ i > Len(rows) - (Width - 1 - Shift) THEN Bare(rows[i])
  ELSE Slice(rows, i - Shift, Width)
=============================================================================
