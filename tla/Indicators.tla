----------------------------- MODULE Indicators ------------------------------
(***************************************************************************)
(* The indicators of src/indicators (trend, momentum, volatility and       *)
(* volume), as the arrays they compute over a buffer of candles, and the   *)
(* IndicatorCalculator of one symbol that stores the last value of each.   *)
(* Numbers are exact fractions; NaN is None.                               *)
(***************************************************************************)
EXTENDS Integers, Sequences, FiniteSetsExt

CONSTANTS
  Candles,        \* candles there are: close, high, low, volume
  Definitions,    \* parameters the active definitions may have
  DefaultWindow,  \* DEFAULT_CANDLE_WINDOW
  Margin,         \* what a period is widened by: 20 in the code
  WideMargin,     \* ... one of MACD-SMA, or in a name: 50
  MaxCandles      \* bound: candles of the symbol

(* Candles as the aggregator makes them, parameters as _validate_params()  *)
(* lets them pass.                                                         *)
IndicatorsAssumption ==
  /\ Candles \subseteq [close : Nat, high : Nat, low : Nat, volume : Nat]
  /\ \A c \in Candles : 0 < c.low /\ c.low <= c.close /\ c.close <= c.high
  /\ Definitions \subseteq [{"period", "fast", "slow", "signal", "k", "d"} -> Nat \ {0, 1}]
  /\ {DefaultWindow, WideMargin, MaxCandles} \subseteq Nat /\ Margin \in Nat \ {0}

VARIABLES
  params,   \* the parameters of the active definitions
  history,  \* candles_1s of the symbol
  buffer    \* its IndicatorsBuffer, <<>> before the first candle

vars == <<params, history, buffer>>
-----------------------------------------------------------------------------
(* Fractions.                                                              *)
Gcd[x \in Nat \X Nat] == IF x[2] = 0 THEN x[1] ELSE Gcd[<<x[2], x[1] % x[2]>>]

Abs(n) == IF n < 0 THEN -n ELSE n

None == <<0, 0>>

Ratio(n, d) == LET g == Gcd[<<Abs(n), d>>] IN <<n \div g, d \div g>>

Num(n) == <<n, 1>>

Plus(x, y) == IF None \in {x, y} THEN None ELSE Ratio(x[1] * y[2] + y[1] * x[2], x[2] * y[2])

Times(x, y) == IF None \in {x, y} THEN None ELSE Ratio(x[1] * y[1], x[2] * y[2])

Minus(x, y) == Plus(x, <<-y[1], y[2]>>)

Over(x, n) == Times(x, <<1, n>>)

(* x / y, where y is positive.                                             *)
Share(x, y) == Times(x, <<y[2], y[1]>>)

AtMost(x, y) == x[1] * y[2] <= y[1] * x[2]

Between(x, low, high) == AtMost(Num(low), x) /\ AtMost(x, Num(high))

SumTo(xs, n) == LET f[i \in 0 .. n] == IF i = 0 THEN Num(0) ELSE Plus(f[i-1], xs[i]) IN f[n]

SumOf(xs)  == SumTo(xs, Len(xs))
MeanOf(xs) == Over(SumOf(xs), Len(xs))

Window(xs, i, period) == SubSeq(xs, i - period + 1, i)

Closes(b)  == [i \in DOMAIN b |-> b[i].close]
Highs(b)   == [i \in DOMAIN b |-> b[i].high]
Lows(b)    == [i \in DOMAIN b |-> b[i].low]
Fractions(ns) == [i \in DOMAIN ns |-> Num(ns[i])]

Highest(ns) == Max({ns[i] : i \in DOMAIN ns})
Lowest(ns)  == Min({ns[i] : i \in DOMAIN ns})
-----------------------------------------------------------------------------
(* trend.py.  _calculate_sma() differs the running sum of what is not NaN, *)
(* and puts the result behind the first values.                            *)
Valid(xs) ==
  LET places == {i \in DOMAIN xs : xs[i] # None}
  IN  [j \in 1 .. Cardinality(places) |->
         xs[CHOOSE i \in places : Cardinality({p \in places : p <= i}) = j]]

SmaFromTheStart(xs, period) ==
  LET valid == Valid(xs) IN
  [i \in DOMAIN xs |->
     IF i < period \/ i > Len(valid) THEN None
     ELSE Over(Minus(SumTo(valid, i), SumTo(valid, i - period)), period)]

Sma(xs, period) ==
  LET valid == Valid(xs)
      start == Len(xs) - Len(valid)
  IN  [i \in DOMAIN xs |->
         IF i < start + period THEN None
         ELSE Over(Minus(SumTo(valid, i - start), SumTo(valid, i - start - period)), period)]

(* scipy.signal.lfilter() of one pole: what it is given as zi is added to  *)
(* the first output.                                                       *)
Lfilter(b, keep, xs, zi) ==
  LET y[i \in DOMAIN xs] == Plus(Times(b, xs[i]), IF i = 1 THEN zi ELSE Times(keep, y[i - 1]))
  IN  y

Multiplier(period) == Ratio(2, period + 1)

Ema(xs, period) ==
  LET seed == MeanOf(SubSeq(xs, 1, period))
      m    == Multiplier(period)
      rest == Lfilter(m, Minus(Num(1), m), SubSeq(xs, period + 1, Len(xs)), seed)
  IN  [i \in DOMAIN xs |-> CASE i < period -> None
                             [] i = period -> seed
                             [] i > period -> rest[i - period]]

MacdLine(xs, fast, slow) ==
  LET f == Sma(xs, fast)
      s == Sma(xs, slow)
  IN  [i \in DOMAIN xs |-> Minus(f[i], s[i])]

MacdSignal(xs, fast, slow, signal) == Sma(MacdLine(xs, fast, slow), signal)

TrueRange(b, i) ==
  IF i = 1 THEN 0
  ELSE Max({b[i].high - b[i].low, Abs(b[i].high - b[i-1].close), Abs(b[i].low - b[i-1].close)})

UpMove(b, i)   == b[i].high - b[i-1].high
DownMove(b, i) == b[i-1].low - b[i].low

PlusDM(b, i)  == IF i > 1 /\ UpMove(b, i) > DownMove(b, i) /\ UpMove(b, i) > 0
                 THEN UpMove(b, i) ELSE 0
MinusDM(b, i) == IF i > 1 /\ DownMove(b, i) > UpMove(b, i) /\ DownMove(b, i) > 0
                 THEN DownMove(b, i) ELSE 0

(* The smoothing of _calculate_adx(): the sum of the first period values   *)
(* after the first one, and from there on a period-th of it is lost at     *)
(* each step.                                                              *)
Smooth(xs, period) ==
  LET f[i \in period + 1 .. Len(xs)] ==
        IF i = period + 1 THEN SumOf(Fractions(SubSeq(xs, 2, period + 1)))
        ELSE LET before == f[i - 1]
             IN  Plus(Minus(before, Over(before, period)), Num(xs[i]))
  IN  f

DirectionalIndex(dm, tr) == IF tr[1] > 0 THEN Times(Num(100), Share(dm, tr)) ELSE Num(0)

(* Nothing is computed of less than two periods.                           *)
Smoothed(b, period) == IF Len(b) < 2 * period THEN {} ELSE period + 1 .. Len(b)

PlusDI(b, period) ==
  LET tr == Smooth([i \in DOMAIN b |-> TrueRange(b, i)], period)
      dm == Smooth([i \in DOMAIN b |-> PlusDM(b, i)], period)
  IN  [i \in Smoothed(b, period) |-> DirectionalIndex(dm[i], tr[i])]

MinusDI(b, period) ==
  LET tr == Smooth([i \in DOMAIN b |-> TrueRange(b, i)], period)
      dm == Smooth([i \in DOMAIN b |-> MinusDM(b, i)], period)
  IN  [i \in Smoothed(b, period) |-> DirectionalIndex(dm[i], tr[i])]

Dx(b, period) ==
  LET up   == PlusDI(b, period)
      down == MinusDI(b, period)
  IN  [i \in Smoothed(b, period) |->
         LET sum == Plus(up[i], down[i])
             gap == Minus(up[i], down[i])
         IN  IF sum[1] > 0 THEN Times(Num(100), Share(<<Abs(gap[1]), gap[2]>>, sum)) ELSE Num(0)]

(* A period-th of the average gives way to each new value.                 *)
Wilder(first, seed, last, xs, period) ==
  LET f[i \in first .. last] ==
        IF i = first THEN seed
        ELSE Over(Plus(Times(f[i - 1], Num(period - 1)), xs[i]), period)
  IN  f

Adx(b, period) ==
  LET dx == Dx(b, period)
  IN  Wilder(2 * period, MeanOf([j \in 1 .. period |-> dx[period + j]]), Len(b), dx, period)

(* argmax and argmin of numpy: the first of equal ones.                    *)
ArgFirst(ns, best) == Min({i \in DOMAIN ns : ns[i] = best})

AroonUp(b, period, i) ==
  LET highs == Window(Highs(b), i, period)
  IN  Ratio(100 * (period - ArgFirst(highs, Highest(highs))), period - 1)

AroonDown(b, period, i) ==
  LET lows == Window(Lows(b), i, period)
  IN  Ratio(100 * (period - ArgFirst(lows, Lowest(lows))), period - 1)
-----------------------------------------------------------------------------
(* momentum.py.                                                            *)
Deltas(xs) == [i \in 1 .. Len(xs) - 1 |-> xs[i + 1] - xs[i]]

AverageMove(moves, period) ==
  LET seed == MeanOf(Fractions(SubSeq(moves, 1, period)))
      rest == Lfilter(<<1, period>>, <<period - 1, period>>,
                      Fractions(SubSeq(moves, period + 1, Len(moves))), seed)
  IN  [i \in period .. Len(moves) |-> IF i = period THEN seed ELSE rest[i - period]]

Rsi(xs, period) ==
  LET d    == Deltas(xs)
      gain == AverageMove([i \in DOMAIN d |-> Max({d[i], 0})], period)
      loss == AverageMove([i \in DOMAIN d |-> Max({-d[i], 0})], period)
  IN  [i \in period + 1 .. Len(xs) |->
         IF loss[i - 1] = Num(0) THEN Num(100)
         ELSE Minus(Num(100), Share(Num(100), Plus(Num(1), Share(gain[i-1], loss[i-1]))))]

StochK(b, period) ==
  [i \in period .. Len(b) |->
     LET high == Highest(Window(Highs(b), i, period))
         low  == Lowest(Window(Lows(b), i, period))
     IN  IF high = low THEN Num(50) ELSE Ratio(100 * (b[i].close - low), high - low)]

StochD(b, k, d) ==
  LET ks == [i \in 1 .. Len(b) - k + 1 |-> StochK(b, k)[k - 1 + i]]
  IN  [i \in k + d - 1 .. Len(b) |->
         Over(Minus(SumTo(ks, i - k + 1), SumTo(ks, i - k + 1 - d)), d)]
-----------------------------------------------------------------------------
(* volatility_volume.py.  Of the bands, the middle and the square of the   *)
(* deviation they keep from it.                                            *)
Bollinger(b, period) ==
  [i \in period .. Len(b) |->
     LET xs   == Fractions(Window(Closes(b), i, period))
         mean == MeanOf(xs)
     IN  [middle |-> mean,
          variance |-> MeanOf([j \in DOMAIN xs |-> Times(Minus(xs[j], mean), Minus(xs[j], mean))])]]

Atr(b, period) ==
  LET tr == [i \in DOMAIN b |-> Num(TrueRange(b, i))]
  IN  Wilder(period + 1, MeanOf([j \in 1 .. period |-> tr[j + 1]]), Len(b), tr, period)

Obv(b) ==
  LET f[i \in DOMAIN b] ==
        IF i = 1 THEN 0
        ELSE f[i-1] + (CASE b[i].close > b[i-1].close -> b[i].volume
                         [] b[i].close < b[i-1].close -> -b[i].volume
                         [] b[i].close = b[i-1].close -> 0)
  IN  f

Vwap(b) ==
  [i \in DOMAIN b |->
     LET volume == SumTo([j \in DOMAIN b |-> Num(b[j].volume)], i)
         worth  == SumTo([j \in DOMAIN b |-> Num(b[j].close * b[j].volume)], i)
     IN  IF volume[1] > 0 THEN Share(worth, volume) ELSE Num(0)]

(* Three times the typical price.                                          *)
Typical(b, i) == b[i].high + b[i].low + b[i].close

Flow(b, i, sign) ==
  IF i > 1 /\ sign * (Typical(b, i) - Typical(b, i - 1)) > 0
  THEN Ratio(Typical(b, i) * b[i].volume, 3) ELSE Num(0)

Mfi(b, period) ==
  LET flows(sign, i) ==
        LET all == [j \in DOMAIN b |-> Flow(b, j, sign)]
        IN  Minus(SumTo(all, i), SumTo(all, i - period))
  IN  [i \in period + 1 .. Len(b) |->
         IF flows(-1, i)[1] > 0
         THEN Minus(Num(100),
                    Share(Num(100), Plus(Num(1), Share(flows(1, i), flows(-1, i)))))
         ELSE Num(100)]
-----------------------------------------------------------------------------
(* _calculate_max_period(): the candles a buffer holds.                    *)
MaxPeriod(p) ==
  Max({DefaultWindow, p.slow + p.signal + WideMargin, p.fast + WideMargin}
        \union {p[f] + Margin : f \in {"period", "k", "d"}})

(* initialization(): the candles up to the first one, or else those there  *)
(* are and copies of it; calculate_with_candle() then adds it once more.   *)
Initialized(candle) ==
  LET rows == Append(history, candle)
      size == MaxPeriod(params)
  IN  IF Len(rows) >= size THEN SubSeq(rows, Len(rows) - size + 1, Len(rows))
      ELSE [i \in 1 .. size |-> IF i <= Len(rows) THEN rows[i] ELSE candle]

AddCandle(b, candle) == Append(Tail(b), candle)

(* A candle of the aggregator reaches the calculator, once it is started.  *)
CalculateWithCandle(candle) ==
  /\ buffer' = AddCandle(IF buffer = <<>> THEN Initialized(candle) ELSE buffer, candle)
  /\ history' = Append(history, candle)
  /\ UNCHANGED params

(* A candle stored while the pipeline that runs the calculator was down.   *)
StoredOnly(candle) ==
  /\ buffer = <<>>
  /\ history' = Append(history, candle)
  /\ UNCHANGED <<params, buffer>>

Init == params \in Definitions /\ history = <<>> /\ buffer = <<>>

Next ==
  /\ Len(history) < MaxCandles
  /\ \E c \in Candles : CalculateWithCandle(c) \/ StoredOnly(c)

IndicatorsSpec == Init /\ [][Next]_vars
-----------------------------------------------------------------------------
(* The last value of each, as _run_indicators() stores it.                 *)
Latest(array) == IF Len(buffer) \in DOMAIN array THEN array[Len(buffer)] ELSE None

TypeOK ==
  /\ params \in Definitions
  /\ history \in Seq(Candles) /\ Len(history) <= MaxCandles
  /\ buffer \in Seq(Candles) /\ Len(buffer) \in {0, MaxPeriod(params)}

Prices  == Fractions(Closes(buffer))
Last(n) == SubSeq(Prices, Len(buffer) - n + 1, Len(buffer))

(* The mean of the macd line over the last values, each from its own       *)
(* candles.                                                                *)
SignalMeant ==
  LET n == Len(buffer)
      line(i) == Minus(MeanOf(Window(Prices, i, params.fast)), MeanOf(Window(Prices, i, params.slow)))
  IN  MeanOf([j \in 1 .. params.signal |-> line(n - params.signal + j)])

(* What is stored of the moving averages is the mean of the closes of just *)
(* the last period candles, also of the signal line, whose input begins    *)
(* with NaN, and of Bollinger's middle (trend.py:30).  The signal line and *)
(* %D are missing if the buffer is too short for them, and only then.      *)
AveragesAreOfTheirWindow ==
  buffer # <<>> =>
    /\ Latest(Sma(Prices, params.period)) = MeanOf(Last(params.period))
    /\ Latest(MacdSignal(Prices, params.fast, params.slow, params.signal)) =
         IF Len(buffer) >= Max({params.fast, params.slow}) + params.signal - 1 THEN SignalMeant ELSE None
    /\ Latest(Bollinger(buffer, params.period)).middle = MeanOf(Last(params.period))
    /\ Latest(StochD(buffer, params.k, params.d)) =
         IF Len(buffer) >= params.k + params.d - 1
         THEN MeanOf([j \in 1 .. params.d |-> StochK(buffer, params.k)[Len(buffer) - params.d + j]])
         ELSE None

(* Between 0 and 100 if there are as many candles as it needs, else        *)
(* missing.                                                                *)
InRange(x, n) == IF Len(buffer) >= n THEN x # None /\ Between(x, 0, 100) ELSE x = None

(* An oscillator stays between 0 and 100, an average of prices between the *)
(* lowest and the highest of them, and the buffer is as long as each of    *)
(* them needs (indicator_calculator.py:131), but for the two whose need    *)
(* grows by more than a period.                                            *)
OscillatorsInRange ==
  buffer # <<>> =>
    /\ \A x \in {Latest(Rsi(Closes(buffer), params.period)), Latest(StochK(buffer, params.k)),
                 Latest(Mfi(buffer, params.period)),
                 AroonUp(buffer, params.period, Len(buffer)),
                 AroonDown(buffer, params.period, Len(buffer))} :
         x # None /\ Between(x, 0, 100)
    /\ InRange(Latest(StochD(buffer, params.k, params.d)), params.k + params.d - 1)
    /\ \A x \in {Latest(PlusDI(buffer, params.period)), Latest(MinusDI(buffer, params.period)),
                 Latest(Adx(buffer, params.period))} : InRange(x, 2 * params.period)
    /\ LET v == Latest(Vwap(buffer))
       IN  v = Num(0) \/ Between(v, Lowest(Closes(buffer)), Highest(Closes(buffer)))
    /\ AtMost(Num(0), Latest(Atr(buffer, params.period)))
    /\ Abs(Obv(buffer)[Len(buffer)]) <= SumOf([i \in DOMAIN buffer |-> Num(buffer[i].volume)])[1]

IndicatorsSound == AveragesAreOfTheirWindow /\ OscillatorsInRange

(* "ema[i] = price[i] * multiplier + ema[i-1] * (1 - multiplier)"          *)
(* (trend.py:132), which the code does not keep behind the seed.           *)
EmaFollowsItsFormula ==
  buffer # <<>> =>
    LET m   == Multiplier(params.period)
        ema == Ema(Prices, params.period)
    IN  \A i \in params.period + 1 .. Len(buffer) :
          ema[i] = Plus(Times(Prices[i], m), Times(ema[i - 1], Minus(Num(1), m)))
=============================================================================
