--------------------------- MODULE PriceStatistics ---------------------------
(***************************************************************************)
(* The average prices strategies ask for: SymbolPriceStatistics            *)
(* (domain/strategies/price_statistics.py), which execute_tick of the      *)
(* pipeline's StrategyRunner feeds.  Its first tick preloads the last week *)
(* from the candles, or from Binance where there are too few.              *)
(*                                                                         *)
(* A price is told by its time, and an average by the samples it is of.    *)
(***************************************************************************)
EXTENDS Integers, Sequences, FiniteSets

CONSTANTS
  Pairs,      \* symbols
  Hour,       \* UPDATE_INTERVAL
  Day, Week,  \* the windows of the averages
  Enough,     \* candles a preload from the database takes (3600)
  Minute,     \* from one kline of Binance to the next
  Page,       \* klines of an answer (1000)
  MaxErrors,  \* errors in a row that end the reading of klines (3)
  Histories,  \* how many candles a symbol may have when the runner is created
  Until       \* bound: the wall clock

StatisticsAssumption ==
  /\ {Hour, Day, Week, Enough, Minute, Page, MaxErrors, Until} \subseteq Nat \ {0}
  /\ Histories \subseteq Nat

VARIABLES
  wall,      \* the wall clock; the runner was created at 0
  at,        \* candle_time of the latest tick
  ticked,    \* the symbols that had their tick of that time
  ticker,    \* where execute_tick is
  recorded,  \* candles_1s of each symbol when the runner was created
  preloaded, \* _prices_preloaded
  loaded,    \* _loaded of the statistics
  samples,   \* the prices of each symbol, in order of arrival
  averages,  \* what is cached of each symbol
  latest,    \* history: candle_time of the latest tick that was recorded
  first      \* history: from the first tick's candle to the end of its preload

statistics     == <<loaded, samples, averages>>
statisticsVars == <<wall, at, ticked, ticker, recorded, preloaded, statistics, latest, first>>

Resting == [at |-> "idle"]
NotYet  == [last |-> -Week - Hour, day |-> <<>>, week |-> <<>>]
-----------------------------------------------------------------------------
(* _SymbolPriceBuffer.  A window ends at the sample that came last.        *)
(* A filtered list keeps the elements at some places, in their order: its  *)
(* i-th is at the place that has i of them up to it.                       *)
Rank(places, p) == Cardinality({q \in places : q <= p})

At(seq, places) ==
  [i \in 1 .. Cardinality(places) |-> seq[CHOOSE p \in places : Rank(places, p) = i]]

Since(seq, cutoff) == At(seq, {p \in DOMAIN seq : seq[p] >= cutoff})

WindowOf(seq, window) == IF seq = <<>> THEN <<>> ELSE Since(seq, seq[Len(seq)] - window)

Due(average, now) == average = NotYet \/ now >= average.last + Hour

Pruned(seq, average, now) == IF Due(average, now) THEN Since(seq, now - Week) ELSE seq

Averaged(seq, average, now) ==
  IF ~Due(average, now) THEN average
  ELSE LET kept == Since(seq, now - Week)
       IN [last |-> now, day |-> WindowOf(kept, Day), week |-> WindowOf(kept, Week)]

(* get_avg_price of the day.                                               *)
Answer(s) == IF averages[s].day # <<>> THEN averages[s].day ELSE samples[s]

(* refresh: every symbol of known, which has the prices given.             *)
Refresh(known, prices, now) ==
  /\ samples' = [s \in Pairs |->
       IF s \in known THEN Pruned(prices[s], averages[s], now) ELSE samples[s]]
  /\ averages' = [s \in Pairs |->
       IF s \in known THEN Averaged(prices[s], averages[s], now) ELSE averages[s]]

(* load_historical_prices, which does nothing for a symbol it has loaded.  *)
LoadAll(found) ==
  /\ loaded' = loaded \union DOMAIN found
  /\ Refresh(DOMAIN found \ loaded, found, wall)
-----------------------------------------------------------------------------
(* Time passes wherever the ticker waits.                                  *)
Second ==
  /\ wall < Until /\ wall' = wall + 1
  /\ UNCHANGED <<at, ticked, ticker, recorded, preloaded, statistics, latest, first>>

(* execute_tick, for the next candle or one of the same second; candles    *)
(* may wait for it.                                                        *)
Candle(s, t) ==
  /\ ticker = Resting /\ at <= t /\ t <= wall /\ (t = at => s \notin ticked)
  /\ at' = t /\ ticked' = (IF t = at THEN ticked ELSE {}) \union {s}
  /\ UNCHANGED <<wall, recorded, statistics, latest>>

(* The first tick preloads the symbols the strategies name at that time;   *)
(* whatever comes of it, no later one does.  (_prices_preloaded is set at  *)
(* the end, but no other tick comes before it.)                            *)
FirstTick(s, t) ==
  /\ ~preloaded /\ Candle(s, t)
  /\ \E watched \in SUBSET Pairs :
       ticker' = IF watched = {} THEN [at |-> "record", symbol |-> s]
                 ELSE [at |-> "rows", symbol |-> s, todo |-> watched, now |-> wall]
  /\ preloaded' = TRUE /\ first' = [from |-> t, to |-> wall]

Tick(s, t) ==
  /\ preloaded /\ Candle(s, t)
  /\ ticker' = [at |-> "record", symbol |-> s]
  /\ UNCHANGED <<preloaded, first>>

(* A price is recorded if an active strategy is to see it, and the averages*)
(* of every symbol with a buffer are computed anew where they are due.     *)
Record ==
  LET s == ticker.symbol
      known == {s} \union {x \in Pairs : averages[x] # NotYet}
  IN  /\ ticker.at = "record"
      /\ Refresh(known, [samples EXCEPT ![s] = Append(@, at)], at)
      /\ ticker' = Resting /\ latest' = at
      /\ UNCHANGED <<wall, at, ticked, recorded, preloaded, loaded, first>>

NobodyListens ==
  /\ ticker.at = "record"
  /\ ticker' = Resting
  /\ UNCHANGED <<wall, at, ticked, recorded, preloaded, statistics, latest, first>>
-----------------------------------------------------------------------------
Preloading == UNCHANGED <<wall, at, ticked, recorded, preloaded, latest>>

Numbers(lo, hi) == [i \in 1 .. (hi - lo + 1) |-> lo + i - 1]

(* _preload_price_statistics: the candles of the last week, up to the one  *)
(* of this tick if those of the run are written already.                   *)
Rows(s, written) == Since(Numbers(-recorded[s], IF written THEN at ELSE -1), ticker.now - Week)

(* Where the reading of a symbol's klines begins.                          *)
Unread(todo) ==
  [at |-> "klines", symbol |-> ticker.symbol, todo |-> todo, now |-> ticker.now,
   start |-> ticker.now - Week, more |-> TRUE, prices |-> <<>>, errors |-> 0]

ReadRows ==
  /\ ticker.at = "rows"
  /\ \E written \in BOOLEAN :
       LET many == {s \in ticker.todo : Len(Rows(s, written)) >= Enough}
       IN /\ LoadAll([s \in many |-> Rows(s, written)])
          /\ ticker' = Unread(ticker.todo \ many)
  /\ UNCHANGED first /\ Preloading

ReadRowsFails ==
  /\ ticker.at = "rows"
  /\ ticker' = [at |-> "record", symbol |-> ticker.symbol]
  /\ UNCHANGED <<statistics, first>> /\ Preloading

(* _fetch_binance_klines_to_prices: a page after the other until the time  *)
(* of the preload; what was read before errors in a row counts.            *)
Klines(start) ==
  LET seconds == Numbers(start, wall)
      all     == At(seconds, {p \in DOMAIN seconds : seconds[p] % Minute = 0})
  IN  SubSeq(all, 1, IF Len(all) < Page THEN Len(all) ELSE Page)

Reading ==
  /\ ticker.at = "klines" /\ ticker.todo # {} /\ ticker.more
  /\ ticker.start < ticker.now /\ ticker.errors < MaxErrors

ReadPage ==
  /\ Reading
  /\ LET page == Klines(ticker.start)
     IN ticker' = IF page = <<>> THEN [ticker EXCEPT !.more = FALSE, !.errors = 0]
                  ELSE [ticker EXCEPT !.prices = @ \o page, !.start = page[Len(page)] + 1,
                                      !.errors = 0]
  /\ UNCHANGED <<statistics, first>> /\ Preloading

(* An answer that cannot be read ends a row of errors and begins another.  *)
PageFails ==
  /\ Reading
  /\ \E errors \in {ticker.errors, 0} : ticker' = [ticker EXCEPT !.errors = errors + 1]
  /\ UNCHANGED <<statistics, first>> /\ Preloading

(* _preload_from_binance: what was read of a symbol is loaded, if anything,*)
(* and the next symbol comes.                                              *)
SymbolRead(s) ==
  /\ ticker.at = "klines" /\ s \in ticker.todo /\ ~Reading
  /\ LoadAll([x \in {y \in {s} : ticker.prices # <<>>} |-> ticker.prices])
  /\ ticker' = Unread(ticker.todo \ {s})
  /\ UNCHANGED first /\ Preloading

Preloaded ==
  /\ ticker.at = "klines" /\ ticker.todo = {}
  /\ ticker' = [at |-> "record", symbol |-> ticker.symbol]
  /\ first' = [first EXCEPT !.to = wall]
  /\ UNCHANGED statistics /\ Preloading
-----------------------------------------------------------------------------
StatisticsInit ==
  /\ wall = 0 /\ at = 0 /\ ticked = {} /\ ticker = Resting
  /\ recorded \in [Pairs -> Histories]
  /\ preloaded = FALSE /\ loaded = {}
  /\ samples = [s \in Pairs |-> <<>>] /\ averages = [s \in Pairs |-> NotYet]
  /\ latest = 0 /\ first = [from |-> 0, to |-> 0]

StatisticsNext ==
  \/ Second
  \/ \E s \in Pairs, t \in 0 .. Until : FirstTick(s, t) \/ Tick(s, t)
  \/ Record \/ NobodyListens
  \/ ReadRows \/ ReadRowsFails \/ ReadPage \/ PageFails
  \/ \E s \in Pairs : SymbolRead(s)
  \/ Preloaded

StatisticsSpec == StatisticsInit /\ [][StatisticsNext]_statisticsVars
-----------------------------------------------------------------------------
StatisticsTypeOK ==
  /\ wall \in 0 .. Until /\ at \in 0 .. wall /\ ticked \subseteq Pairs
  /\ ticker.at \in {"idle", "rows", "klines", "record"}
  /\ loaded \subseteq Pairs
  /\ \A s \in Pairs : \A i \in DOMAIN samples[s] : samples[s][i] \in -Week .. Until

(* No price is counted twice, however often pages are asked again and      *)
(* whichever source was read, but for those of the seconds from the candle *)
(* of the first tick to the end of its preload.                            *)
CountedOnce ==
  \A s \in Pairs : \A i, j \in DOMAIN samples[s] :
    i < j /\ samples[s][i] = samples[s][j] =>
      first.from <= samples[s][i] /\ samples[s][i] <= first.to

(* "Updates are throttled to once per hour": whatever symbol ticks, the    *)
(* averages of all are less than an hour old, and lack no price that came  *)
(* before they were computed.                                              *)
AveragesAreFresh ==
  ticker = Resting =>
    \A s \in Pairs : averages[s] # NotYet =>
      LET seq == samples[s]
          Has(n) ==
            /\ averages[s].day = Since(SubSeq(seq, 1, n), seq[n] - Day)
            /\ averages[s].week = SubSeq(seq, 1, n)
            /\ \A k \in (n + 1) .. Len(seq) :
                 seq[k] >= averages[s].last \/ seq[k] <= first.to
      IN  /\ latest < averages[s].last + Hour
          /\ averages[s].week # <<>> => \E n \in DOMAIN seq : Has(n)

(* A strategy is told an average of the last week, and an hour, unless the *)
(* candle of the first tick was more than a week old at the end of its     *)
(* preload: what came since is then not pruned for an hour.                *)
OfTheLastWeek ==
  ticker = Resting /\ first.to <= first.from + Week =>
    \A s \in Pairs : \A i \in DOMAIN Answer(s) : Answer(s)[i] > latest - Week - Hour

AveragesAreSound == CountedOnce /\ AveragesAreFresh /\ OfTheLastWeek
=============================================================================
