---------------------------- MODULE MCOperations -----------------------------
(* The pipeline of one symbol and the services beside it, on small         *)
(* instances.  They share no variable: side says which of them moves, the  *)
(* others stay as they began.                                              *)
EXTENDS Integers, FiniteSets, TLC

CONSTANTS
  MaxTrade, MaxClock, MaxStarts,
  Symbols, Excluded, Euro, Indicators, Clients, MaxRules, MaxRequests, MaxTrades, BatchSize, NoRow,
  Candles, Definitions, DefaultWindow, Margin, WideMargin, MaxCandles,
  MaxEvents, MaxMemory, Jobs, MaxVersions, MaxResets, PageSize

VARIABLES
  side,
  now, trades, phase, starts, lastId, cursor, current, pending, lastClose, lastEmitted,
  emitted, ticked, buffer, known, rows, stored, base, onTime, dropped,
  table, defs, exchange, sync, calls, asked, touched, removed, collector, kept, left,
  params, history, window,
  trail, memory, audit_log, singles, flush, logger, trimmed, overtaken, uncertain,
  versions, jobs, tasks, results, clock, resets, gone, unsure

P == INSTANCE TradePipeline WITH table <- rows
R == INSTANCE Registry
I == INSTANCE Indicators WITH buffer <- window
A == INSTANCE AuditTrail
J == INSTANCE BacktestJobs

ASSUME TradingAssumption ==
  P!PipelineAssumption /\ R!RegistryAssumption /\ I!IndicatorsAssumption
ASSUME ServicesAssumption == A!AuditAssumption /\ J!JobsAssumption

pipeline == <<now, trades, phase, starts, lastId, cursor, current, pending, lastClose,
              lastEmitted, emitted, ticked, buffer, known, rows, stored, base, onTime, dropped>>
indicators == <<params, history, window>>
audit == <<trail, memory, audit_log, singles, flush, logger, trimmed, overtaken, uncertain>>
backtests == <<versions, jobs, tasks, results, clock, resets, gone, unsure>>

registry == <<table, defs, exchange, sync, calls, asked, touched, removed, collector, kept, left>>

(* The table of symbols: many requests, or few beside a synchronisation or *)
(* beside the collector.                                                   *)
Lists == [s \in Symbols |-> 1]

RegistryInit ==
  /\ R!Init
  /\ asked = IF side \in {"requests", "indicators"} THEN 0
             ELSE IF side \in {"sync", "collect"} THEN MaxRequests - 1 ELSE MaxRequests
  /\ side # "sync" => exchange = Lists
  /\ side # "indicators" => \A n \in Indicators : defs[n] = NoRow
  /\ side \notin {"sync", "collect", "requests"} => \A s \in Symbols : table[s] = NoRow

RegistryNext ==
  \/ side = "sync" /\ (R!Sync \/ R!ExchangeChanges)
  \/ side = "collect" /\ R!Collect
  \/ side \in {"sync", "collect", "requests"} /\ R!Serve
  \/ side = "indicators" /\ (R!ServeIndicators
                              \/ \E c \in Clients : R!FailFound(c) \/ R!Leaves(c))

(* The arithmetic of the indicators.                                       *)
IndicatorsInit == I!Init /\ (side # "values" => params = CHOOSE p \in Definitions : TRUE)

OperationsInit ==
  /\ side \in {"trades", "sync", "collect", "requests", "indicators", "values", "audit", "jobs"}
  /\ P!Init
  /\ RegistryInit
  /\ IndicatorsInit
  /\ A!Init /\ J!Init

OperationsNext ==
  /\ UNCHANGED side
  /\ \/ side = "trades" /\ P!Next /\ UNCHANGED <<registry, indicators, audit, backtests>>
     \/ RegistryNext /\ UNCHANGED <<pipeline, indicators, audit, backtests>>
     \/ side = "values" /\ I!Next /\ UNCHANGED <<pipeline, registry, audit, backtests>>
     \/ side = "audit" /\ A!Next /\ UNCHANGED <<pipeline, registry, indicators, backtests>>
     \/ side = "jobs" /\ J!Next /\ UNCHANGED <<pipeline, registry, indicators, audit>>

OperationsSpec ==
  OperationsInit /\ [][OperationsNext]_<<side, pipeline, registry, indicators, audit, backtests>>

TradesReachTheirRows == P!TradesReachTheirRows

SyncTakesEffect == R!SyncTakesEffect
(* What a client is told, of a row or of its job.                          *)
AnswersAreTrue == R!AnswersAreTrue /\ J!JobsTellTheirResults

(* What is kept in memory reaches its table: trades that are collected,    *)
(* events that are logged.                                                 *)
RecordsAreKept == R!CollectedIsKept /\ A!EventsAreKept

IndicatorsSound == side = "values" => I!IndicatorsSound

OperationsTypeOK == P!TypeOK /\ R!TypeOK /\ I!TypeOK /\ A!TypeOK /\ J!TypeOK

Symmetry == Permutations(Clients)

(* Four shapes of a candle, the last one of a second without a trade.      *)
Shapes == {[low |-> 1, close |-> 2, high |-> 3, volume |-> 1],
           [low |-> 2, close |-> 3, high |-> 3, volume |-> 2],
           [low |-> 1, close |-> 1, high |-> 2, volume |-> 1],
           [low |-> 3, close |-> 3, high |-> 3, volume |-> 0]}

Parameters == {[period |-> 2, fast |-> 2, slow |-> 3, signal |-> 2, k |-> 2, d |-> 2],
               [period |-> 3, fast |-> 2, slow |-> 4, signal |-> 2, k |-> 3, d |-> 2],
               [period |-> 4, fast |-> 6, slow |-> 2, signal |-> 2, k |-> 4, d |-> 4]}
=============================================================================
