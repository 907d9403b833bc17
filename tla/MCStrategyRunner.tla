-------------------------- MODULE MCStrategyRunner ---------------------------
(* The pipeline's StrategyRunner, the price statistics it feeds and the    *)
(* runners on the message bus, on a small instance chosen by the           *)
(* configuration.  They share no variable: side says which of them moves,  *)
(* the others stay as they began.                                          *)
EXTENDS StrategyRunner, TLC

CONSTANTS
  Channels, MaxTicks, MaxBreaks, MaxCalls,
  Pairs, Hour, Day, Week, Enough, Minute, Page, MaxErrors, Histories, Until

VARIABLES
  side, bus, conn, known, callbacks, heard, wire, starter, listeners, started, spent, work,
  wall, at, ticked, ticker, recorded, preloaded, preload, samples, averages, latest, first

Watches == [s \in Strategies |-> Channels]

T == INSTANCE TickRunner

S == INSTANCE PriceStatistics WITH loaded <- preload

ASSUME SidesAssumption == T!BusAssumption /\ S!StatisticsAssumption

onBus == <<bus, conn, known, callbacks, heard, wire, starter, listeners, started, spent, work>>
statistics == <<wall, at, ticked, ticker, recorded, preloaded, preload, samples, averages,
                latest, first>>

SidesInit ==
  /\ side \in {"pipeline", "bus", "prices"}
  /\ Init
  /\ T!Init
  /\ S!StatisticsInit

SidesNext ==
  /\ UNCHANGED side
  /\ \/ side = "pipeline" /\ Next /\ UNCHANGED <<onBus, statistics>>
     \/ side = "bus" /\ T!Next /\ UNCHANGED <<vars, statistics>>
     \/ side = "prices" /\ S!StatisticsNext /\ UNCHANGED <<vars, onBus>>

SidesSpec == SidesInit /\ [][SidesNext]_<<side, vars, onBus, statistics>>

(* What strategies are told: ticks on the bus, and the average prices.     *)
RunnersAreSound == T!WorksOnceInOrder /\ S!AveragesAreSound

TypesOK == TypeOK /\ T!TypeOK /\ S!StatisticsTypeOK

(* Of the last signal only whether it is routed matters.                   *)
LastIsOnlyRouted == Len(signals) < MaxSignals

Symmetry == Permutations(Strategies) \union Permutations(Pairs)
=============================================================================
