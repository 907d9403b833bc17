---------------------------- MODULE MCStrategies -----------------------------
(* The manager of what runs of a strategy in memory (StrategyLifecycle), the *)
(* requests on its rows (StrategyStore) and what its versions say            *)
(* (Configurations), on small instances.  They share no variable: a          *)
(* behaviour is of one of them.                                              *)
EXTENDS StrategyLifecycle, TLC

CONSTANTS Requesters, MaxVersions, MaxRequests, NoRow, Configs, MaxConfigs, Percent, Absent

VARIABLES row, versions, life, request, stats, requests, lately, refused,
          kind, drafts, chosen, by

S == INSTANCE StrategyStore WITH Clients <- Requesters, None <- NoRow, job <- request

C == INSTANCE Configurations

ASSUME StoreAssumption == S!StoreAssumption /\ C!ConfigurationsAssumption

VARIABLE side  \* which of them

manager == <<state, instance, status, audited, job, ghost, alone, clean>>
store   == <<row, versions, life, request, stats, requests, lately, refused>>
texts   == <<kind, drafts, chosen, by>>

StrategiesInit == Init /\ S!Init /\ C!Init /\ side \in {"memory", "rows", "texts"}

StrategiesNext ==
  \/ side = "memory" /\ Next /\ UNCHANGED <<store, texts, side>>
  \/ side = "rows" /\ S!Next /\ UNCHANGED <<manager, texts, side>>
  \/ side = "texts" /\ C!Next /\ UNCHANGED <<manager, store, side>>

StrategiesSpec == StrategiesInit /\ [][StrategiesNext]_<<manager, store, texts, side>>

(* The properties of the requests, by their names in StrategyStore; what the *)
(* versions say is a part of their order.                                    *)
VersionsAreSound == S!VersionsInOrder /\ C!ConfigsAreChecked
OwnPricesOnly    == S!OwnPricesOnly
WritesAreSound   == S!WritesAreSound

(* Configurations, each of which differs from a plain one in one point.      *)
Rsi(low, high)      == [type |-> "rsi", params |-> [period |-> 14, oversold |-> low, overbought |-> high]]
Signal(type, given) == [type |-> type, params |-> given]

Plain == [mode |-> "paper", size |-> 15, stop |-> Absent, take |-> Absent, signal |-> Rsi(30, 70)]

Written ==
  {Plain, [Plain EXCEPT !.mode = "live"], [Plain EXCEPT !.stop = 5, !.take = 5],
   [Plain EXCEPT !.stop = 0, !.take = 5]}
  \union {[Plain EXCEPT !.size = s] : s \in {30, 45, Absent}}
  \union {[Plain EXCEPT !.signal = s] :
             s \in {Absent, Rsi(70, 30), Signal("bollinger", [period |-> 20]),
                   Signal("sma_cross", [fast |-> 3, slow |-> 2]),
                   Signal("macd", [fast |-> 2, slow |-> 3, signal |-> 1]),
                   Signal("composite", [rules |-> 1])}}

Symmetry == Permutations(Clients) \union Permutations(Requesters)
=============================================================================
