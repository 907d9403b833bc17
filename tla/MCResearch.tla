----------------------------- MODULE MCResearch ------------------------------
(* The instance that run research checks.                                    *)
EXTENDS Research

Nothing == <<0, FALSE>>

SecondsOf ==
  [ml          |-> {Nothing, <<1, FALSE>>, <<1, TRUE>>},
   tcn         |-> {Nothing, <<1, TRUE>>},
   entry       |-> {Nothing, <<3, TRUE>>, <<4, TRUE>>, <<5, TRUE>>},
   targets     |-> {Nothing, <<1, FALSE>>},
   predictions |-> {Nothing, <<0, TRUE>>, <<1, FALSE>>, <<1, TRUE>>},
   backtests   |-> {Nothing, <<0, TRUE>>, <<3, FALSE>>, <<3, TRUE>>, <<5, TRUE>>},
   files       |-> {}, serving |-> {}]

HoursOf == [ml |-> 8, tcn |-> 14, entry |-> 8]

ClockBounds ==
  [ml |-> 10, tcn |-> 15, entry |-> 8, targets |-> 7, predictions |-> 6, backtests |-> 7,
   files |-> 0, serving |-> 0]

(* A calculation of targets meets at most one gap; trainings are studied     *)
(* without a server, or with one that keeps a model and one epoch each.      *)
Few ==
  /\ study = "targets" => Cardinality({t \in 1..clock : close[t] = 0}) <= 1
  /\ \A j \in Jobs : Working(j) => job[j].late <= Width
  /\ study = "files" => loading = NoName
  /\ study = "serving" =>
       /\ Cardinality({n \in DOMAIN cache : cache[n] # NotLoaded}) <= 1
       /\ \A r \in Runs : Alive(r) => run[r].epoch = 1
=============================================================================
