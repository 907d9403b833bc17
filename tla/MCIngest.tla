------------------------------ MODULE MCIngest -------------------------------
(* TradeAggregator and RecoveryManager on small instances, each for itself:*)
(* side says which of the two moves, the other one stays as it began.      *)
EXTENDS TradeAggregator, RecoveryManager

VARIABLE side

allVars == <<vars, recVars, side>>

Trading == side = "trades"
Asking  == side = "ids"

IngestInit ==
  /\ side \in {"trades", "ids"}
  /\ Init /\ (Asking => lastClose = NoClose)
  /\ RecoveryInit /\ (Trading => latest = 0)

IngestNext ==
  \/ Trading /\ Next /\ UNCHANGED <<recVars, side>>
  \/ Asking /\ RecoveryNext /\ UNCHANGED <<vars, side>>

(* The fairness of the two specifications, each on its side.               *)
Ticks     == Trading /\ TickAt(MaxClock) /\ UNCHANGED <<recVars, side>>
Recovers  == Asking /\ Recover /\ UNCHANGED <<vars, side>>
Receives  == Asking /\ Receive /\ UNCHANGED <<vars, side>>

IngestSpec ==
  /\ IngestInit /\ [][IngestNext]_allVars
  /\ WF_allVars(Ticks) /\ WF_allVars(Recovers) /\ WF_allVars(Receives)
=============================================================================
