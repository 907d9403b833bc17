---------------------------- MODULE RiskGuardrails ----------------------------
(***************************************************************************)
(* RiskGuardrailService (application/services/risk_guardrails.py): the     *)
(* limits every order is checked against, the kill switches, the pause     *)
(* after stale data, and the daily loss.                                   *)
(*                                                                         *)
(* None of the service's coroutines waits for anything, so each call is    *)
(* one step.  What happens between the calls is the hard part: an order is *)
(* checked against positions the caller reports later, the day may end     *)
(* without a trade that resets the loss, and a strategy may be deactivated *)
(* and registered anew.  Notional is counted in units of one order, so     *)
(* that a percentage of the balance becomes a number of units; the breach  *)
(* records, which nothing reads back, are left out.                        *)
(***************************************************************************)
EXTENDS Integers, FiniteSets, FiniteSetsExt

CONSTANTS
  Strategies,    \* ids of strategies
  Symbols,       \* symbols they trade
  MaxPositions,  \* MAX_POSITIONS
  MaxExposure,   \* MAX_EXPOSURE_PCT of the initial balance, in units
  SymbolCap,     \* SYMBOL_NOTIONAL_CAP, in units
  StartBalance,  \* balance of a strategy's account at the start
  LossPercent,   \* DAILY_LOSS_LIMIT, positive
  Losses,        \* what a losing trade may lose
  Profits,       \* what a winning one may win
  Cooldown,      \* minutes a stale tick pauses a strategy for
  MaxUnreported, \* orders a caller has checked between two reports
  MaxDays,       \* bound: days
  MaxTrades      \* bound: trades whose result is recorded

ASSUME RiskAssumption ==
  /\ IsFiniteSet(Symbols)
  /\ MaxPositions \in Nat /\ MaxExposure \in Nat /\ SymbolCap \in Nat
  /\ StartBalance \in Int /\ LossPercent \in Nat /\ Losses \subseteq Nat /\ Profits \subseteq Nat
  /\ {Cooldown, MaxUnreported, MaxDays, MaxTrades} \subseteq Nat
  /\ MaxUnreported > 0

VARIABLES
  risk,       \* _risk_states: what the service knows of a strategy
  registered, \* the strategies that have such a state
  globalKill, \* _global_kill_switch
  resetDay,   \* _last_reset_date
  day,        \* today
  held,       \* units a strategy really holds, per symbol
  balance,    \* the balance of its account
  unreported, \* orders allowed since its positions were last reported
  lossToday,  \* history: its result since midnight
  forgotten,  \* history: strategies deactivated at some time
  trades      \* results recorded so far, for the bound

serviceVars == <<risk, registered, globalKill, resetDay>>
accountVars == <<held, unreported, balance, lossToday, trades>>
riskVars    == <<serviceVars, accountVars, forgotten, day>>

Never == -1

Pnls == Profits \union {-l : l \in Losses}

NothingHeld == [y \in Symbols |-> 0]

(* A fresh RiskState.  over stands for "daily_pnl_pct < threshold", the    *)
(* only thing the service asks of the percentage.                          *)
NewState ==
  [pnl |-> 0, over |-> FALSE, kill |-> FALSE, pause |-> 0, reported |-> NothingHeld]

(* _get_or_create_state, and register_strategy: the state of s, new if     *)
(* there is none.                                                          *)
StateOf(s) == IF s \in registered THEN risk[s] ELSE NewState

SetState(s, state) ==
  /\ risk' = [risk EXCEPT ![s] = state]
  /\ registered' = registered \union {s}

Units(h) == MapThenSumSet(LAMBDA y : h[y], Symbols)
Positions(h) == Cardinality({y \in Symbols : h[y] > 0})

(* "daily_pnl / balance * 100 < threshold", for a positive balance.        *)
Exceeds(pnl, bal) == 100 * pnl < -LossPercent * bal

(* trigger_strategy_kill, also reached from _trigger_breach.               *)
Killed(state) == [state EXCEPT !.kill = TRUE]
-----------------------------------------------------------------------------
(* check_order_allowed.  Every check before the daily loss only refuses.   *)
NotStopped(st) == ~globalKill /\ ~st.kill /\ st.pause = 0

WithinLimitsBefore(h, y) ==
  Positions(h) < MaxPositions /\ Units(h) <= MaxExposure /\ h[y] <= SymbolCap

WithinLimits(h, y) ==
  /\ Positions(h) < MaxPositions
  /\ Units(h) + 1 <= MaxExposure
  /\ h[y] + 1 <= SymbolCap

OrderAllowed(s, y) ==
  /\ unreported[s] < MaxUnreported
  /\ NotStopped(StateOf(s))
  /\ ~StateOf(s).over
  /\ WithinLimits(StateOf(s).reported, y)
  /\ SetState(s, StateOf(s))
  /\ held' = [held EXCEPT ![s][y] = @ + 1]
  /\ unreported' = [unreported EXCEPT ![s] = @ + 1]
  /\ UNCHANGED <<globalKill, resetDay, balance, lossToday, trades, forgotten, day>>

OrderRefused(s, y) ==
  /\ \/ ~NotStopped(StateOf(s))
     \/ ~StateOf(s).over /\ ~WithinLimits(StateOf(s).reported, y)
  /\ SetState(s, StateOf(s))
  /\ UNCHANGED <<globalKill, resetDay, accountVars, forgotten, day>>

(* The daily loss is the one refusal that kills the strategy.              *)
OrderKills(s) ==
  /\ NotStopped(StateOf(s))
  /\ StateOf(s).over
  /\ SetState(s, Killed(StateOf(s)))
  /\ UNCHANGED <<globalKill, resetDay, accountVars, forgotten, day>>

(* update_position_state.                                                  *)
ReportPositions(s) ==
  /\ held[s] # StateOf(s).reported \/ unreported[s] > 0
  /\ SetState(s, [StateOf(s) EXCEPT !.reported = held[s]])
  /\ unreported' = [unreported EXCEPT ![s] = 0]
  /\ UNCHANGED <<globalKill, resetDay, held, balance, lossToday, trades,
                 forgotten, day>>

(* check_data_freshness with a tick that is too old.                       *)
StaleTick(s) ==
  /\ SetState(s, [StateOf(s) EXCEPT !.pause = Cooldown])
  /\ UNCHANGED <<globalKill, resetDay, accountVars, forgotten, day>>
-----------------------------------------------------------------------------

(* _check_daily_reset: the first result of a day clears the loss of every  *)
(* strategy.                                                               *)
DailyReset ==
  IF resetDay = day THEN risk
  ELSE [s \in Strategies |-> [risk[s] EXCEPT !.pnl = 0, !.over = FALSE]]

AfterTradeNoLimit(state, pnl, bal) == [state EXCEPT !.pnl = @ + pnl]

(* record_pnl.  Without a positive balance the percentage keeps its value. *)
AfterTrade(state, pnl, bal) ==
  LET sum  == state.pnl + pnl
      over == IF bal > 0 THEN Exceeds(sum, bal) ELSE state.over
  IN  [state EXCEPT !.pnl = sum, !.over = over, !.kill = @ \/ over]

RecordPnl(s, pnl) ==
  LET before == IF s \in registered THEN DailyReset[s] ELSE NewState
      bal    == balance[s] + pnl
  IN  /\ trades < MaxTrades
      /\ risk' = [DailyReset EXCEPT ![s] = AfterTrade(before, pnl, bal)]
      /\ registered' = registered \union {s}
      /\ resetDay' = day
      /\ balance' = [balance EXCEPT ![s] = bal]
      /\ lossToday' = [lossToday EXCEPT ![s] = @ + pnl]
      /\ trades' = trades + 1
      /\ UNCHANGED <<globalKill, held, unreported, forgotten, day>>
-----------------------------------------------------------------------------
(* The kill switches an operator, or the emergency stop, sets and releases.*)
TriggerGlobalKill == globalKill' = TRUE
ReleaseGlobalKill == globalKill' = FALSE

TriggerStrategyKill(s) == SetState(s, Killed(StateOf(s)))

ReleaseStrategyKill(s) == SetState(s, [StateOf(s) EXCEPT !.kill = FALSE])

OperatorReleases(s) ==
  /\ StateOf(s).kill
  /\ ReleaseStrategyKill(s)
  /\ UNCHANGED <<globalKill, resetDay, accountVars, forgotten, day>>

(* unregister_strategy, which EnhancedStrategyRunner.deactivate_strategy   *)
(* calls.  The state is gone, a kill switch with it.  Bound: once each.    *)
Unregister(s) ==
  /\ s \in registered \ forgotten
  /\ registered' = registered \ {s}
  /\ risk' = [risk EXCEPT ![s] = NewState]
  /\ forgotten' = forgotten \union {s}
  /\ UNCHANGED <<globalKill, resetDay, accountVars, day>>

(* Outside the service: a position is closed, a minute or a day passes.    *)
Close(s, y) ==
  /\ held[s][y] > 0
  /\ held' = [held EXCEPT ![s][y] = @ - 1]
  /\ UNCHANGED <<serviceVars, unreported, balance, lossToday, trades, forgotten,
                 day>>

Minute ==
  /\ \E s \in Strategies : risk[s].pause > 0
  /\ risk' = [s \in Strategies |->
                [risk[s] EXCEPT !.pause = IF @ > 0 THEN @ - 1 ELSE 0]]
  /\ UNCHANGED <<registered, globalKill, resetDay, accountVars, forgotten, day>>

Midnight ==
  /\ day < MaxDays
  /\ day' = day + 1
  /\ lossToday' = [s \in Strategies |-> 0]
  /\ UNCHANGED <<serviceVars, held, unreported, balance, trades, forgotten>>

RiskInit ==
  /\ risk = [s \in Strategies |-> NewState] /\ registered = {}
  /\ globalKill = FALSE /\ resetDay = Never /\ day = 0
  /\ held = [s \in Strategies |-> NothingHeld]
  /\ balance = [s \in Strategies |-> StartBalance]
  /\ unreported = [s \in Strategies |-> 0]
  /\ lossToday = [s \in Strategies |-> 0] /\ trades = 0
  /\ forgotten = {}

Order(s, y) == OrderAllowed(s, y) \/ OrderRefused(s, y)

StrategyStep(s) ==
  \/ \E y \in Symbols : Order(s, y) \/ Close(s, y)
  \/ OrderKills(s) \/ ReportPositions(s) \/ StaleTick(s)
  \/ \E p \in Pnls : RecordPnl(s, p)
  \/ Unregister(s)

Clock == Minute \/ Midnight

-----------------------------------------------------------------------------
RiskTypeOK ==
  /\ registered \subseteq Strategies
  /\ risk \in [Strategies ->
       [pnl : Int, over : BOOLEAN, kill : BOOLEAN, pause : 0 .. Cooldown,
        reported : [Symbols -> Nat]]]
  /\ \A s \in Strategies \ registered : risk[s] = NewState
  /\ globalKill \in BOOLEAN
  /\ resetDay \in Never .. day /\ day \in 0 .. MaxDays
  /\ held \in [Strategies -> [Symbols -> Nat]]
  /\ balance \in [Strategies -> Int] /\ lossToday \in [Strategies -> Int]
  /\ unreported \in [Strategies -> 0 .. MaxUnreported]
  /\ trades \in 0 .. MaxTrades /\ forgotten \subseteq Strategies

(* What a strategy really holds, over any history of orders, closes, stale *)
(* ticks and reports, is within all three limits but for the orders checked*)
(* since the last report; a deactivation forgets the report altogether.    *)
LimitsHold ==
  \A s \in Strategies \ forgotten :
    /\ Positions(held[s]) < MaxPositions + MaxUnreported
    /\ Units(held[s]) < MaxExposure + MaxUnreported
    /\ \A y \in Symbols : held[s][y] < SymbolCap + MaxUnreported

(* A strategy whose result since midnight is beyond the daily loss limit   *)
(* gets no order through, however kills, releases, days and the results of *)
(* other strategies interleave.  A deactivation forgets the loss, and a    *)
(* balance that is gone is not looked at.                                  *)
Buys(s) == \E y \in Symbols : held'[s][y] > held[s][y]

OrderWithinLoss(s) ==
  Buys(s) /\ balance[s] > 0 => ~Exceeds(lossToday[s], balance[s])

(* The limit kills a strategy only for what it lost today; until the first *)
(* result of a day it may be yesterday's loss.                             *)
KilledForLoss(s) ==
  risk'[s].kill /\ ~risk[s].kill =>
    Exceeds(lossToday'[s], balance'[s]) \/ resetDay' # day
=============================================================================
