---------------------------- MODULE StrategyRunner ----------------------------
(***************************************************************************)
(* The way from a tick to an order: StrategyRunner and StrategyExecutor    *)
(* (pipeline/strategy_runner.py, strategy_executor.py) on a symbol's       *)
(* ticks, with LiveMarketService (infrastructure/market) placing what the  *)
(* strategies signal.                                                      *)
(*                                                                         *)
(* The pipeline's ticker runs all of it, and pc is the await it is         *)
(* suspended at.  The strategies of a tick run in threads side by side, at *)
(* most Timeout long.  A signal is its strategy, side, price and the time  *)
(* its thread made it.  Signals are routed one after the other, and what   *)
(* the exchange and the table know of a signal is kept until the next one  *)
(* or the next tick.  Stdout, counters and the bound of 500 on the signal  *)
(* history are left out; the price statistics are in PriceStatistics.      *)
(***************************************************************************)
EXTENDS Integers, Sequences, FiniteSets

CONSTANTS
  Strategies,      (* rows of the strategies table                         *)
  Prices,          (* prices they signal                                   *)
  ReloadInterval,  (* 5 seconds                                            *)
  Debounce,        (* 30 seconds without a reload after one that failed    *)
  Window,          (* dedup_window_seconds                                 *)
  Timeout,         (* seconds a thread may take, rounded up                *)
  MaxRetries,      (* _max_retries of the market service                   *)
  MaxClock,        (* bound: seconds                                       *)
  MaxSignals       (* bound: signals routed in one run of the pipeline     *)

ASSUME RunnerAssumption ==
  /\ {ReloadInterval, Window, Timeout, MaxRetries, MaxClock, MaxSignals} \subseteq Nat
  /\ Debounce \in Nat \ {0}

VARIABLES
  clock,       (* the wall clock                                           *)
  loaded,      (* _strategies: instances initialized and started           *)
  lastReload,  (* _last_reload                                             *)
  lastFailed,  (* _last_failed_reload                                      *)
  pc,          (* where the ticker is                                      *)
  db,          (* rows the last _load_active_strategies returned           *)
  began,       (* when the threads of the tick were started, 0 after it    *)
  running,     (* strategies whose thread is still waited for              *)
  results,     (* signals of the finished ones, not looked at yet          *)
  tries,       (* attempts made to place the order under way               *)
  outcome,     (* the status to save for the last signal                   *)
  signals,     (* _signal_history; its last one is the one being routed    *)
  orders,      (* orders the exchange has of that signal                   *)
  row,         (* its status in strategy_signals                           *)
  unrecorded,  (* history: a write failed or never came                    *)
  pricesPreloaded,  (* _prices_preloaded                                   *)
  waited       (* history: the threads were started behind the preload     *)

reload  == <<loaded, lastReload, lastFailed, db, pricesPreloaded, waited>>
tick    == <<began, running, results>>
routing == <<tries, outcome, signals, orders, row>>
history == <<unrecorded>>
vars    == <<clock, reload, pc, tick, routing, history>>

LongAgo  == -(ReloadInterval + Debounce + 1)   \* 0.0 in epoch seconds
NoRow    == "none"
NoSignal == "no signal"                        \* none was routed in this tick
Statuses == {"EXECUTED", "FAILED", "REJECTED"}
Last     == signals[Len(signals)]              \* the signal being routed
-----------------------------------------------------------------------------
(* Time passes at any await, but no thread is waited for longer than       *)
(* Timeout.                                                                *)
Second ==
  /\ clock < MaxClock
  /\ pc = "run" => clock < began + Timeout
  /\ clock' = clock + 1
  /\ UNCHANGED <<reload, pc, tick, routing, history>>
-----------------------------------------------------------------------------
ReloadDueLate == clock - lastReload > ReloadInterval + 1

(* execute_tick reloads first when the interval is over, and hot_reload    *)
(* returns at once while the last failure is recent.                       *)
ReloadDue == clock - lastReload > ReloadInterval
Debounced == clock - lastFailed < Debounce

(* One thread per eligible strategy is started.                            *)
StartThreads(eligible) ==
  /\ running' = eligible
  /\ results' = {} /\ pricesPreloaded' = TRUE
  /\ IF eligible = {} THEN pc' = "idle" /\ began' = 0 ELSE pc' = "run" /\ began' = clock

(* Behind the reload the first tick waits for the price statistics, if its *)
(* strategies name a symbol.                                               *)
AfterReload(strategies) ==
  \/ StartThreads(strategies) /\ waited' = FALSE
  \/ /\ ~pricesPreloaded /\ strategies # {}
     /\ pc' = "preload"
     /\ UNCHANGED <<tick, pricesPreloaded, waited>>

Preload ==
  /\ pc = "preload"
  /\ StartThreads(loaded) /\ waited' = TRUE
  /\ UNCHANGED <<clock, loaded, lastReload, lastFailed, db, routing, history>>

RunWithoutReload ==
  /\ pc = "idle"
  /\ ~ReloadDue \/ Debounced
  /\ AfterReload(loaded)
  /\ UNCHANGED <<clock, loaded, lastReload, lastFailed, db, routing, history>>

(* The rows with status "active" are read, which users change at any time; *)
(* one whose configuration or class cannot be loaded is skipped, and some  *)
(* such errors count as a failed reload.                                   *)
ReadRows ==
  /\ pc = "idle"
  /\ ReloadDue /\ ~Debounced
  /\ db' \in SUBSET Strategies
  /\ lastFailed' \in {lastFailed, clock}
  /\ pc' = "reload"
  /\ UNCHANGED <<clock, loaded, lastReload, pricesPreloaded, waited, tick, routing, history>>

ReadFails ==
  /\ pc = "idle"
  /\ ReloadDue /\ ~Debounced
  /\ lastFailed' = clock
  /\ AfterReload(loaded)
  /\ UNCHANGED <<clock, loaded, lastReload, db, routing, history>>

(* Strategies without a row are stopped, new ones started; one that cannot *)
(* start is left to the next reload.                                       *)
ApplyReload ==
  /\ pc = "reload"
  /\ \E begun \in SUBSET (db \ loaded) : loaded' = (loaded \intersect db) \union begun
  /\ lastReload' = clock
  /\ AfterReload(loaded')
  /\ UNCHANGED <<clock, lastFailed, db, routing, history>>
-----------------------------------------------------------------------------
(* A thread ends with a signal or without one; or wait_for gives it up and *)
(* its result counts no more.                                              *)
ThreadEnds(s) ==
  /\ pc = "run" /\ s \in running
  /\ running' = running \ {s}
  /\ \/ UNCHANGED results
     \/ \E side \in {"BUY", "SELL"}, p \in Prices :
          results' = results \union {[by |-> s, side |-> side, price |-> p, at |-> clock]}
  /\ IF running' = {} THEN pc' = "collect" /\ began' = 0 ELSE UNCHANGED <<pc, began>>
  /\ UNCHANGED <<clock, reload, routing, history>>

Same(a, b) == a.by = b.by /\ a.side = b.side /\ a.price = b.price

IsDuplicateOfLast(signal) ==
  \E i \in DOMAIN signals :
    /\ Same(signals[i], signal)
    /\ i = Len(signals)

(* _is_duplicate goes back through the history as far as the first signal  *)
(* that is older than the window.                                          *)
IsDuplicate(signal) ==
  \E i \in DOMAIN signals :
    /\ Same(signals[i], signal)
    /\ \A j \in i .. Len(signals) : signals[j].at >= clock - Window

DropDuplicate ==
  /\ pc = "collect"
  /\ \E r \in results : IsDuplicate(r) /\ results' = results \ {r}
  /\ UNCHANGED <<clock, reload, pc, began, running, routing, history>>

NothingUnderWay ==
  /\ row' = NoSignal /\ orders' = {} /\ unrecorded' = FALSE

EndTick ==
  /\ pc = "collect" /\ results = {}
  /\ pc' = "idle"
  /\ NothingUnderWay
  /\ UNCHANGED <<clock, reload, tick, tries, outcome, signals>>

(* A signal that is no duplicate is remembered and routed at once; without *)
(* a positive quantity it is rejected.                                     *)
Route ==
  /\ pc = "collect" /\ Len(signals) < MaxSignals
  /\ \E r \in results :
       /\ ~IsDuplicate(r)
       /\ results' = results \ {r}
       /\ signals' = Append(signals, [by |-> r.by, side |-> r.side, price |-> r.price,
                                      at |-> r.at, routed |-> clock])
  /\ row' = NoRow /\ orders' = {} /\ unrecorded' = FALSE
  /\ tries' = 0
  /\ \/ pc' = "order"  /\ outcome' = NoRow
     \/ pc' = "record" /\ outcome' = "REJECTED"
  /\ UNCHANGED <<clock, reload, began, running>>
-----------------------------------------------------------------------------
(* _retry_create_order: every attempt carries the same client order id,    *)
(* which the exchange may take again (LiveOrders), so what tells one order *)
(* from another is the attempt that placed it.                             *)
Order(kind, answered) ==
  [kind |-> kind, of |-> Last.side, attempt |-> tries, answered |-> answered]

Takes(order) == orders' = orders \union {order}

(* Where place_order returns to, with an order or by raising.              *)
AfterOrder(taken) ==
  IF pc = "order"
    THEN pc' = "record" /\ outcome' = (IF taken THEN "EXECUTED" ELSE "FAILED")
    ELSE pc' = "collect" /\ outcome' = NoRow

Placing == pc \in {"order", "protect"}

OrderTaken ==
  /\ Placing
  /\ Takes(Order(pc, TRUE))
  /\ AfterOrder(TRUE)
  /\ tries' = 0
  /\ UNCHANGED <<clock, reload, tick, signals, row, history>>

(* The answer is a status of REJECTED or CANCELED.                         *)
OrderRefused ==
  /\ Placing
  /\ AfterOrder(FALSE)
  /\ tries' = 0
  /\ UNCHANGED <<clock, reload, tick, signals, orders, row, history>>

(* No answer, whether the order was taken or not, or an error: tried again *)
(* until the retries are used up.                                          *)
TryAgain ==
  IF tries < MaxRetries
    THEN tries' = tries + 1 /\ UNCHANGED <<pc, outcome>>
    ELSE tries' = 0 /\ AfterOrder(FALSE)

OrderErrsAnswered ==
  /\ Placing
  /\ Takes(Order(pc, TRUE)) \/ UNCHANGED orders
  /\ TryAgain
  /\ UNCHANGED <<clock, reload, tick, signals, row, history>>

OrderErrs ==
  /\ Placing
  /\ Takes(Order(pc, FALSE)) \/ UNCHANGED orders
  /\ TryAgain
  /\ UNCHANGED <<clock, reload, tick, signals, row, history>>
-----------------------------------------------------------------------------
(* After a BUY that was executed its take-profit order is placed, if the   *)
(* signal names a price for it; one that is no number raises, and the      *)
(* signal is recorded once more, as FAILED.                                *)
AfterRecord ==
  \/ pc' = "collect" /\ outcome' = NoRow
  \/ /\ outcome = "EXECUTED" /\ Last.side = "BUY"
     /\ \/ pc' = "protect" /\ outcome' = NoRow
        \/ pc' = "record"  /\ outcome' = "FAILED"

(* _persist_signal inserts a row; a second one of the same id is refused.  *)
Insert == IF row = NoRow THEN outcome ELSE row

Record ==
  /\ pc = "record"
  /\ row' = Insert
  /\ AfterRecord
  /\ UNCHANGED <<clock, reload, tick, tries, signals, orders, history>>

RecordFails ==
  /\ pc = "record"
  /\ row' \in {row, Insert}
  /\ unrecorded' = TRUE
  /\ AfterRecord
  /\ UNCHANGED <<clock, reload, tick, tries, signals, orders>>
-----------------------------------------------------------------------------
(* The pipeline is started with a new runner; and stopped, which cancels   *)
(* the ticker at whatever it awaits, or killed.                            *)
Start ==
  /\ pc = "down"
  /\ pc' = "idle"
  /\ NothingUnderWay
  /\ UNCHANGED <<clock, reload, tick, tries, outcome, signals>>

Cancel ==
  /\ pc # "down"
  /\ pc' = "down"
  /\ loaded' = {} /\ db' = {} /\ lastReload' = LongAgo /\ lastFailed' = LongAgo
  /\ began' = 0 /\ running' = {} /\ results' = {} /\ tries' = 0 /\ outcome' = NoRow
  /\ signals' = <<>> /\ pricesPreloaded' = FALSE /\ waited' = FALSE
  /\ \/ Placing /\ Takes(Order(pc, FALSE))
     \/ UNCHANGED orders
  /\ row' \in IF pc = "record" THEN {row, Insert} ELSE {row}
  /\ unrecorded' = (unrecorded \/ pc \in {"order", "record"})
  /\ UNCHANGED clock

Init ==
  /\ clock = 0
  /\ loaded = {} /\ db = {}
  /\ lastReload = LongAgo /\ lastFailed = LongAgo
  /\ pc = "down" /\ began = 0 /\ running = {} /\ results = {}
  /\ tries = 0 /\ outcome = NoRow /\ signals = <<>>
  /\ orders = {} /\ row = NoSignal
  /\ unrecorded = FALSE /\ pricesPreloaded = FALSE /\ waited = FALSE

Reload == ReadRows \/ ReadFails \/ ApplyReload \/ RunWithoutReload \/ Preload
Collect == DropDuplicate \/ Route \/ EndTick
Place   == OrderTaken \/ OrderRefused \/ OrderErrs

Next ==
  \/ Second \/ \E s \in Strategies : ThreadEnds(s)
  \/ Reload \/ Collect \/ Place \/ Record \/ RecordFails
  \/ Start \/ Cancel

Spec == Init /\ [][Next]_vars
-----------------------------------------------------------------------------
(* Every part of the state stays in its range.                             *)
SignalType ==
  [by : Strategies, side : {"BUY", "SELL"}, price : Prices, at : Nat]

TypeOK ==
  /\ clock \in 0 .. MaxClock
  /\ loaded \subseteq Strategies /\ db \subseteq Strategies
  /\ lastReload \in {LongAgo} \union (0 .. clock)
  /\ lastFailed \in {LongAgo} \union (0 .. clock)
  /\ pc \in {"down", "idle", "reload", "preload", "run", "collect", "order", "record", "protect"}
  /\ began \in 0 .. clock
  /\ running \subseteq loaded
  /\ results \subseteq SignalType
  /\ tries \in 0 .. MaxRetries
  /\ outcome \in Statuses \union {NoRow}
  /\ signals \in Seq([by : Strategies, side : {"BUY", "SELL"}, price : Prices,
                      at : Nat, routed : Nat])
  /\ orders \subseteq [kind : {"order", "protect"}, of : {"BUY", "SELL"},
                      attempt : 0 .. MaxRetries, answered : BOOLEAN]
  /\ row \in Statuses \union {NoRow, NoSignal}
  /\ {unrecorded, pricesPreloaded, waited} \subseteq BOOLEAN

(* "Signal deduplication (same strategy+symbol+side within 60s)": in one   *)
(* run of the pipeline no signal is routed within the window of an equal   *)
(* one.  The window is shorter by the time a thread may take, since the    *)
(* history is ordered by tick and not by time.                             *)
RepeatsCaught ==
  \A i, j \in DOMAIN signals :
    i < j /\ Same(signals[i], signals[j])
      => signals[j].routed > signals[i].at + Window - Timeout

(* A signal puts a further order, or a further take-profit order, on the   *)
(* exchange only if no answer came to the one before                       *)
(* (live_market_service.py:108); what was answered is not sent again.      *)
OneOrderPerSignal ==
  \A o, q \in orders : o.kind = q.kind /\ o.attempt < q.attempt => ~o.answered

(* A take-profit order is there only for a BUY that the exchange took, and *)
(* whose answer said so.                                                   *)
Answered == \E o \in orders : o.kind = "order" /\ o.answered

TakeProfitFollowsBuy ==
  \A o \in orders : o.kind = "protect" =>
    o.of = "BUY" /\ Answered /\ row \in {NoRow, "EXECUTED"}

(* "DB persistence of all signals": the table says of a signal that it was *)
(* executed if and only if the exchange answered with its order: unless    *)
(* the write failed, or the pipeline was stopped in between.               *)
RowsTellOrders ==
  /\ row = "EXECUTED" => Answered
  /\ row \in {"FAILED", "REJECTED"} /\ Answered => unrecorded
  /\ row = NoRow => pc \in {"order", "record"} \/ unrecorded

(* The exchange and the table agree on a signal: one order of a kind, the  *)
(* lost ones aside, of the signal that asked for it, and recorded as it    *)
(* ended.                                                                  *)
OrdersAndRowsAgree == OneOrderPerSignal /\ TakeProfitFollowsBuy /\ RowsTellOrders

(* A strategy that was deactivated is run no longer than until the next    *)
(* reload, which comes when the interval is over or, after a failure of    *)
(* any strategy's row, when the debounce time is.  Only the first tick,    *)
(* before any signal, may run later than that behind its reload: it waits  *)
(* for the price statistics (strategy_runner.py:348).                      *)
DeactivationTakesEffect ==
  pc = "run" =>
    /\ running \subseteq db
    /\ \/ began <= lastReload + ReloadInterval
       \/ began < lastFailed + Debounce
       \/ waited /\ signals = <<>>
=============================================================================
