---------------------------- MODULE TradePipeline ----------------------------
(***************************************************************************)
(* TradePipeline (pipeline/service.py) for one symbol: trades are fed to   *)
(* the aggregator, the ticker takes a candle out of it every second and    *)
(* hands it to the database writer, and the pipeline is stopped, killed    *)
(* and started again.                                                      *)
(*                                                                         *)
(* The aggregator is the one of module TradeAggregator.  Of the recovery   *)
(* manager only its promise is used, a feed of consecutive trade ids that  *)
(* restarts behind the persisted id (RecoveryManager shows when it keeps   *)
(* it), and of the writer that buffered candles are stored in order, at    *)
(* any later time or never (DatabaseWriter): it may also miss the symbol   *)
(* of a candle, and fail in its last flush.                                *)
(***************************************************************************)
EXTENDS Integers, Sequences, FiniteSets

CONSTANTS
  MaxTrade,    (* bound: trades made at the exchange                       *)
  MaxClock,    (* bound: the last second                                   *)
  MaxStarts    (* bound: times the pipeline is started                     *)

PipelineAssumption == {MaxTrade, MaxClock, MaxStarts} \subseteq Nat

VARIABLES
  now,          (* the second the wall clock is in                         *)
  trades,       (* the second of every trade the exchange made, by id      *)
  phase,        (* "down", "recovering" (_initial_recovery) or "running"   *)
  starts,       (* how often the pipeline was started                      *)
  lastId,       (* _last_trade_id of the recovery manager                  *)
  cursor,       (* the persisted one                                       *)
  current, pending, lastClose, lastEmitted,    (* the aggregator           *)
  emitted,      (* the candle tick() returned and the ticket carries       *)
  ticked,       (* the second of the last tick                             *)
  buffer,       (* candles in the writer                                   *)
  known,        (* the symbol's id is in _symbol_id_cache                  *)
  table,        (* candles_1s: the candle stored for each second           *)
  stored,       (* history: ids of the trades of all candles ever stored   *)
  base,         (* history: the feed began behind this id                  *)
  onTime,       (* history: every trade arrived within its second          *)
  dropped       (* history: ids in memory when a run ended, or in a candle *)
                (* whose symbol was not found                              *)

Agg == INSTANCE TradeAggregator
         WITH tape <- trades, clock <- ticked, orderly <- FALSE

aggVars == <<current, pending, lastClose, lastEmitted>>
history == <<base, onTime, dropped>>
vars == <<now, trades, phase, starts, lastId, cursor, aggVars,
          emitted, ticked, buffer, known, table, stored, history>>

Seconds == 0 .. MaxClock - 1
NoStored   == Agg!NoCandle
-----------------------------------------------------------------------------
ExchangeTrade ==
  /\ Len(trades) < MaxTrade /\ now < MaxClock
  /\ trades' = Append(trades, now)
  /\ UNCHANGED <<now, phase, starts, lastId, cursor, aggVars,
                 emitted, ticked, buffer, known, table, stored, history>>

(* The id the feed goes on with; none when it has caught up.               *)
NextId   == IF lastId = 0 THEN base + 1 ELSE lastId + 1
CaughtUp == NextId > Len(trades)

(* A second of a running pipeline may end before all of its trades have    *)
(* arrived.                                                                *)
ClockAdvances ==
  /\ now < MaxClock
  /\ now' = now + 1
  /\ onTime' = (onTime /\ (phase = "down" \/ CaughtUp))
  /\ UNCHANGED <<trades, phase, starts, lastId, cursor, aggVars, emitted,
                 ticked, buffer, known, table, stored, base, dropped>>
-----------------------------------------------------------------------------
NoAggregator ==
  /\ current' = Agg!NoCandle /\ pending' = <<>>
  /\ lastClose' = Agg!NoClose /\ lastEmitted' = Agg!NoTime
  /\ emitted' = <<>> /\ buffer' = <<>> /\ known' = FALSE

(* start(): the managers load the persisted id.                            *)
Start ==
  /\ phase = "down" /\ starts < MaxStarts
  /\ starts' = starts + 1
  /\ lastId' = cursor
  /\ phase' = "recovering"
  /\ NoAggregator
  /\ UNCHANGED <<now, trades, cursor, ticked, table, stored, history>>

(* What was missed has been recovered; without a persisted id the feed     *)
(* begins now.  ensure_symbol() seeds the close of an aggregator that has  *)
(* seen no trade, and the ticker starts.                                   *)
Run ==
  /\ phase = "recovering"
  /\ lastId = 0 \/ CaughtUp
  /\ base' = IF lastId = 0 THEN Len(trades) ELSE base
  /\ phase' = "running"
  /\ lastClose' = IF current = Agg!NoCandle /\ \E s \in Seconds : table[s] # NoStored
                    THEN Agg!Seed ELSE lastClose
  /\ ticked' = now
  /\ UNCHANGED <<now, trades, starts, lastId, cursor, current, pending,
                 lastEmitted, emitted, buffer, known, table, stored, onTime,
                 dropped>>

(* _on_trade of the next id; the recovery manager may persist it.          *)
OnTrade ==
  /\ phase = "running" \/ (phase = "recovering" /\ lastId # 0)
  /\ ~CaughtUp
  /\ lastId' = NextId
  /\ cursor' \in {cursor, lastId'}
  /\ Agg!AddTrade(lastId', trades[lastId'])
  /\ UNCHANGED <<now, trades, phase, starts, emitted, ticked, buffer, known,
                 table, stored, history>>

TickAhead ==
  /\ phase = "running"
  /\ emitted = <<>>
  /\ ticked < now
  /\ ticked' = now
  /\ Agg!Tick(now + 1)
  /\ UNCHANGED <<now, trades, phase, starts, lastId, cursor, buffer, known,
                 table, stored, history>>

(* _ticker_loop: one tick per second boundary at most, none while the      *)
(* ticket of the last one is executed.                                     *)
Tick ==
  /\ phase = "running"
  /\ emitted = <<>>
  /\ ticked < now
  /\ ticked' = now
  /\ Agg!Tick(now)
  /\ UNCHANGED <<now, trades, phase, starts, lastId, cursor, buffer, known,
                 table, stored, history>>

(* _execute_ticket: write_candle looks up the symbol, once in a life of    *)
(* the writer, and takes the candle of the ticket.                         *)
WriteCandle ==
  /\ phase = "running"
  /\ emitted # <<>>
  /\ known' = TRUE
  /\ buffer' = buffer \o emitted
  /\ emitted' = <<>>
  /\ UNCHANGED <<now, trades, phase, starts, lastId, cursor, aggVars,
                 ticked, table, stored, history>>

IdsIn(queue) == UNION {queue[i].ids : i \in DOMAIN queue}

(* The trades of the candle under construction and of those in queues.     *)
HeldOf(queues) == current.ids \union UNION {IdsIn(q) : q \in queues}

(* A flush of the writer stores the buffer; a later candle of a second     *)
(* replaces an earlier one.                                                *)
Upsert(rows, tab) ==
  [s \in Seconds |->
     LET of == {i \in DOMAIN rows : rows[i].time = s}
     IN  IF of = {} THEN tab[s]
         ELSE rows[CHOOSE i \in of : \A j \in of : j <= i]]

(* The look-up raises or finds no symbol, and the ticket goes on without   *)
(* its candle.                                                             *)
LookupFails ==
  /\ phase = "running"
  /\ emitted # <<>> /\ ~known
  /\ emitted' = <<>>
  /\ dropped' = dropped \union IdsIn(emitted)
  /\ UNCHANGED <<now, trades, phase, starts, lastId, cursor, aggVars,
                 ticked, buffer, known, table, stored, base, onTime>>

StoreAll ==
  /\ table' = Upsert(buffer, table)
  /\ stored' = stored \union IdsIn(buffer)

Flush ==
  /\ phase = "running" /\ buffer # <<>>
  /\ StoreAll
  /\ buffer' = <<>>
  /\ UNCHANGED <<now, trades, phase, starts, lastId, cursor, aggVars,
                 emitted, ticked, known, history>>
-----------------------------------------------------------------------------
(* recovery.close() persists an id the feed has had since the writer was   *)
(* stopped, or fails; what arrived after that id is in the aggregator.     *)
ClosedAt ==
  {cursor} \union {id \in base + 1 .. lastId : (id + 1 .. lastId) \subseteq HeldOf({pending})}

(* stop(): ticker cancelled with the ticket in its hands, the last flush   *)
(* of the writer, recovery closed.  What the aggregator holds is not asked *)
(* for, and what the flush could not store is gone.                        *)
Stop ==
  /\ phase # "down"
  /\ \/ StoreAll /\ dropped' = dropped \union HeldOf({pending, emitted})
     \/ UNCHANGED <<table, stored>> /\ dropped' = dropped \union HeldOf({pending, emitted, buffer})
  /\ cursor' \in ClosedAt
  /\ phase' = "down"
  /\ NoAggregator
  /\ UNCHANGED <<now, trades, starts, lastId, ticked, base, onTime>>

Crash ==
  /\ phase # "down"
  /\ phase' = "down"
  /\ dropped' = dropped \union HeldOf({pending, emitted, buffer})
  /\ NoAggregator
  /\ UNCHANGED <<now, trades, starts, lastId, cursor, ticked, table, stored,
                 base, onTime>>
-----------------------------------------------------------------------------
Init ==
  /\ now = 0 /\ trades = <<>>
  /\ phase = "down" /\ starts = 0
  /\ lastId = 0 /\ cursor = 0
  /\ current = Agg!NoCandle /\ pending = <<>>
  /\ lastClose = Agg!NoClose /\ lastEmitted = Agg!NoTime
  /\ emitted = <<>> /\ ticked = 0 /\ buffer = <<>> /\ known = FALSE
  /\ table = [s \in Seconds |-> NoStored]
  /\ stored = {} /\ base = 0
  /\ onTime = TRUE /\ dropped = {}

Next ==
  \/ ExchangeTrade \/ ClockAdvances
  \/ Start \/ Run
  \/ OnTrade \/ Tick \/ WriteCandle \/ LookupFails \/ Flush
  \/ Stop \/ Crash

Spec == Init /\ [][Next]_vars
-----------------------------------------------------------------------------
TypeOK ==
  /\ now \in 0 .. MaxClock /\ ticked \in 0 .. now
  /\ trades \in Seq(Seconds)
  /\ phase \in {"down", "recovering", "running"}
  /\ starts \in Nat /\ lastId \in 0 .. Len(trades) /\ cursor \in 0 .. lastId
  /\ Len(emitted) <= 1 /\ known \in BOOLEAN
  /\ \A s \in Seconds : table[s] \in Agg!CandleType \union {NoStored}
  /\ stored \union dropped \subseteq DOMAIN trades

Of(s) == {id \in DOMAIN trades : trades[id] = s}

(* In the first run, as long as every trade was on time, a row of the table*)
(* holds exactly the trades the exchange made in its second since the feed *)
(* began (a restart may begin a second anew: StoredNeverShrinks).          *)
TimelyCandlesComplete ==
  onTime /\ starts <= 1 =>
    \A s \in Seconds : table[s] # NoStored => table[s].ids = Of(s) \ (1 .. base)

(* A stored candle holds only trades of its second, whatever was late,     *)
(* lost or recovered.                                                      *)
StoredPure == \A s \in Seconds : table[s].ids \subseteq Of(s)

(* What a row of the table says of its second.                             *)
RowsHoldTheirSecond == TimelyCandlesComplete /\ StoredPure

(* The ids the pipeline will not ask the exchange for again.               *)
Processed == base + 1 .. IF phase = "down" THEN cursor ELSE lastId

(* Every trade taken for processed has been stored in a candle, is on its  *)
(* way to the table, or is lost in one of three ways: the aggregator or the*)
(* ticket held it when a run ended; the writer held it when the run was    *)
(* killed or the last flush failed; or its candle's symbol could not be    *)
(* looked up.  A failed flush before the last loses nothing.               *)
ProcessedIsKept ==
  Processed \subseteq stored \union dropped
                      \union HeldOf({pending, emitted, buffer})

(* The table tells what was traded, and no trade misses in it unseen.      *)
TradesReachTheirRows == RowsHoldTheirSecond /\ ProcessedIsKept

(* The trade_count of a stored candle is the number of trades in its       *)
(* window: a later write never takes trades out of it again.               *)
StoredNeverShrinks ==
  [][\A s \in Seconds : table[s].ids \subseteq table'[s].ids]_table
=============================================================================
